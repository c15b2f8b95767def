--------------------------- MODULE WorkerLoopProofs ---------------------------
(***************************************************************************)
(* Theorems about WorkerLoop, for every set of executions, every naming of *)
(* sessions and aliases, every environment and every bound on crashes.     *)
(***************************************************************************)
EXTENDS WorkerLoop, TLAPS

(* A request of a call in progress is a request. *)
LEMMA RequestType ==
  ASSUME TypeOK, HeldWhileHandled, reply # "none"
  PROVE  /\ exec \in Executions
         /\ ThisRequest \in Requests
         /\ ThisRequest.exec = exec
         /\ ThisRequest.kind = KindOf(state)
BY DEF TypeOK, HeldWhileHandled, ThisRequest, Requests, KindOf, CallStates

(* What handling a request may do to Father's record of its execution. *)
LEMMA VerdictFacts ==
  ASSUME TypeOK, NEW r \in Requests, NEW status \in Verdicts(r)
  PROVE  /\ status \in Statuses
         /\ father[r.exec] # "offered" => status # "offered"
         /\ father[r.exec] \in Terminal => status = father[r.exec]
         /\ status # father[r.exec] =>
              \/ r.kind = "claim" /\ status = "claimed"
              \/ r.kind = "complete" /\ status = "completed"
              \/ r.kind = "fail" /\ status = "failed"
BY DEF TypeOK, Requests, Verdicts, Statuses, Terminal

LEMMA InitLoopInv == Init => LoopInv
<1> SUFFICES ASSUME Init PROVE LoopInv
  OBVIOUS
<1> USE WorkerLoopAssumption DEF WorkerLoopAssumption, Init
<1>1. TypeOK
  <2>1. rescued \in BOOLEAN /\ reported \in BOOLEAN
    OBVIOUS
  <2>2. state \in States /\ reply \in Replies /\ category \in Categories
    BY DEF States, Replies, Categories
  <2>3. father \in [Executions -> Statuses]
    BY DEF Statuses
  <2>4. crashes \in 0..MaxCrashes
    OBVIOUS
  <2>5. claimCache \in [Executions -> {"none", "body", "empty"}]
    OBVIOUS
  <2>6. cleaned \in [Executions -> {"no", "partial", "full"}]
    OBVIOUS
  <2>7. owner \in [Sessions -> Executions \cup {NoExec}]
    OBVIOUS
  <2>8. QED
    BY <2>1, <2>2, <2>3, <2>4, <2>5, <2>6, <2>7 DEF TypeOK
<1>2. HeldWhileHandled /\ NoWorkWithoutClaim /\ ReleasedWhenRecorded
  BY DEF HeldWhileHandled, NoWorkWithoutClaim, ReleasedWhenRecorded, Working,
         BeforeRole, InlineStates, RoleStates, CallStates
<1>3. RanInOrder /\ UnacknowledgedUntilReleased
  BY DEF RanInOrder, UnacknowledgedUntilReleased, Working, BeforeRole,
         InlineStates, RoleStates
<1>4. CachesMirrorFather /\ CompletedMeansRan
  BY DEF CachesMirrorFather, CompletedMeansRan
<1>5. AnswersAreTrue /\ NeverContradictsAcknowledgement
  BY DEF AnswersAreTrue, NeverContradictsAcknowledgement
<1>6. QED
  BY <1>1, <1>2, <1>3, <1>4, <1>5 DEF LoopInv

(* One step per action; the actions that change a function take a step more. *)
LEMMA TypeOKStep ==
  ASSUME TypeOK, HeldWhileHandled, [Next]_vars
  PROVE  TypeOK'
<1> USE WorkerLoopAssumption
    DEF WorkerLoopAssumption, TypeOK, HeldWhileHandled, States, Working, BeforeRole, RoleStates,
             InlineStates, Categories, Replies, CallStates, Report, Rescue,
             Leave, BeginCleanup, Proceed, Sweep, Idle, loopVars, cacheVars,
             machineVars, fatherVars, historyVars, worldVars
<1>1. CASE \E e \in Executions : TakeUp(e)
  BY <1>1 DEF TakeUp
<1>2. CASE CallFather
  <2>1. CachedReply \in Replies
    BY <1>2 DEF CallFather, CachedReply
  <2>2. QED
    BY <1>2, <2>1 DEF CallFather
<1>3. CASE PollNothing
  BY <1>3 DEF PollNothing
<1>4. CASE ClaimGranted
  BY <1>4 DEF ClaimGranted
<1>5. CASE ClaimAnsweredEmpty
  BY <1>5 DEF ClaimAnsweredEmpty
<1>6. CASE ClaimFails
  BY <1>6 DEF ClaimFails
<1>7. CASE ValidateEnvelope
  BY <1>7 DEF ValidateEnvelope
<1>8. CASE PrepareRepository
  BY <1>8 DEF PrepareRepository
<1>9. CASE PrepareRepositoryFails
  BY <1>9 DEF PrepareRepositoryFails
<1>10. CASE CreateWorktree
  BY <1>10 DEF CreateWorktree
<1>11. CASE PrepareClient
  BY <1>11 DEF PrepareClient
<1>12. CASE AcquireRuntime
  BY <1>12 DEF AcquireRuntime
<1>13. CASE CreateSession
  BY <1>13 DEF CreateSession
<1>14. CASE StartClient
  BY <1>14 DEF StartClient
<1>15. CASE InjectHandoff
  BY <1>15 DEF InjectHandoff
<1>16. CASE CollectResult
  BY <1>16 DEF CollectResult
<1>17. CASE StepFails
  BY <1>17 DEF StepFails
<1>18. CASE StepRaisesUnexpected
  BY <1>18 DEF StepRaisesUnexpected
<1>19. CASE CompleteAcknowledged
  BY <1>19 DEF CompleteAcknowledged
<1>20. CASE CompleteFails
  BY <1>20 DEF CompleteFails
<1>21. CASE CompleteRaises
  BY <1>21 DEF CompleteRaises
<1>22. CASE ReleaseRuntime
  BY <1>22 DEF ReleaseRuntime
<1>23. CASE FailReturns
  BY <1>23 DEF FailReturns
<1>24. CASE ReportRaises
  BY <1>24 DEF ReportRaises, NameRaises
<1>25. CASE CleanWorktree
  BY <1>25 DEF CleanWorktree
<1>26. CASE Restart
  BY <1>26 DEF Restart
<1>27. CASE HourlySweep
  BY <1>27 DEF HourlySweep
<1>28. CASE Unreachable
  BY <1>28 DEF Unreachable
<1>29. CASE CleanSession
  <2>1. owner' \in [Sessions -> Executions \cup {NoExec}]
    BY <1>29 DEF CleanSession
  <2>2. cleaned' \in [Executions -> {"no", "partial", "full"}]
    BY <1>29 DEF CleanSession
  <2>3. QED
    BY <1>29, <2>1, <2>2 DEF CleanSession
<1>30. CASE FatherAnswers
  <2>1. father' \in [Executions -> Statuses]
    BY <1>30, RequestType, VerdictFacts DEF FatherAnswers
  <2>2. reply' \in Replies
    BY <1>30 DEF FatherAnswers
  <2>3. QED
    BY <1>30, <2>1, <2>2 DEF FatherAnswers
<1>31. CASE TimesOut
  BY <1>31, RequestType DEF TimesOut
<1>32. ASSUME NEW r \in late, FatherHandlesLate(r) PROVE TypeOK'
  <2>1. r \in Requests /\ r.exec \in Executions
    BY <1>32 DEF Requests
  <2>2. PICK status \in Verdicts(r) : father' = [father EXCEPT ![r.exec] = status]
    BY <1>32 DEF FatherHandlesLate
  <2>3. status \in Statuses
    BY <2>1, VerdictFacts
  <2>4. QED
    BY <1>32, <2>1, <2>2, <2>3 DEF FatherHandlesLate
<1>33. CASE \E e \in Executions : FatherWithdraws(e) \/ FatherExpires(e)
  BY <1>33 DEF FatherWithdraws, FatherExpires, Statuses
<1>34. CASE Crash
  <2>1. late' \subseteq Requests
    BY <1>34, RequestType DEF Crash
  <2>2. owner' \in [Sessions -> Executions \cup {NoExec}] /\ crashes' \in 0..MaxCrashes
    BY <1>34 DEF Crash
  <2>3. claimCache' \in [Executions -> {"none", "body", "empty"}]
    BY <1>34 DEF Crash
  <2>4. completedCache' \subseteq Executions /\ failedCache' \subseteq Executions
    BY <1>34 DEF Crash
  <2>5. QED
    BY <1>34, <2>1, <2>2, <2>3, <2>4 DEF Crash
<1>35. CASE UNCHANGED vars
  BY <1>35 DEF vars
<1>36. CASE \E e \in Executions : RoleWrites(e)
  BY <1>36 DEF RoleWrites
<1>37. CASE \E n \in Sessions : SessionEnds(n)
  BY <1>37 DEF SessionEnds
<1> QED
  BY <1>1, <1>2, <1>3, <1>4, <1>5, <1>6, <1>7, <1>8, <1>9, <1>10, <1>11,
     <1>12, <1>13, <1>14, <1>15, <1>16, <1>17, <1>18, <1>19, <1>20, <1>21, <1>22,
     <1>23, <1>24, <1>25, <1>26, <1>27, <1>28, <1>29, <1>30, <1>31, <1>32, <1>33,
     <1>34, <1>35, <1>36, <1>37
     DEF Next, WorkerStep, CallEnds, FatherStep, RoleStep

(* The part of LoopInv that is about Father's record alone. *)
Recorded ==
  /\ CachesMirrorFather
  /\ CompletedMeansRan
  /\ \A e \in ran : father[e] # "offered"
  /\ \A r \in late : r.kind = "complete" => r.exec \in ran

(* Handling request r keeps the record in step with the caches and with    *)
(* what ran, provided a completion is only asked for what ran.             *)
LEMMA RecordStep ==
  ASSUME TypeOK, Recorded, NEW r \in Requests, NEW status \in Verdicts(r),
         r.kind = "complete" => r.exec \in ran,
         father' = [father EXCEPT ![r.exec] = status],
         late' \subseteq late,
         UNCHANGED <<cacheVars, ran>>
  PROVE  Recorded'
<1>1. r.exec \in Executions /\ father'[r.exec] = status
  BY DEF Requests, TypeOK
<1>2. \A e \in Executions : e # r.exec => father'[e] = father[e]
  BY DEF TypeOK
<1>3. CachesMirrorFather'
  BY <1>1, <1>2, VerdictFacts DEF TypeOK, Recorded, CachesMirrorFather, cacheVars, Terminal
<1>4. CompletedMeansRan'
  BY <1>1, <1>2, VerdictFacts DEF TypeOK, Recorded, CompletedMeansRan
<1>5. \A e \in ran' : father'[e] # "offered"
  BY <1>1, <1>2, VerdictFacts DEF TypeOK, Recorded
<1>6. QED
  BY <1>3, <1>4, <1>5 DEF Recorded

(* One step per action of the conjuncts beside TypeOK. *)
LEMMA LoopInvStep ==
  ASSUME Offerable = {"offered"}, LoopInv, [Next]_vars
  PROVE  LoopInv'
<1> DEFINE Rest == /\ HeldWhileHandled /\ AnswersAreTrue
                   /\ CachesMirrorFather /\ NoWorkWithoutClaim
                   /\ CompletedMeansRan /\ RanInOrder
                   /\ ReleasedWhenRecorded /\ UnacknowledgedUntilReleased
                   /\ NeverContradictsAcknowledgement
<1>0. TypeOK'
  BY TypeOKStep DEF LoopInv
<1> SUFFICES Rest'
  BY <1>0 DEF LoopInv
<1> USE WorkerLoopAssumption
    DEF WorkerLoopAssumption, LoopInv, TypeOK, HeldWhileHandled, AnswersAreTrue, CachesMirrorFather,
        NoWorkWithoutClaim, CompletedMeansRan, RanInOrder, ReleasedWhenRecorded,
        UnacknowledgedUntilReleased, NeverContradictsAcknowledgement, States,
        Working, BeforeRole, RoleStates, InlineStates, CallStates, Report,
        Rescue, Leave, BeginCleanup, Proceed, Sweep, Idle, loopVars, cacheVars,
        machineVars, fatherVars, historyVars, worldVars
<1>1. CASE \E e \in Executions : TakeUp(e)
  BY <1>1 DEF TakeUp
<1>2. CASE PollNothing
  BY <1>2 DEF PollNothing
<1>3. CASE CallFather
  BY <1>3 DEF CallFather, CachedReply
<1>4. CASE ClaimGranted
  BY <1>4 DEF ClaimGranted
<1>5. CASE ClaimAnsweredEmpty
  BY <1>5 DEF ClaimAnsweredEmpty
<1>6. CASE ClaimFails
  BY <1>6 DEF ClaimFails
<1>7. CASE ValidateEnvelope
  BY <1>7 DEF ValidateEnvelope
<1>8. CASE PrepareRepository
  BY <1>8 DEF PrepareRepository
<1>9. CASE PrepareRepositoryFails
  BY <1>9 DEF PrepareRepositoryFails
<1>10. CASE CreateWorktree
  BY <1>10 DEF CreateWorktree
<1>11. CASE PrepareClient
  BY <1>11 DEF PrepareClient
<1>12. CASE AcquireRuntime
  BY <1>12 DEF AcquireRuntime
<1>13. CASE CreateSession
  BY <1>13 DEF CreateSession
<1>14. CASE StartClient
  BY <1>14 DEF StartClient
<1>15. CASE InjectHandoff
  BY <1>15 DEF InjectHandoff
<1>16. CASE CollectResult
  BY <1>16 DEF CollectResult
<1>17. CASE StepFails
  BY <1>17 DEF StepFails
<1>18. CASE StepRaisesUnexpected
  BY <1>18 DEF StepRaisesUnexpected
<1>19. CASE CompleteAcknowledged
  BY <1>19 DEF CompleteAcknowledged
<1>20. CASE CompleteFails
  BY <1>20 DEF CompleteFails
<1>21. CASE CompleteRaises
  BY <1>21 DEF CompleteRaises
<1>22. CASE ReleaseRuntime
  BY <1>22 DEF ReleaseRuntime
<1>23. CASE FailReturns
  BY <1>23 DEF FailReturns
<1>24. CASE ReportRaises
  BY <1>24 DEF ReportRaises, NameRaises
<1>25. CASE CleanWorktree
  BY <1>25 DEF CleanWorktree
<1>26. CASE Restart
  BY <1>26 DEF Restart
<1>27. CASE HourlySweep
  BY <1>27 DEF HourlySweep
<1>28. CASE Unreachable
  BY <1>28 DEF Unreachable
<1>29. CASE CleanSession
  BY <1>29 DEF CleanSession
<1>30. CASE FatherAnswers
  <2>1. PICK status \in Verdicts(ThisRequest) :
          /\ father' = [father EXCEPT ![exec] = status]
          /\ reply' \in {"body", "empty"} => status # father[exec]
    BY <1>30 DEF FatherAnswers
  <2>2. /\ ThisRequest \in Requests /\ ThisRequest.exec = exec
        /\ ThisRequest.kind = KindOf(state) /\ exec \in Executions
    BY <1>30, RequestType DEF FatherAnswers
  <2>3. ThisRequest.kind = "complete" => state = "REPORTING_RESULT"
    BY <1>30, <2>2 DEF FatherAnswers, KindOf
  <2>4. Recorded'
    BY <1>30, <2>1, <2>2, <2>3, RecordStep DEF Recorded, FatherAnswers
  <2>5. /\ father'[exec] = status
        /\ father[exec] # "offered" => status # "offered"
        /\ father[exec] \in Terminal => status = father[exec]
    BY <2>1, <2>2, VerdictFacts
  <2>6. status # father[exec] =>
          /\ state = "CLAIMED" => status = "claimed"
          /\ state = "REPORTING_RESULT" => status = "completed"
          /\ state = "ROLE_EXECUTION_FAILED" => status = "failed"
    BY <2>1, <2>2, VerdictFacts DEF KindOf
  <2>7. QED
    BY <1>30, <2>1, <2>4, <2>5, <2>6 DEF Recorded, FatherAnswers
<1>31. CASE TimesOut
  <2>1. ThisRequest.kind = "complete" => exec \in ran
    BY <1>31, RequestType DEF TimesOut, KindOf
  <2>2. QED
    BY <1>31, <2>1, RequestType DEF TimesOut
<1>32. ASSUME NEW r \in late, FatherHandlesLate(r) PROVE Rest'
  <2>1. r \in Requests /\ r.exec \in Executions
    BY <1>32 DEF Requests
  <2>2. PICK status \in Verdicts(r) : father' = [father EXCEPT ![r.exec] = status]
    BY <1>32 DEF FatherHandlesLate
  <2>3. Recorded'
    BY <1>32, <2>1, <2>2, RecordStep DEF Recorded, FatherHandlesLate
  <2>4. \A e \in Executions :
          /\ father[e] # "offered" => father'[e] # "offered"
          /\ father[e] \in Terminal => father'[e] = father[e]
    BY <2>1, <2>2, VerdictFacts
  <2>5. QED
    BY <1>32, <2>3, <2>4 DEF Recorded, FatherHandlesLate, Terminal
<1>33. CASE \E e \in Executions : FatherWithdraws(e) \/ FatherExpires(e)
  BY <1>33 DEF FatherWithdraws, FatherExpires
<1>34. CASE Crash
  <2>1. \A r \in late' : r.kind = "complete" => r.exec \in ran
    BY <1>34, RequestType DEF Crash, KindOf
  <2>2. QED
    BY <1>34, <2>1 DEF Crash
<1>35. CASE UNCHANGED vars
  BY <1>35 DEF vars
<1>36. CASE \E e \in Executions : RoleWrites(e)
  BY <1>36 DEF RoleWrites
<1>37. CASE \E n \in Sessions : SessionEnds(n)
  BY <1>37 DEF SessionEnds
<1> QED
  BY <1>1, <1>2, <1>3, <1>4, <1>5, <1>6, <1>7, <1>8, <1>9, <1>10, <1>11,
     <1>12, <1>13, <1>14, <1>15, <1>16, <1>17, <1>18, <1>19, <1>20, <1>21, <1>22,
     <1>23, <1>24, <1>25, <1>26, <1>27, <1>28, <1>29, <1>30, <1>31, <1>32, <1>33,
     <1>34, <1>35, <1>36, <1>37
     DEF Next, WorkerStep, CallEnds, FatherStep, RoleStep

(* In every run of the loop, with a Father that offers only offered work,  *)
(* LoopInv holds: claims, reports, caches and record agree.                *)
THEOREM LoopInvariant == Offerable = {"offered"} => (SafeSpec => []LoopInv)
<1> SUFFICES ASSUME Offerable = {"offered"} PROVE SafeSpec => []LoopInv
  OBVIOUS
<1>1. Init => LoopInv
  BY InitLoopInv
<1>2. LoopInv /\ [Next]_vars => LoopInv'
  BY LoopInvStep
<1>3. QED
  BY <1>1, <1>2, PTL DEF SafeSpec

(* The variables of the loop keep their types. *)
THEOREM TypeCorrect == Offerable = {"offered"} => (SafeSpec => []TypeOK)
<1>1. LoopInv => TypeOK
  BY DEF LoopInv
<1>2. QED
  BY <1>1, LoopInvariant, PTL

(* The client's caches never say more than Father recorded. *)
THEOREM CachesAreTrue ==
  Offerable = {"offered"} => (SafeSpec => []CachesMirrorFather)
<1>1. LoopInv => CachesMirrorFather
  BY DEF LoopInv
<1>2. QED
  BY <1>1, LoopInvariant, PTL

(* A claim that failed, or whose answer was lost, causes no execution. *)
THEOREM ClaimBeforeWork ==
  Offerable = {"offered"} => (SafeSpec => []NoWorkWithoutClaim)
<1>1. LoopInv => NoWorkWithoutClaim
  BY DEF LoopInv
<1>2. QED
  BY <1>1, LoopInvariant, PTL

(* A completed record stands for a role that ran, late requests and        *)
(* crashes included.                                                       *)
THEOREM ResultsAreReal ==
  Offerable = {"offered"} => (SafeSpec => []CompletedMeansRan)
<1>1. LoopInv => CompletedMeansRan
  BY DEF LoopInv
<1>2. QED
  BY <1>1, LoopInvariant, PTL

(* An acknowledged completion is never followed by a failure report. *)
THEOREM AcknowledgedIsFinal ==
  Offerable = {"offered"} => (SafeSpec => []NeverContradictsAcknowledgement)
<1>1. LoopInv => NeverContradictsAcknowledgement
  BY DEF LoopInv
<1>2. QED
  BY <1>1, LoopInvariant, PTL

(* The handoff of an execution is injected at most once, over all its      *)
(* claims, late requests and crashes.                                      *)
THEOREM RunsAtMostOnce ==
  Offerable = {"offered"} => (SafeSpec => RoleRunsAtMostOnce)
<1>1. LoopInv => (state = "INJECTING_HANDOFF" => exec \notin ran)
  BY DEF LoopInv, RanInOrder, BeforeRole, InlineStates
<1>2. LoopInv => [state = "INJECTING_HANDOFF" /\ state' = "COLLECTING_RESULT"
                    => exec \notin ran]_vars
  BY <1>1
<1>3. QED
  BY <1>2, LoopInvariant, PTL DEF RoleRunsAtMostOnce

(* The directory of an execution goes away only in its own cleanup. *)
THEOREM WorktreeOutlives ==
  Offerable = {"offered"} => (SafeSpec => WorktreeOutlivesSequence)
<1>1. LoopInv /\ [Next]_vars =>
        [exec # NoExec /\ exec \in worktrees /\ exec \notin worktrees'
           => state = "CLEANING_UP"]_vars
  <2> SUFFICES ASSUME LoopInv, Next, exec # NoExec, exec \in worktrees,
                      exec \notin worktrees'
               PROVE  state = "CLEANING_UP"
    BY DEF vars
  <2>1. state # "DOWN"
    BY DEF LoopInv, HeldWhileHandled
  <2>2. CASE CleanWorktree
    BY <2>2 DEF CleanWorktree
  <2>3. CASE CreateWorktree
    BY <2>3 DEF CreateWorktree
  <2>4. CASE Restart \/ HourlySweep
    BY <2>1, <2>4 DEF Restart, HourlySweep, Idle
  <2>5. CASE \E e \in Executions : RoleWrites(e)
    BY <2>5 DEF RoleWrites
  <2>6. CASE ~(CleanWorktree \/ CreateWorktree \/ Restart \/ HourlySweep)
             /\ ~\E e \in Executions : RoleWrites(e)
    <3>1. worktrees' = worktrees
      BY <2>6 DEF Next, WorkerStep, CallEnds, FatherStep, RoleStep, PollNothing, TakeUp,
             CallFather, ClaimGranted, ClaimAnsweredEmpty, ClaimFails,
             ValidateEnvelope, PrepareRepository, PrepareRepositoryFails,
             CreateWorktree, PrepareClient, AcquireRuntime, CreateSession,
             StartClient, InjectHandoff, CollectResult, StepFails,
             StepRaisesUnexpected, CompleteAcknowledged, CompleteFails,
             CompleteRaises, ReleaseRuntime, FailReturns, ReportRaises,
             CleanWorktree, CleanSession, Restart, HourlySweep, FatherAnswers,
             Unreachable, TimesOut, FatherHandlesLate, FatherWithdraws,
             FatherExpires, RoleWrites, SessionEnds, Crash, Report, Rescue,
             Leave, BeginCleanup, Proceed, machineVars, fatherVars,
             historyVars, worldVars, loopVars
    <3>2. QED
      BY <3>1
  <2>7. QED
    BY <2>2, <2>3, <2>4, <2>5, <2>6
<1>2. QED
  BY <1>1, LoopInvariant, PTL DEF SafeSpec, WorktreeOutlivesSequence

(* A runtime is stopped only once the result of the execution that stops   *)
(* it is on Father's record.                                               *)
THEOREM ReleaseIsDurable ==
  Offerable = {"offered"} => (SafeSpec => ReleaseAfterDurableReport)
<1>1. LoopInv /\ [Next]_vars =>
        [runtimes' # runtimes /\ runtimes' \subseteq runtimes
           => exec # NoExec /\ father[exec] = "completed"]_vars
  <2> SUFFICES ASSUME LoopInv, Next, runtimes' # runtimes,
                      runtimes' \subseteq runtimes
               PROVE  exec # NoExec /\ father[exec] = "completed"
    BY DEF vars
  <2>1. CASE ReleaseRuntime
    BY <2>1 DEF ReleaseRuntime, LoopInv, ReleasedWhenRecorded,
                HeldWhileHandled, Working, RoleStates
  <2>2. CASE AcquireRuntime
    BY <2>2 DEF AcquireRuntime
  <2>3. CASE ~(ReleaseRuntime \/ AcquireRuntime)
    <3>1. runtimes' = runtimes
      BY <2>3 DEF Next, WorkerStep, CallEnds, FatherStep, RoleStep, PollNothing, TakeUp,
             CallFather, ClaimGranted, ClaimAnsweredEmpty, ClaimFails,
             ValidateEnvelope, PrepareRepository, PrepareRepositoryFails,
             CreateWorktree, PrepareClient, AcquireRuntime, CreateSession,
             StartClient, InjectHandoff, CollectResult, StepFails,
             StepRaisesUnexpected, CompleteAcknowledged, CompleteFails,
             CompleteRaises, ReleaseRuntime, FailReturns, ReportRaises,
             CleanWorktree, CleanSession, Restart, HourlySweep, FatherAnswers,
             Unreachable, TimesOut, FatherHandlesLate, FatherWithdraws,
             FatherExpires, RoleWrites, SessionEnds, Crash, Report, Rescue,
             Leave, BeginCleanup, Proceed, machineVars, fatherVars,
             historyVars, worldVars, loopVars
    <3>2. QED
      BY <3>1
  <2>4. QED
    BY <2>1, <2>2, <2>3
<1>2. QED
  BY <1>1, LoopInvariant, PTL DEF SafeSpec, ReleaseAfterDurableReport

(* The inductive invariant behind the cleanup's report: the event of the   *)
(* execution in hand is open, a removal noted as ok did remove, and a      *)
(* session bears the name of its owner.                                    *)
MachineInv ==
  /\ FullCleanupLeavesNothing
  /\ exec # NoExec => cleaned[exec] = "no"
  /\ gitOutcome # "none" => exec # NoExec /\ state = "CLEANING_UP"
  /\ gitOutcome = "ok" => exec \notin worktrees \ revived
  /\ \A n \in Sessions : owner[n] # NoExec => SessionOf[owner[n]] = n

LEMMA MachineInvStep ==
  ASSUME LoopInv, MachineInv, [Next]_vars
  PROVE  MachineInv'
<1> USE WorkerLoopAssumption
    DEF WorkerLoopAssumption, LoopInv, TypeOK, HeldWhileHandled, MachineInv,
        FullCleanupLeavesNothing, Working, BeforeRole, InlineStates, RoleStates,
        CallStates, loopVars, cacheVars, machineVars, fatherVars, historyVars,
        worldVars, Report, Rescue, Leave, BeginCleanup, Proceed, Sweep, Idle
<1>1. CASE \E e \in Executions : TakeUp(e)
  BY <1>1 DEF TakeUp
<1>2. CASE PollNothing
  BY <1>2 DEF PollNothing
<1>3. CASE CallFather
  BY <1>3 DEF CallFather
<1>4. CASE ClaimGranted
  BY <1>4 DEF ClaimGranted
<1>5. CASE ClaimAnsweredEmpty
  BY <1>5 DEF ClaimAnsweredEmpty
<1>6. CASE ClaimFails
  BY <1>6 DEF ClaimFails
<1>7. CASE ValidateEnvelope
  BY <1>7 DEF ValidateEnvelope
<1>8. CASE PrepareRepository
  BY <1>8 DEF PrepareRepository
<1>9. CASE PrepareRepositoryFails
  BY <1>9 DEF PrepareRepositoryFails
<1>10. CASE CreateWorktree
  BY <1>10 DEF CreateWorktree
<1>11. CASE PrepareClient
  BY <1>11 DEF PrepareClient
<1>12. CASE AcquireRuntime
  BY <1>12 DEF AcquireRuntime
<1>13. CASE CreateSession
  BY <1>13 DEF CreateSession
<1>14. CASE StartClient
  BY <1>14 DEF StartClient
<1>15. CASE InjectHandoff
  BY <1>15 DEF InjectHandoff
<1>16. CASE CollectResult
  BY <1>16 DEF CollectResult
<1>17. CASE StepFails
  BY <1>17 DEF StepFails
<1>18. CASE StepRaisesUnexpected
  BY <1>18 DEF StepRaisesUnexpected
<1>19. CASE CompleteAcknowledged
  BY <1>19 DEF CompleteAcknowledged
<1>20. CASE CompleteFails
  BY <1>20 DEF CompleteFails
<1>21. CASE CompleteRaises
  BY <1>21 DEF CompleteRaises
<1>22. CASE ReleaseRuntime
  BY <1>22 DEF ReleaseRuntime
<1>23. CASE FailReturns
  BY <1>23 DEF FailReturns
<1>24. CASE ReportRaises
  BY <1>24 DEF ReportRaises
<1>25. CASE CleanWorktree
  BY <1>25 DEF CleanWorktree
<1>26. CASE Restart
  BY <1>26 DEF Restart
<1>27. CASE HourlySweep
  BY <1>27 DEF HourlySweep
<1>28. CASE Unreachable
  BY <1>28 DEF Unreachable
<1>29. CASE CleanSession
  <2>1. exec \in Executions /\ SessionOf[exec] \in Sessions
    BY <1>29 DEF CleanSession
  <2>2. PICK killed \in SUBSET Target(SessionOf[exec]) :
          /\ owner' = [n \in Sessions |-> IF n \in killed THEN NoExec ELSE owner[n]]
          /\ cleaned' = [cleaned EXCEPT ![exec] =
                IF killed # {} /\ gitOutcome = "ok" THEN "full" ELSE "partial"]
    BY <1>29 DEF CleanSession
  <2>3. \A n \in Sessions : owner'[n] \in {NoExec, owner[n]}
    BY <2>2
  <2>4. killed # {} => owner'[SessionOf[exec]] = NoExec
    BY <2>1, <2>2 DEF Target
  <2>5. FullCleanupLeavesNothing'
    BY <1>29, <2>1, <2>2, <2>3, <2>4 DEF CleanSession
  <2>6. QED
    BY <1>29, <2>3, <2>5 DEF CleanSession
<1>30. CASE FatherAnswers
  BY <1>30 DEF FatherAnswers
<1>31. CASE TimesOut
  BY <1>31 DEF TimesOut
<1>32. CASE \E r \in late : FatherHandlesLate(r)
  BY <1>32 DEF FatherHandlesLate
<1>33. CASE \E e \in Executions : FatherWithdraws(e) \/ FatherExpires(e)
  BY <1>33 DEF FatherWithdraws, FatherExpires
<1>34. CASE Crash
  BY <1>34 DEF Crash
<1>35. CASE UNCHANGED vars
  BY <1>35 DEF vars
<1>36. CASE \E e \in Executions : RoleWrites(e)
  BY <1>36 DEF RoleWrites
<1>37. CASE \E n \in Sessions : SessionEnds(n)
  BY <1>37 DEF SessionEnds
<1> QED
  BY <1>1, <1>2, <1>3, <1>4, <1>5, <1>6, <1>7, <1>8, <1>9, <1>10, <1>11,
     <1>12, <1>13, <1>14, <1>15, <1>16, <1>17, <1>18, <1>19, <1>20, <1>21, <1>22,
     <1>23, <1>24, <1>25, <1>26, <1>27, <1>28, <1>29, <1>30, <1>31, <1>32, <1>33,
     <1>34, <1>35, <1>36, <1>37
     DEF Next, WorkerStep, CallEnds, FatherStep, RoleStep

(* A cleanup that reports both steps done left no session, and no worktree *)
(* its role did not bring back between the two steps, in any environment   *)
(* and for any naming of the sessions.                                     *)
THEOREM CleanupIsTrue ==
  Offerable = {"offered"} => (SafeSpec => []FullCleanupLeavesNothing)
<1>1. Init => MachineInv
  BY WorkerLoopAssumption
     DEF WorkerLoopAssumption, Init, MachineInv, FullCleanupLeavesNothing
<1>2. LoopInv /\ MachineInv /\ [Next]_vars => MachineInv'
  BY MachineInvStep
<1>3. MachineInv => FullCleanupLeavesNothing
  BY DEF MachineInv
<1>4. QED
  BY <1>1, <1>2, <1>3, LoopInvariant, PTL DEF SafeSpec

(* If no execution's session name is another one's or its beginning,       *)
(* cleanup kills no session but its own, whichever sessions end on their   *)
(* own around it, and although tmux takes a name for a longer one.         *)
THEOREM OwnSessionOnly ==
  ASSUME Offerable = {"offered"}, NamesApart
  PROVE  SafeSpec => OnlyOwnSessionKilled
<1>1. Init => MachineInv
  BY WorkerLoopAssumption
     DEF WorkerLoopAssumption, Init, MachineInv, FullCleanupLeavesNothing
<1>2. LoopInv /\ MachineInv /\ [Next]_vars => MachineInv'
  BY MachineInvStep
<1>3. LoopInv /\ MachineInv /\ [Next]_vars =>
        [state = "CLEANING_UP" /\ state' = "RECEIVED"
           => \A n \in Sessions :
                owner[n] # NoExec /\ owner'[n] # owner[n] => owner[n] = exec]_vars
  <2> SUFFICES ASSUME LoopInv, MachineInv, Next, state = "CLEANING_UP",
                      state' = "RECEIVED", NEW n \in Sessions,
                      owner[n] # NoExec, owner'[n] # owner[n]
               PROVE  owner[n] = exec
    BY DEF vars
  <2>1. exec \in Executions \cup {NoExec} /\ owner[n] \in Executions
    BY DEF LoopInv, TypeOK
  <2>2. CASE CleanSession
    <3>1. exec \in Executions
      BY <2>2 DEF CleanSession, LoopInv, TypeOK, HeldWhileHandled
    <3>2. n \in Target(SessionOf[exec])
      BY <2>2 DEF CleanSession
    <3>3. n \in {SessionOf[exec]} \cup LongerNames[SessionOf[exec]]
      BY <3>2 DEF Target
    <3>4. SessionOf[owner[n]] = n
      BY DEF MachineInv
    <3>5. QED
      BY <2>1, <3>1, <3>3, <3>4 DEF NamesApart
  <2>3. CASE ~CleanSession
    <3>1. ~(state = "CLEANING_UP" /\ state' = "RECEIVED")
      BY <2>3 DEF Next, WorkerStep, CallEnds, FatherStep, RoleStep, PollNothing, TakeUp,
             CallFather, ClaimGranted, ClaimAnsweredEmpty, ClaimFails,
             ValidateEnvelope, PrepareRepository, PrepareRepositoryFails,
             CreateWorktree, PrepareClient, AcquireRuntime, CreateSession,
             StartClient, InjectHandoff, CollectResult, StepFails,
             StepRaisesUnexpected, CompleteAcknowledged, CompleteFails,
             CompleteRaises, ReleaseRuntime, FailReturns, ReportRaises,
             CleanWorktree, CleanSession, Restart, HourlySweep, FatherAnswers,
             Unreachable, TimesOut, FatherHandlesLate, FatherWithdraws,
             FatherExpires, RoleWrites, SessionEnds, Crash, Report, Rescue,
             Leave, BeginCleanup, Proceed, machineVars, fatherVars,
             historyVars, worldVars, loopVars, CallStates, Idle
    <3>2. QED
      BY <3>1
  <2>4. QED
    BY <2>2, <2>3
<1>4. QED
  BY <1>1, <1>2, <1>3, LoopInvariant, PTL DEF SafeSpec, OnlyOwnSessionKilled

(* By the time the runtime is released or the cleanup begins, and whenever *)
(* the answer of a report is there, the execution has been reported.       *)
ReportedInv ==
  /\ reply # "none" /\ state # "CLAIMED" => reported
  /\ state \in {"RELEASING_RUNTIME", "CLEANING_UP"} => reported

LEMMA ReportedInvStep ==
  ASSUME LoopInv, ReportedInv, [Next]_vars
  PROVE  ReportedInv'
<1> USE DEF LoopInv, TypeOK, HeldWhileHandled, ReportedInv, Working, BeforeRole,
        InlineStates, RoleStates, CallStates, loopVars, cacheVars, machineVars,
        fatherVars, historyVars, worldVars, Report, Rescue, Leave, BeginCleanup,
        Proceed, Sweep, Idle
<1>1. CASE \E e \in Executions : TakeUp(e)
  BY <1>1 DEF TakeUp
<1>2. CASE PollNothing
  BY <1>2 DEF PollNothing
<1>3. CASE CallFather
  BY <1>3 DEF CallFather, CachedReply
<1>4. CASE ClaimGranted
  BY <1>4 DEF ClaimGranted
<1>5. CASE ClaimAnsweredEmpty
  BY <1>5 DEF ClaimAnsweredEmpty
<1>6. CASE ClaimFails
  BY <1>6 DEF ClaimFails
<1>7. CASE ValidateEnvelope
  BY <1>7 DEF ValidateEnvelope
<1>8. CASE PrepareRepository
  BY <1>8 DEF PrepareRepository
<1>9. CASE PrepareRepositoryFails
  BY <1>9 DEF PrepareRepositoryFails
<1>10. CASE CreateWorktree
  BY <1>10 DEF CreateWorktree
<1>11. CASE PrepareClient
  BY <1>11 DEF PrepareClient
<1>12. CASE AcquireRuntime
  BY <1>12 DEF AcquireRuntime
<1>13. CASE CreateSession
  BY <1>13 DEF CreateSession
<1>14. CASE StartClient
  BY <1>14 DEF StartClient
<1>15. CASE InjectHandoff
  BY <1>15 DEF InjectHandoff
<1>16. CASE CollectResult
  BY <1>16 DEF CollectResult
<1>17. CASE StepFails
  BY <1>17 DEF StepFails
<1>18. CASE StepRaisesUnexpected
  BY <1>18 DEF StepRaisesUnexpected
<1>19. CASE CompleteAcknowledged
  BY <1>19 DEF CompleteAcknowledged
<1>20. CASE CompleteFails
  BY <1>20 DEF CompleteFails
<1>21. CASE CompleteRaises
  BY <1>21 DEF CompleteRaises
<1>22. CASE ReleaseRuntime
  BY <1>22 DEF ReleaseRuntime
<1>23. CASE FailReturns
  BY <1>23 DEF FailReturns
<1>24. CASE ReportRaises
  BY <1>24 DEF ReportRaises, NameRaises
<1>25. CASE CleanWorktree
  BY <1>25 DEF CleanWorktree
<1>26. CASE Restart
  BY <1>26 DEF Restart
<1>27. CASE HourlySweep
  BY <1>27 DEF HourlySweep
<1>28. CASE Unreachable
  BY <1>28 DEF Unreachable
<1>29. CASE CleanSession
  BY <1>29 DEF CleanSession
<1>30. CASE FatherAnswers
  BY <1>30 DEF FatherAnswers
<1>31. CASE TimesOut
  BY <1>31 DEF TimesOut
<1>32. CASE \E r \in late : FatherHandlesLate(r)
  BY <1>32 DEF FatherHandlesLate
<1>33. CASE \E e \in Executions : FatherWithdraws(e) \/ FatherExpires(e)
  BY <1>33 DEF FatherWithdraws, FatherExpires
<1>34. CASE Crash
  BY <1>34 DEF Crash
<1>35. CASE UNCHANGED vars
  BY <1>35 DEF vars
<1>36. CASE \E e \in Executions : RoleWrites(e)
  BY <1>36 DEF RoleWrites
<1>37. CASE \E n \in Sessions : SessionEnds(n)
  BY <1>37 DEF SessionEnds
<1> QED
  BY <1>1, <1>2, <1>3, <1>4, <1>5, <1>6, <1>7, <1>8, <1>9, <1>10, <1>11,
     <1>12, <1>13, <1>14, <1>15, <1>16, <1>17, <1>18, <1>19, <1>20, <1>21, <1>22,
     <1>23, <1>24, <1>25, <1>26, <1>27, <1>28, <1>29, <1>30, <1>31, <1>32, <1>33,
     <1>34, <1>35, <1>36, <1>37
     DEF Next, WorkerStep, CallEnds, FatherStep, RoleStep

(* Under every fault there are two ways out of the sequence without a      *)
(* report, and no third: a claim answered empty, a role without a name.    *)
THEOREM OnlyTwoWaysUnreported ==
  Offerable = {"offered"} => (SafeSpec => UnreportedOnlyWhen)
<1>1. Init => ReportedInv
  BY DEF Init, ReportedInv
<1>2. LoopInv /\ ReportedInv /\ [Next]_vars => ReportedInv'
  BY ReportedInvStep
<1>3. LoopInv /\ ReportedInv /\ [Next]_vars =>
        [exec # NoExec /\ exec' = NoExec /\ state' # "DOWN" /\ ~reported
           => \/ state = "CLAIMED" /\ reply = "empty"
              \/ rescued /\ exec \in Roleless]_vars
  <2> SUFFICES ASSUME LoopInv, ReportedInv, Next, exec # NoExec,
                      exec' = NoExec, state' # "DOWN", ~reported
               PROVE  \/ state = "CLAIMED" /\ reply = "empty"
                      \/ rescued /\ exec \in Roleless
    BY DEF vars
  <2>1. CASE CleanSession
    BY <2>1 DEF CleanSession, ReportedInv
  <2>2. CASE ClaimAnsweredEmpty
    BY <2>2 DEF ClaimAnsweredEmpty
  <2>3. CASE ReportRaises
    BY <2>3 DEF ReportRaises, NameRaises, ReportedInv, Rescue, Report
  <2>4. CASE Crash
    BY <2>4 DEF Crash
  <2>5. CASE \E e \in Executions : TakeUp(e)
    BY <2>5 DEF TakeUp, Idle
  <2>6. CASE ~(CleanSession \/ ClaimAnsweredEmpty \/ ReportRaises \/ Crash)
             /\ ~\E e \in Executions : TakeUp(e)
    <3>1. exec' = exec
      BY <2>6 DEF Next, WorkerStep, CallEnds, FatherStep, RoleStep, PollNothing, TakeUp,
             CallFather, ClaimGranted, ClaimAnsweredEmpty, ClaimFails,
             ValidateEnvelope, PrepareRepository, PrepareRepositoryFails,
             CreateWorktree, PrepareClient, AcquireRuntime, CreateSession,
             StartClient, InjectHandoff, CollectResult, StepFails,
             StepRaisesUnexpected, CompleteAcknowledged, CompleteFails,
             CompleteRaises, ReleaseRuntime, FailReturns, ReportRaises,
             CleanWorktree, CleanSession, Restart, HourlySweep, FatherAnswers,
             Unreachable, TimesOut, FatherHandlesLate, FatherWithdraws,
             FatherExpires, RoleWrites, SessionEnds, Crash, Report, Rescue,
             Leave, BeginCleanup, Proceed, machineVars, fatherVars,
             historyVars, worldVars, loopVars
    <3>2. QED
      BY <3>1
  <2>7. QED
    BY <2>1, <2>2, <2>3, <2>4, <2>5, <2>6
<1>4. QED
  BY <1>1, <1>2, <1>3, LoopInvariant, PTL DEF SafeSpec, UnreportedOnlyWhen

(* Under every fault, cleanup is missed in those two cases and when the    *)
(* catch-all's own report raises, and in no other.                         *)
THEOREM OnlyThreeWaysUncleaned ==
  Offerable = {"offered"} => (SafeSpec => UncleanedOnlyWhen)
<1>1. LoopInv /\ [Next]_vars =>
        [exec # NoExec /\ exec' = NoExec /\ state' # "DOWN"
           /\ cleaned'[exec] = "no"
           => \/ state = "CLAIMED" /\ reply = "empty"
              \/ rescued /\ (reply = "raised" \/ exec \in Roleless)]_vars
  <2> SUFFICES ASSUME LoopInv, Next, exec # NoExec, exec' = NoExec,
                      state' # "DOWN", cleaned'[exec] = "no"
               PROVE  \/ state = "CLAIMED" /\ reply = "empty"
                      \/ rescued /\ (reply = "raised" \/ exec \in Roleless)
    BY DEF vars
  <2>1. CASE CleanSession
    <3>1. exec \in Executions
      BY DEF LoopInv, TypeOK
    <3>2. QED
      BY <2>1, <3>1 DEF CleanSession, LoopInv, TypeOK
  <2>2. CASE ClaimAnsweredEmpty
    BY <2>2 DEF ClaimAnsweredEmpty
  <2>3. CASE ReportRaises
    BY <2>3 DEF ReportRaises, NameRaises, Rescue, Report
  <2>4. CASE Crash
    BY <2>4 DEF Crash
  <2>5. CASE \E e \in Executions : TakeUp(e)
    BY <2>5 DEF TakeUp, Idle
  <2>6. CASE ~(CleanSession \/ ClaimAnsweredEmpty \/ ReportRaises \/ Crash)
             /\ ~\E e \in Executions : TakeUp(e)
    <3>1. exec' = exec
      BY <2>6 DEF Next, WorkerStep, CallEnds, FatherStep, RoleStep, PollNothing, TakeUp,
             CallFather, ClaimGranted, ClaimAnsweredEmpty, ClaimFails,
             ValidateEnvelope, PrepareRepository, PrepareRepositoryFails,
             CreateWorktree, PrepareClient, AcquireRuntime, CreateSession,
             StartClient, InjectHandoff, CollectResult, StepFails,
             StepRaisesUnexpected, CompleteAcknowledged, CompleteFails,
             CompleteRaises, ReleaseRuntime, FailReturns, ReportRaises,
             CleanWorktree, CleanSession, Restart, HourlySweep, FatherAnswers,
             Unreachable, TimesOut, FatherHandlesLate, FatherWithdraws,
             FatherExpires, RoleWrites, SessionEnds, Crash, Report, Rescue,
             Leave, BeginCleanup, Proceed, machineVars, fatherVars,
             historyVars, worldVars, loopVars
    <3>2. QED
      BY <3>1
  <2>7. QED
    BY <2>1, <2>2, <2>3, <2>4, <2>5, <2>6
<1>2. QED
  BY <1>1, LoopInvariant, PTL DEF SafeSpec, UncleanedOnlyWhen

(* Cleanup begins once Father's record is settled, or once a failure       *)
(* report has come back as an error.                                       *)
THEOREM CleanupIsAfterReport ==
  Offerable = {"offered"} => (SafeSpec => CleanupFollowsRecord)
<1>1. LoopInv /\ [Next]_vars =>
        [state # "CLEANING_UP" /\ state' = "CLEANING_UP"
           => \/ father[exec] # "claimed"
              \/ state = "ROLE_EXECUTION_FAILED" /\ reply = "error"]_vars
  <2> SUFFICES ASSUME LoopInv, Next, state # "CLEANING_UP",
                      state' = "CLEANING_UP"
               PROVE  \/ father[exec] # "claimed"
                      \/ state = "ROLE_EXECUTION_FAILED" /\ reply = "error"
    BY DEF vars
  <2>1. CASE FailReturns
    BY <2>1 DEF FailReturns, LoopInv, AnswersAreTrue
  <2>2. CASE ReleaseRuntime
    BY <2>2 DEF ReleaseRuntime, LoopInv, ReleasedWhenRecorded
  <2>3. CASE ~(FailReturns \/ ReleaseRuntime)
    <3>1. state' # "CLEANING_UP"
      BY <2>3 DEF Next, WorkerStep, CallEnds, FatherStep, RoleStep, PollNothing, TakeUp,
             CallFather, ClaimGranted, ClaimAnsweredEmpty, ClaimFails,
             ValidateEnvelope, PrepareRepository, PrepareRepositoryFails,
             CreateWorktree, PrepareClient, AcquireRuntime, CreateSession,
             StartClient, InjectHandoff, CollectResult, StepFails,
             StepRaisesUnexpected, CompleteAcknowledged, CompleteFails,
             CompleteRaises, ReleaseRuntime, FailReturns, ReportRaises,
             CleanWorktree, CleanSession, Restart, HourlySweep, FatherAnswers,
             Unreachable, TimesOut, FatherHandlesLate, FatherWithdraws,
             FatherExpires, RoleWrites, SessionEnds, Crash, Report, Rescue,
             Leave, BeginCleanup, Proceed, machineVars, fatherVars,
             historyVars, worldVars, loopVars
    <3>2. QED
      BY <3>1
  <2>4. QED
    BY <2>1, <2>2, <2>3
<1>2. QED
  BY <1>1, LoopInvariant, PTL DEF SafeSpec, CleanupFollowsRecord

(* Calls that come back as a body or a FatherClientError, for executions   *)
(* that name their role: the conditions under which the docstring's two    *)
(* promises hold.                                                          *)
AnsweredCallsOnly ==
  /\ Offerable = {"offered"}
  /\ Roleless = {}
  /\ ~May("empty") /\ ~May("timeout")

(* Nothing is answered empty or raises out of the transport. *)
AnsweredInv ==
  /\ reply \notin {"empty", "raised"}
  /\ \A e \in Executions : claimCache[e] # "empty"

LEMMA AnsweredInvStep ==
  ASSUME AnsweredCallsOnly, LoopInv, AnsweredInv, [Next]_vars
  PROVE  AnsweredInv'
<1> USE DEF AnsweredCallsOnly, LoopInv, TypeOK, HeldWhileHandled, AnsweredInv,
        Working, BeforeRole, InlineStates, RoleStates, CallStates, loopVars,
        cacheVars, machineVars, fatherVars, historyVars, worldVars, Report,
        Rescue, Leave, BeginCleanup, Proceed, Sweep, Idle
<1>1. CASE \E e \in Executions : TakeUp(e)
  BY <1>1 DEF TakeUp
<1>2. CASE PollNothing
  BY <1>2 DEF PollNothing
<1>3. CASE CallFather
  BY <1>3 DEF CallFather, CachedReply
<1>4. CASE ClaimGranted
  BY <1>4 DEF ClaimGranted
<1>5. CASE ClaimAnsweredEmpty
  BY <1>5 DEF ClaimAnsweredEmpty
<1>6. CASE ClaimFails
  BY <1>6 DEF ClaimFails
<1>7. CASE ValidateEnvelope
  BY <1>7 DEF ValidateEnvelope
<1>8. CASE PrepareRepository
  BY <1>8 DEF PrepareRepository
<1>9. CASE PrepareRepositoryFails
  BY <1>9 DEF PrepareRepositoryFails
<1>10. CASE CreateWorktree
  BY <1>10 DEF CreateWorktree
<1>11. CASE PrepareClient
  BY <1>11 DEF PrepareClient
<1>12. CASE AcquireRuntime
  BY <1>12 DEF AcquireRuntime
<1>13. CASE CreateSession
  BY <1>13 DEF CreateSession
<1>14. CASE StartClient
  BY <1>14 DEF StartClient
<1>15. CASE InjectHandoff
  BY <1>15 DEF InjectHandoff
<1>16. CASE CollectResult
  BY <1>16 DEF CollectResult
<1>17. CASE StepFails
  BY <1>17 DEF StepFails
<1>18. CASE StepRaisesUnexpected
  BY <1>18 DEF StepRaisesUnexpected
<1>19. CASE CompleteAcknowledged
  BY <1>19 DEF CompleteAcknowledged
<1>20. CASE CompleteFails
  BY <1>20 DEF CompleteFails
<1>21. CASE CompleteRaises
  BY <1>21 DEF CompleteRaises
<1>22. CASE ReleaseRuntime
  BY <1>22 DEF ReleaseRuntime
<1>23. CASE FailReturns
  BY <1>23 DEF FailReturns
<1>24. CASE ReportRaises
  BY <1>24 DEF ReportRaises, NameRaises
<1>25. CASE CleanWorktree
  BY <1>25 DEF CleanWorktree
<1>26. CASE Restart
  BY <1>26 DEF Restart
<1>27. CASE HourlySweep
  BY <1>27 DEF HourlySweep
<1>28. CASE Unreachable
  BY <1>28 DEF Unreachable
<1>29. CASE CleanSession
  BY <1>29 DEF CleanSession
<1>30. CASE FatherAnswers
  BY <1>30 DEF FatherAnswers
<1>31. CASE TimesOut
  BY <1>31 DEF TimesOut
<1>32. CASE \E r \in late : FatherHandlesLate(r)
  BY <1>32 DEF FatherHandlesLate
<1>33. CASE \E e \in Executions : FatherWithdraws(e) \/ FatherExpires(e)
  BY <1>33 DEF FatherWithdraws, FatherExpires
<1>34. CASE Crash
  BY <1>34 DEF Crash
<1>35. CASE UNCHANGED vars
  BY <1>35 DEF vars
<1>36. CASE \E e \in Executions : RoleWrites(e)
  BY <1>36 DEF RoleWrites
<1>37. CASE \E n \in Sessions : SessionEnds(n)
  BY <1>37 DEF SessionEnds
<1> QED
  BY <1>1, <1>2, <1>3, <1>4, <1>5, <1>6, <1>7, <1>8, <1>9, <1>10, <1>11,
     <1>12, <1>13, <1>14, <1>15, <1>16, <1>17, <1>18, <1>19, <1>20, <1>21, <1>22,
     <1>23, <1>24, <1>25, <1>26, <1>27, <1>28, <1>29, <1>30, <1>31, <1>32, <1>33,
     <1>34, <1>35, <1>36, <1>37
     DEF Next, WorkerStep, CallEnds, FatherStep, RoleStep

(* Every path out of the sequence reports, and every path cleans up, as    *)
(* long as every call to Father is answered.                               *)
THEOREM AnsweredCallsReport ==
  AnsweredCallsOnly => (SafeSpec => EveryPathReports /\ EveryPathCleansUp)
<1> SUFFICES ASSUME AnsweredCallsOnly
             PROVE  SafeSpec => EveryPathReports /\ EveryPathCleansUp
  OBVIOUS
<1>0. Offerable = {"offered"}
  BY DEF AnsweredCallsOnly
<1>1. Init => AnsweredInv
  BY DEF Init, AnsweredInv
<1>2. LoopInv /\ AnsweredInv /\ [Next]_vars => AnsweredInv'
  BY AnsweredInvStep
<1>3. AnsweredInv =>
        ~(state = "CLAIMED" /\ reply = "empty")
        /\ ~(rescued /\ (reply = "raised" \/ exec \in Roleless))
  BY DEF AnsweredInv, AnsweredCallsOnly
<1>4. AnsweredInv
        /\ [exec # NoExec /\ exec' = NoExec /\ state' # "DOWN" /\ ~reported
              => \/ state = "CLAIMED" /\ reply = "empty"
                 \/ rescued /\ exec \in Roleless]_vars
      => [exec # NoExec /\ exec' = NoExec /\ state' # "DOWN" => reported]_vars
  BY <1>3
<1>5. AnsweredInv
        /\ [exec # NoExec /\ exec' = NoExec /\ state' # "DOWN"
              /\ cleaned'[exec] = "no"
              => \/ state = "CLAIMED" /\ reply = "empty"
                 \/ rescued /\ (reply = "raised" \/ exec \in Roleless)]_vars
      => [exec # NoExec /\ exec' = NoExec /\ state' # "DOWN"
            => cleaned'[exec] # "no"]_vars
  BY <1>3
<1>6. SafeSpec => UnreportedOnlyWhen /\ UncleanedOnlyWhen
  BY <1>0, OnlyTwoWaysUnreported, OnlyThreeWaysUncleaned
<1>7. QED
  BY <1>0, <1>1, <1>2, <1>4, <1>5, <1>6, LoopInvariant, PTL
     DEF SafeSpec, EveryPathReports, EveryPathCleansUp, UnreportedOnlyWhen,
         UncleanedOnlyWhen

-------------------------------------------------------------------------------
(* Progress *)

(* How far a state is from the end of the sequence: all of its steps lead  *)
(* down, the two ways into the report of a failure included.               *)
Distance ==
  CASE state = "CLAIMED"                 -> 16
    [] state = "VALIDATING_ENVELOPE"     -> 15
    [] state = "PREPARING_REPOSITORY"    -> 14
    [] state = "PREPARING_WORKTREE"      -> 13
    [] state = "ALLOCATOR_PREFLIGHT"     -> 12
    [] state = "ALLOCATOR_VALIDATING"    -> 11
    [] state = "RENDERING_CLIENT_CONFIG" -> 10
    [] state = "ACQUIRING_RUNTIME"       -> 9
    [] state = "CREATING_TMUX"           -> 8
    [] state = "STARTING_CLIENT"         -> 7
    [] state = "INJECTING_HANDOFF"       -> 6
    [] state = "COLLECTING_RESULT"       -> 5
    [] state = "REPORTING_RESULT"        -> 4
    [] state = "RELEASING_RUNTIME"       -> 3
    [] state = "ROLE_EXECUTION_FAILED"   -> IF rescued THEN 1 ELSE 2
    [] OTHER                             -> 0

(* A call is sent and comes back, a cleanup has two halves. *)
Pending ==
  IF state = "CLEANING_UP" THEN IF gitOutcome = "none" THEN 1 ELSE 0
  ELSE IF reply = "none" THEN 2 ELSE IF reply = "waiting" THEN 1 ELSE 0

Rank == 3 * Distance + Pending

(* With an execution in hand, each step of the thread and each end of a    *)
(* call puts it down or brings its end nearer; nothing else that happens   *)
(* moves the thread, unless the process dies.                              *)
EveryStepGetsOn ==
  [][exec # NoExec =>
       \/ exec' = NoExec
       \/ exec' = exec /\ (WorkerStep \/ CallEnds) /\ Rank' < Rank
       \/ (FatherStep \/ RoleStep) /\ UNCHANGED loopVars]_vars

LEMMA RankBound ==
  ASSUME TypeOK
  PROVE  Distance \in 0..16 /\ Pending \in 0..2 /\ Rank \in 0..50
<1>1. Distance \in 0..16
  BY DEF Distance
<1>2. Pending \in 0..2
  BY DEF Pending
<1>3. QED
  BY <1>1, <1>2 DEF Rank

(* Fewer states to go, or the same and less of a call pending. *)
LEMMA Nearer ==
  ASSUME TypeOK, TypeOK',
         Distance' < Distance \/ (Distance' = Distance /\ Pending' < Pending)
  PROVE  Rank' < Rank
<1>1. PICK d \in 0..16, p \in 0..2 : d = Distance /\ p = Pending
  BY RankBound
<1>2. Distance' \in 0..16
  BY DEF Distance
<1>3. Pending' \in 0..2
  BY DEF Pending
<1>4. PICK f \in 0..16, q \in 0..2 : f = Distance' /\ q = Pending'
  BY <1>2, <1>3
<1>5. f < d \/ (f = d /\ q < p)
  BY <1>1, <1>4
<1>6. 3 * f + q < 3 * d + p
  BY <1>5
<1>7. QED
  BY <1>1, <1>4, <1>6 DEF Rank

LEMMA GetsOnStep ==
  ASSUME LoopInv, TypeOK', Next, exec # NoExec
  PROVE  \/ exec' = NoExec
         \/ exec' = exec /\ (WorkerStep \/ CallEnds) /\ Rank' < Rank
         \/ (FatherStep \/ RoleStep) /\ UNCHANGED loopVars
<1> DEFINE Goal == \/ exec' = NoExec
                   \/ exec' = exec /\ Rank' < Rank
<1> USE DEF LoopInv, HeldWhileHandled, Working, BeforeRole, InlineStates, RoleStates,
            CallStates, Distance, Pending, Report, Rescue, Leave, BeginCleanup,
            Proceed, Idle, loopVars
<1>1. ASSUME \E e \in Executions : TakeUp(e) PROVE Goal
  BY <1>1 DEF TakeUp
<1>2. ASSUME PollNothing PROVE Goal
  BY <1>2, Nearer DEF PollNothing
<1>3. ASSUME CallFather PROVE Goal
  BY <1>3, Nearer DEF CallFather, CachedReply
<1>4. ASSUME ClaimGranted PROVE Goal
  BY <1>4, Nearer DEF ClaimGranted
<1>5. ASSUME ClaimAnsweredEmpty PROVE Goal
  BY <1>5, Nearer DEF ClaimAnsweredEmpty
<1>6. ASSUME ClaimFails PROVE Goal
  BY <1>6, Nearer DEF ClaimFails
<1>7. ASSUME ValidateEnvelope PROVE Goal
  BY <1>7, Nearer DEF ValidateEnvelope
<1>8. ASSUME PrepareRepository PROVE Goal
  BY <1>8, Nearer DEF PrepareRepository
<1>9. ASSUME PrepareRepositoryFails PROVE Goal
  BY <1>9, Nearer DEF PrepareRepositoryFails
<1>10. ASSUME CreateWorktree PROVE Goal
  BY <1>10, Nearer DEF CreateWorktree
<1>11. ASSUME PrepareClient PROVE Goal
  BY <1>11, Nearer DEF PrepareClient
<1>12. ASSUME AcquireRuntime PROVE Goal
  BY <1>12, Nearer DEF AcquireRuntime
<1>13. ASSUME CreateSession PROVE Goal
  BY <1>13, Nearer DEF CreateSession
<1>14. ASSUME StartClient PROVE Goal
  BY <1>14, Nearer DEF StartClient
<1>15. ASSUME InjectHandoff PROVE Goal
  BY <1>15, Nearer DEF InjectHandoff
<1>16. ASSUME CollectResult PROVE Goal
  BY <1>16, Nearer DEF CollectResult
<1>17. ASSUME StepFails PROVE Goal
  BY <1>17, Nearer DEF StepFails
<1>18. ASSUME StepRaisesUnexpected PROVE Goal
  BY <1>18, Nearer DEF StepRaisesUnexpected
<1>19. ASSUME CompleteAcknowledged PROVE Goal
  BY <1>19, Nearer DEF CompleteAcknowledged
<1>20. ASSUME CompleteFails PROVE Goal
  BY <1>20, Nearer DEF CompleteFails
<1>21. ASSUME CompleteRaises PROVE Goal
  BY <1>21, Nearer DEF CompleteRaises
<1>22. ASSUME ReleaseRuntime PROVE Goal
  BY <1>22, Nearer DEF ReleaseRuntime
<1>23. ASSUME FailReturns PROVE Goal
  BY <1>23, Nearer DEF FailReturns
<1>24. ASSUME ReportRaises PROVE Goal
  BY <1>24, Nearer DEF ReportRaises
<1>25. ASSUME CleanWorktree PROVE Goal
  BY <1>25, Nearer DEF CleanWorktree
<1>26. ASSUME CleanSession PROVE Goal
  BY <1>26, Nearer DEF CleanSession
<1>27. ASSUME Restart PROVE Goal
  BY <1>27, Nearer DEF Restart
<1>28. ASSUME HourlySweep PROVE Goal
  BY <1>28, Nearer DEF HourlySweep
<1>29. ASSUME FatherAnswers PROVE Goal
  BY <1>29, Nearer DEF FatherAnswers
<1>30. ASSUME Unreachable PROVE Goal
  BY <1>30, Nearer DEF Unreachable
<1>31. ASSUME TimesOut PROVE Goal
  BY <1>31, Nearer DEF TimesOut
<1>32. CASE WorkerStep \/ CallEnds
  <2> HIDE DEF Goal
  <2>1. Goal
    BY <1>32, <1>1, <1>2, <1>3, <1>4, <1>5, <1>6, <1>7, <1>8, <1>9, <1>10, <1>11,
       <1>12, <1>13, <1>14, <1>15, <1>16, <1>17, <1>18, <1>19, <1>20, <1>21,
       <1>22, <1>23, <1>24, <1>25, <1>26, <1>27, <1>28, <1>29, <1>30, <1>31
       DEF WorkerStep, CallEnds
  <2>2. QED
    BY <1>32, <2>1 DEF Goal
<1>33. CASE FatherStep
  BY <1>33 DEF FatherStep, FatherHandlesLate, FatherWithdraws, FatherExpires
<1>34. CASE RoleStep
  BY <1>34 DEF RoleStep, RoleWrites, SessionEnds
<1>35. CASE Crash
  BY <1>35 DEF Crash
<1>36. QED
  BY <1>32, <1>33, <1>34, <1>35 DEF Next

(* The loop never hangs in an execution: whatever Father, the network and  *)
(* the roles do, one that is in hand is at most 51 steps of the thread and *)
(* its calls from being put down.                                          *)
THEOREM ExecutionsEnd ==
  Offerable = {"offered"} =>
    (SafeSpec => [](exec # NoExec => Rank \in 0..50) /\ EveryStepGetsOn)
<1> SUFFICES ASSUME Offerable = {"offered"}
             PROVE  SafeSpec => [](exec # NoExec => Rank \in 0..50) /\ EveryStepGetsOn
  OBVIOUS
<1>1. LoopInv => (exec # NoExec => Rank \in 0..50)
  BY RankBound DEF LoopInv
<1>2. LoopInv /\ LoopInv' /\ [Next]_vars =>
        [exec # NoExec =>
           \/ exec' = NoExec
           \/ exec' = exec /\ (WorkerStep \/ CallEnds) /\ Rank' < Rank
           \/ (FatherStep \/ RoleStep) /\ UNCHANGED loopVars]_vars
  BY GetsOnStep DEF LoopInv
<1>3. QED
  BY <1>1, <1>2, LoopInvariant, PTL DEF SafeSpec, EveryStepGetsOn
===============================================================================
