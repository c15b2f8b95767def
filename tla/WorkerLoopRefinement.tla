------------------------ MODULE WorkerLoopRefinement ------------------------
(***************************************************************************)
(* WorkerLoop implements RoleExecution: the initial states map to its      *)
(* initial state, and every step of the loop, of Father, of the network or *)
(* of a crash maps to one of its steps or to a stutter.                    *)
(***************************************************************************)
EXTENDS WorkerLoopProofs

Delivered == {e \in Executions : father[e] = "completed"}

(* How one execution may move from stage s to stage t. *)
Moves(s, t) ==
  \/ s = "waiting" /\ t \in {"running", "skipped"}
  \/ s = "running" /\ t = "ended"

(* If only e moves, as it may, and starts only when none other runs, the   *)
(* step is one of RoleExecution's.                                         *)
LEMMA OneMoves ==
  ASSUME NEW e \in Executions,
         \A f \in Executions : f # e => StageOf(f)' = StageOf(f),
         StageOf(e)' = StageOf(e) \/ Moves(StageOf(e), StageOf(e)'),
         StageOf(e)' = "running" =>
           \A f \in Executions : f # e => StageOf(f) # "running",
         Delivered' = Delivered
  PROVE  [Abstract!Next]_(Abstract!vars)
<1> DEFINE Now == [f \in Executions |-> StageOf(f)]
<1>1. Now' = [Now EXCEPT ![e] = StageOf(e)']
  OBVIOUS
<1>2. CASE StageOf(e)' = StageOf(e)
  <2>1. Now' = Now
    BY <1>2
  <2>2. QED
    BY <2>1 DEF Abstract!vars, Delivered
<1>3. CASE StageOf(e) = "waiting" /\ StageOf(e)' = "running"
  <2>1. Abstract!Start(e)
    BY <1>1, <1>3 DEF Abstract!Start, Delivered
  <2>2. QED
    BY <2>1 DEF Abstract!Next
<1>4. CASE StageOf(e) = "waiting" /\ StageOf(e)' = "skipped"
  <2>1. Abstract!Skip(e)
    BY <1>1, <1>4 DEF Abstract!Skip, Delivered
  <2>2. QED
    BY <2>1 DEF Abstract!Next
<1>5. CASE StageOf(e) = "running" /\ StageOf(e)' = "ended"
  <2>1. Abstract!End(e)
    BY <1>1, <1>5 DEF Abstract!End, Delivered
  <2>2. QED
    BY <2>1 DEF Abstract!Next
<1>6. QED
  BY <1>2, <1>3, <1>4, <1>5 DEF Moves

(* A result reaches the record: no stage moves. *)
LEMMA OneDelivered ==
  ASSUME NEW e \in Executions,
         \A f \in Executions : StageOf(f)' = StageOf(f),
         StageOf(e) \in {"running", "ended"},
         Delivered' = Delivered \cup {e}
  PROVE  [Abstract!Next]_(Abstract!vars)
<1>1. Abstract!Deliver(e)
  BY DEF Abstract!Deliver, Delivered
<1>2. QED
  BY <1>1 DEF Abstract!Next

(* No stage moves and no result is recorded. *)
LEMMA NothingMoves ==
  ASSUME \A f \in Executions : StageOf(f)' = StageOf(f),
         Delivered' = Delivered
  PROVE  [Abstract!Next]_(Abstract!vars)
BY DEF Abstract!vars, Delivered

(* Father handles a request for e, in time or late: the record of e moves, *)
(* e may be given up, or its result is delivered.                          *)
LEMMA RecordMoves ==
  ASSUME LoopInv, NEW r \in Requests, NEW status \in Verdicts(r),
         r.kind = "complete" => r.exec \in ran,
         father' = [father EXCEPT ![r.exec] = status],
         UNCHANGED <<state, exec, ran>>
  PROVE  [Abstract!Next]_(Abstract!vars)
<1>1. /\ r.exec \in Executions /\ father'[r.exec] = status
      /\ \A f \in Executions : f # r.exec => father'[f] = father[f]
  BY DEF Requests, LoopInv, TypeOK
<1>2. /\ father[r.exec] # "offered" => status # "offered"
      /\ father[r.exec] \in Terminal => status = father[r.exec]
      /\ status = "completed" /\ status # father[r.exec] => r.kind = "complete"
  BY VerdictFacts DEF LoopInv
<1>3. \A f \in Executions : f # r.exec => StageOf(f)' = StageOf(f)
  BY <1>1 DEF StageOf
<1>4. CASE status = "completed" /\ status # father[r.exec]
  <2>1. r.exec \in ran
    BY <1>2, <1>4
  <2>2. StageOf(r.exec)' = StageOf(r.exec) /\ StageOf(r.exec) \in {"running", "ended"}
    BY <2>1 DEF StageOf
  <2>3. Delivered' = Delivered \cup {r.exec}
    BY <1>1, <1>4 DEF Delivered
  <2>4. QED
    BY <1>1, <1>3, <2>2, <2>3, OneDelivered
<1>5. CASE ~(status = "completed" /\ status # father[r.exec])
  <2>1. Delivered' = Delivered
    BY <1>1, <1>2, <1>5 DEF Delivered, Terminal
  <2>2. \/ StageOf(r.exec)' = StageOf(r.exec)
        \/ Moves(StageOf(r.exec), StageOf(r.exec)')
    BY <1>1, <1>2 DEF StageOf, Moves
  <2>3. StageOf(r.exec)' = "running" =>
          \A f \in Executions : f # r.exec => StageOf(f) # "running"
    BY <1>1 DEF StageOf
  <2>4. QED
    BY <1>1, <1>3, <2>1, <2>2, <2>3, OneMoves
<1>6. QED
  BY <1>4, <1>5

(* One step per action of the loop. *)
LEMMA StepImplements ==
  ASSUME Offerable = {"offered"}, LoopInv, [Next]_vars
  PROVE  [Abstract!Next]_(Abstract!vars)
<1> USE WorkerLoopAssumption DEF WorkerLoopAssumption
<1>a. exec # NoExec => exec \in Executions
  BY DEF LoopInv, TypeOK
<1> USE DEF Delivered, StageOf, LoopInv, HeldWhileHandled, RanInOrder, Working,
            BeforeRole, InlineStates, RoleStates, Proceed, Report, Leave, Rescue,
            BeginCleanup, Idle, loopVars, fatherVars, historyVars, worldVars
<1>1. CASE \E e \in Executions : TakeUp(e)
  BY <1>1, NothingMoves DEF TakeUp
<1>2. CASE PollNothing
  BY <1>2, NothingMoves DEF PollNothing
<1>3. CASE CallFather
  BY <1>3, NothingMoves DEF CallFather
<1>4. CASE ClaimGranted
  BY <1>4, NothingMoves DEF ClaimGranted
<1>5. CASE ClaimFails
  BY <1>5, NothingMoves DEF ClaimFails
<1>6. CASE ValidateEnvelope
  BY <1>6, NothingMoves DEF ValidateEnvelope
<1>7. CASE PrepareRepository
  BY <1>7, NothingMoves DEF PrepareRepository
<1>8. CASE PrepareRepositoryFails
  BY <1>8, NothingMoves DEF PrepareRepositoryFails
<1>9. CASE CreateWorktree
  BY <1>9, NothingMoves DEF CreateWorktree
<1>10. CASE PrepareClient
  BY <1>10, NothingMoves DEF PrepareClient
<1>11. CASE AcquireRuntime
  BY <1>11, NothingMoves DEF AcquireRuntime
<1>12. CASE CreateSession
  BY <1>12, NothingMoves DEF CreateSession
<1>13. CASE StartClient
  BY <1>13, NothingMoves DEF StartClient
<1>14. CASE CollectResult
  BY <1>14, NothingMoves DEF CollectResult
<1>15. CASE CompleteAcknowledged
  BY <1>15, NothingMoves DEF CompleteAcknowledged
<1>16. CASE FailReturns
  BY <1>16, NothingMoves DEF FailReturns
<1>17. CASE CleanWorktree
  BY <1>17, NothingMoves DEF CleanWorktree
<1>18. CASE Restart
  BY <1>18, NothingMoves DEF Restart
<1>19. CASE HourlySweep
  BY <1>19, NothingMoves DEF HourlySweep
<1>20. CASE Unreachable
  BY <1>20, NothingMoves DEF Unreachable
<1>21. CASE TimesOut
  BY <1>21, NothingMoves DEF TimesOut
<1>22. CASE ClaimAnsweredEmpty
  <2>1. PICK e \in Executions : e = exec
    BY <1>22, <1>a DEF ClaimAnsweredEmpty
  <2>2. Delivered' = Delivered
    BY <1>22 DEF ClaimAnsweredEmpty
  <2>3. \A f \in Executions : f # e => StageOf(f)' = StageOf(f)
    BY <1>22, <2>1 DEF ClaimAnsweredEmpty
  <2>4. StageOf(e)' = StageOf(e) \/ Moves(StageOf(e), StageOf(e)')
    BY <1>22, <2>1 DEF ClaimAnsweredEmpty, Moves
  <2>5. QED
    BY <2>1, <2>2, <2>3, <2>4, OneMoves
<1>23. CASE InjectHandoff
  <2>1. PICK e \in Executions : e = exec
    BY <1>23, <1>a DEF InjectHandoff
  <2>2. Delivered' = Delivered
    BY <1>23 DEF InjectHandoff
  <2>3. \A f \in Executions : f # e => StageOf(f)' = StageOf(f)
    BY <1>23, <2>1 DEF InjectHandoff
  <2>4. StageOf(e)' = StageOf(e) \/ Moves(StageOf(e), StageOf(e)')
    BY <1>23, <2>1 DEF InjectHandoff, Moves
  <2>5. QED
    BY <2>1, <2>2, <2>3, <2>4, OneMoves
<1>24. CASE StepFails
  <2>1. PICK e \in Executions : e = exec
    BY <1>24, <1>a DEF StepFails
  <2>2. Delivered' = Delivered
    BY <1>24 DEF StepFails
  <2>3. \A f \in Executions : f # e => StageOf(f)' = StageOf(f)
    BY <1>24, <2>1 DEF StepFails
  <2>4. StageOf(e)' = StageOf(e) \/ Moves(StageOf(e), StageOf(e)')
    BY <1>24, <2>1 DEF StepFails, Moves
  <2>5. QED
    BY <2>1, <2>2, <2>3, <2>4, OneMoves
<1>25. CASE StepRaisesUnexpected
  <2>1. PICK e \in Executions : e = exec
    BY <1>25, <1>a DEF StepRaisesUnexpected
  <2>2. Delivered' = Delivered
    BY <1>25 DEF StepRaisesUnexpected
  <2>3. \A f \in Executions : f # e => StageOf(f)' = StageOf(f)
    BY <1>25, <2>1 DEF StepRaisesUnexpected
  <2>4. StageOf(e)' = StageOf(e) \/ Moves(StageOf(e), StageOf(e)')
    BY <1>25, <2>1 DEF StepRaisesUnexpected, Moves
  <2>5. QED
    BY <2>1, <2>2, <2>3, <2>4, OneMoves
<1>26. CASE CompleteFails
  <2>1. PICK e \in Executions : e = exec
    BY <1>26, <1>a DEF CompleteFails
  <2>2. Delivered' = Delivered
    BY <1>26 DEF CompleteFails
  <2>3. \A f \in Executions : f # e => StageOf(f)' = StageOf(f)
    BY <1>26, <2>1 DEF CompleteFails
  <2>4. StageOf(e)' = StageOf(e) \/ Moves(StageOf(e), StageOf(e)')
    BY <1>26, <2>1 DEF CompleteFails, Moves
  <2>5. QED
    BY <2>1, <2>2, <2>3, <2>4, OneMoves
<1>27. CASE CompleteRaises
  <2>1. PICK e \in Executions : e = exec
    BY <1>27, <1>a DEF CompleteRaises
  <2>2. Delivered' = Delivered
    BY <1>27 DEF CompleteRaises
  <2>3. \A f \in Executions : f # e => StageOf(f)' = StageOf(f)
    BY <1>27, <2>1 DEF CompleteRaises
  <2>4. StageOf(e)' = StageOf(e) \/ Moves(StageOf(e), StageOf(e)')
    BY <1>27, <2>1 DEF CompleteRaises, Moves
  <2>5. QED
    BY <2>1, <2>2, <2>3, <2>4, OneMoves
<1>28. CASE ReleaseRuntime
  <2>1. PICK e \in Executions : e = exec
    BY <1>28, <1>a DEF ReleaseRuntime
  <2>2. Delivered' = Delivered
    BY <1>28 DEF ReleaseRuntime
  <2>3. \A f \in Executions : f # e => StageOf(f)' = StageOf(f)
    BY <1>28, <2>1 DEF ReleaseRuntime
  <2>4. StageOf(e)' = StageOf(e) \/ Moves(StageOf(e), StageOf(e)')
    BY <1>28, <2>1 DEF ReleaseRuntime, Moves
  <2>5. QED
    BY <2>1, <2>2, <2>3, <2>4, OneMoves
<1>29. CASE ReportRaises
  <2>1. PICK e \in Executions : e = exec
    BY <1>29, <1>a DEF ReportRaises
  <2>2. Delivered' = Delivered
    BY <1>29 DEF ReportRaises
  <2>3. \A f \in Executions : f # e => StageOf(f)' = StageOf(f)
    BY <1>29, <2>1 DEF ReportRaises
  <2>4. StageOf(e)' = StageOf(e) \/ Moves(StageOf(e), StageOf(e)')
    BY <1>29, <2>1 DEF ReportRaises, Moves
  <2>5. QED
    BY <2>1, <2>2, <2>3, <2>4, OneMoves
<1>30. CASE CleanSession
  <2>1. PICK e \in Executions : e = exec
    BY <1>30, <1>a DEF CleanSession
  <2>2. Delivered' = Delivered
    BY <1>30 DEF CleanSession
  <2>3. \A f \in Executions : f # e => StageOf(f)' = StageOf(f)
    BY <1>30, <2>1 DEF CleanSession
  <2>4. StageOf(e)' = StageOf(e) \/ Moves(StageOf(e), StageOf(e)')
    BY <1>30, <2>1 DEF CleanSession, Moves
  <2>5. QED
    BY <2>1, <2>2, <2>3, <2>4, OneMoves
<1>31. CASE Crash
  <2>1. Delivered' = Delivered
    BY <1>31 DEF Crash
  <2>2. CASE exec = NoExec
    BY <1>31, <2>1, <2>2, NothingMoves DEF Crash
  <2>3. CASE exec # NoExec
    <3>1. PICK e \in Executions : e = exec
      BY <1>a, <2>3
    <3>2. \A f \in Executions : f # e => StageOf(f)' = StageOf(f)
      BY <1>31, <3>1 DEF Crash
    <3>3. StageOf(e)' = StageOf(e) \/ Moves(StageOf(e), StageOf(e)')
      BY <1>31, <3>1 DEF Crash, Moves
    <3>4. QED
      BY <2>1, <3>1, <3>2, <3>3, OneMoves
  <2>4. QED
    BY <2>2, <2>3
<1>32. CASE FatherAnswers
  <2>1. PICK status \in Verdicts(ThisRequest) :
          father' = [father EXCEPT ![exec] = status]
    BY <1>32 DEF FatherAnswers
  <2>2. ThisRequest \in Requests /\ ThisRequest.exec = exec
    BY <1>32, RequestType DEF FatherAnswers, LoopInv
  <2>3. ThisRequest.kind = "complete" => exec \in ran
    BY <1>32, RequestType
       DEF FatherAnswers, KindOf, LoopInv, HeldWhileHandled, RanInOrder,
           RoleStates, CallStates
  <2>4. QED
    BY <1>32, <2>1, <2>2, <2>3, RecordMoves DEF FatherAnswers, historyVars
<1>33. ASSUME NEW r \in late, FatherHandlesLate(r)
       PROVE  [Abstract!Next]_(Abstract!vars)
  <2>1. r \in Requests /\ (r.kind = "complete" => r.exec \in ran)
    BY DEF LoopInv, TypeOK, RanInOrder
  <2>2. QED
    BY <1>33, <2>1, RecordMoves DEF FatherHandlesLate, loopVars, historyVars
<1>34. ASSUME NEW e \in Executions, FatherWithdraws(e) \/ FatherExpires(e)
       PROVE  [Abstract!Next]_(Abstract!vars)
  <2>1. Delivered' = Delivered
    BY <1>34 DEF FatherWithdraws, FatherExpires, Delivered, LoopInv, TypeOK
  <2>2. \A f \in Executions : f # e => StageOf(f)' = StageOf(f)
    BY <1>34 DEF FatherWithdraws, FatherExpires, StageOf, LoopInv, TypeOK,
               loopVars, historyVars
  <2>3. StageOf(e)' = StageOf(e) \/ Moves(StageOf(e), StageOf(e)')
    BY <1>34 DEF FatherWithdraws, FatherExpires, StageOf, Moves, LoopInv, TypeOK,
               loopVars, historyVars
  <2>4. StageOf(e)' = "running" =>
          \A f \in Executions : f # e => StageOf(f) # "running"
    BY <1>34 DEF FatherWithdraws, FatherExpires, StageOf, loopVars
  <2>5. QED
    BY <2>1, <2>2, <2>3, <2>4, OneMoves
<1>35. CASE UNCHANGED vars
  BY <1>35, NothingMoves
     DEF vars, Delivered, StageOf, loopVars, fatherVars, historyVars, worldVars
<1>36. CASE \E e \in Executions : RoleWrites(e)
  BY <1>36, NothingMoves DEF RoleWrites
<1>37. CASE \E n \in Sessions : SessionEnds(n)
  BY <1>37, NothingMoves DEF SessionEnds
<1> QED
  BY <1>1, <1>2, <1>3, <1>4, <1>5, <1>6, <1>7, <1>8, <1>9, <1>10, <1>11,
     <1>12, <1>13, <1>14, <1>15, <1>16, <1>17, <1>18, <1>19, <1>20, <1>21, <1>22,
     <1>23, <1>24, <1>25, <1>26, <1>27, <1>28, <1>29, <1>30, <1>31, <1>32, <1>33,
     <1>34, <1>35, <1>36, <1>37
     DEF Next, WorkerStep, CallEnds, FatherStep, RoleStep

(* The worker loop implements RoleExecution: one role at a time, none      *)
(* twice, and no result on record for a role that did not run.             *)
THEOREM ImplementsAbstract ==
  Offerable = {"offered"} => (SafeSpec => ImplementsRoleExecution)
<1> SUFFICES ASSUME Offerable = {"offered"}
             PROVE  SafeSpec => ImplementsRoleExecution
  OBVIOUS
<1>1. Init => Abstract!Init
  BY WorkerLoopAssumption
     DEF WorkerLoopAssumption, Init, Abstract!Init, StageOf, RoleStates
<1>2. LoopInv /\ [Next]_vars => [Abstract!Next]_(Abstract!vars)
  BY StepImplements
<1>3. QED
  BY <1>1, <1>2, LoopInvariant, PTL
     DEF SafeSpec, ImplementsRoleExecution, Abstract!SafeSpec

-------------------------------------------------------------------------------

(* What Holdings calls live and phase. *)
LiveNow == {e \in Executions : owner[SessionOf[e]] = e}
PhaseNow == IF state = "DOWN" THEN "down"
            ELSE IF exec = NoExec THEN "none"
            ELSE IF state = "CLEANING_UP" THEN "removing" ELSE "using"

(* Nothing that is held moves. *)
LEMMA NothingHeldMoves ==
  ASSUME exec' = exec, PhaseNow' = PhaseNow, worktrees' = worktrees, owner' = owner
  PROVE  [Held!Next]_(Held!vars)
BY DEF Held!vars, PhaseNow

(* The execution is left with its directory where it is and no session     *)
(* ended, or, in the cleanup, its own.                                     *)
LEMMA PutsDown ==
  ASSUME exec # NoExec, exec' = NoExec, state # "DOWN", state' # "DOWN",
         worktrees' = worktrees,
         \/ LiveNow' = LiveNow
         \/ state = "CLEANING_UP" /\ LiveNow' = LiveNow \ {exec}
  PROVE  [Held!Next]_(Held!vars)
<1>1. Held!PutDown
  BY DEF Held!PutDown, LiveNow
<1>2. QED
  BY <1>1 DEF Held!Next

(* Its cleanup begins. *)
LEMMA BeginsRemoval ==
  ASSUME exec # NoExec, state \notin {"CLEANING_UP", "DOWN"}, BeginCleanup,
         worktrees' = worktrees, owner' = owner
  PROVE  [Held!Next]_(Held!vars)
<1>1. Held!BeginRemoval
  BY DEF Held!BeginRemoval, BeginCleanup
<1>2. QED
  BY <1>1 DEF Held!Next

(* With nothing in hand, directories are swept. *)
LEMMA Sweeps ==
  ASSUME exec = NoExec, exec' = NoExec, state' # "DOWN", Sweep, owner' = owner
  PROVE  [Held!Next]_(Held!vars)
<1>1. Held!Sweep \/ Held!Restart
  BY DEF Held!Sweep, Held!Restart, Sweep
<1>2. QED
  BY <1>1 DEF Held!Next

(* One step per action of the loop. *)
LEMMA StepHolds ==
  ASSUME LoopInv, MachineInv, [Next]_vars, NamesApart
  PROVE  [Held!Next]_(Held!vars)
<1> USE WorkerLoopAssumption DEF WorkerLoopAssumption
<1>a. exec # NoExec => exec \in Executions
  BY DEF LoopInv, TypeOK
<1>b. owner \in [Sessions -> Executions \cup {NoExec}]
  BY DEF LoopInv, TypeOK
<1> USE DEF PhaseNow, LoopInv, HeldWhileHandled, Working, BeforeRole, InlineStates,
            RoleStates, CallStates, Proceed, Report, Leave, Rescue, Idle, loopVars,
            machineVars, fatherVars, historyVars, worldVars
<1>1. ASSUME NEW e \in Executions, TakeUp(e) PROVE [Held!Next]_(Held!vars)
  <2>1. Held!Take(e)
    BY <1>1 DEF TakeUp, Held!Take
  <2>2. QED
    BY <2>1 DEF Held!Next
<1>2. CASE PollNothing
  BY <1>2, NothingHeldMoves DEF PollNothing
<1>3. CASE CallFather
  BY <1>3, NothingHeldMoves DEF CallFather
<1>4. CASE ClaimGranted
  BY <1>4, NothingHeldMoves DEF ClaimGranted
<1>5. CASE ClaimFails
  BY <1>5, NothingHeldMoves DEF ClaimFails
<1>6. CASE ValidateEnvelope
  BY <1>6, NothingHeldMoves DEF ValidateEnvelope
<1>7. CASE PrepareRepository
  BY <1>7, NothingHeldMoves DEF PrepareRepository
<1>8. CASE PrepareRepositoryFails
  BY <1>8, NothingHeldMoves DEF PrepareRepositoryFails
<1>9. CASE PrepareClient
  BY <1>9, NothingHeldMoves DEF PrepareClient
<1>10. CASE AcquireRuntime
  BY <1>10, NothingHeldMoves DEF AcquireRuntime
<1>11. CASE StartClient
  BY <1>11, NothingHeldMoves DEF StartClient
<1>12. CASE InjectHandoff
  BY <1>12, NothingHeldMoves DEF InjectHandoff
<1>13. CASE CollectResult
  BY <1>13, NothingHeldMoves DEF CollectResult
<1>14. CASE StepFails
  BY <1>14, NothingHeldMoves DEF StepFails
<1>15. CASE StepRaisesUnexpected
  BY <1>15, NothingHeldMoves DEF StepRaisesUnexpected
<1>16. CASE CompleteAcknowledged
  BY <1>16, NothingHeldMoves DEF CompleteAcknowledged
<1>17. CASE CompleteFails
  BY <1>17, NothingHeldMoves DEF CompleteFails
<1>18. CASE CompleteRaises
  BY <1>18, NothingHeldMoves DEF CompleteRaises
<1>19. CASE FatherAnswers
  BY <1>19, NothingHeldMoves DEF FatherAnswers
<1>20. CASE Unreachable
  BY <1>20, NothingHeldMoves DEF Unreachable
<1>21. CASE TimesOut
  BY <1>21, NothingHeldMoves DEF TimesOut
<1>22. CASE \E r \in late : FatherHandlesLate(r)
  BY <1>22, NothingHeldMoves DEF FatherHandlesLate
<1>23. CASE \E e \in Executions : FatherWithdraws(e) \/ FatherExpires(e)
  BY <1>23, NothingHeldMoves DEF FatherWithdraws, FatherExpires
<1>24. CASE ClaimAnsweredEmpty
  BY <1>24, PutsDown DEF ClaimAnsweredEmpty, LiveNow
<1>25. CASE ReportRaises
  <2>1. CASE rescued
    BY <1>25, <2>1, PutsDown DEF ReportRaises, LiveNow
  <2>2. CASE ~rescued
    BY <1>25, <2>2, NothingHeldMoves DEF ReportRaises
  <2>3. QED
    BY <2>1, <2>2
<1>26. CASE FailReturns
  BY <1>26, BeginsRemoval DEF FailReturns
<1>27. CASE ReleaseRuntime
  BY <1>27, BeginsRemoval DEF ReleaseRuntime
<1>28. CASE CreateWorktree
  <2>1. Held!MakeDirectory
    BY <1>28 DEF CreateWorktree, Held!MakeDirectory
  <2>2. QED
    BY <2>1 DEF Held!Next
<1>29. CASE CreateSession
  <2>1. exec \in Executions /\ SessionOf[exec] \in Sessions
    BY <1>a, <1>29 DEF CreateSession
  <2>2. owner[SessionOf[exec]] = NoExec /\ exec \notin LiveNow
    BY <1>29, <2>1 DEF CreateSession, LiveNow, Target
  <2>3. owner'[SessionOf[exec]] = exec
    BY <1>29, <1>b, <2>1 DEF CreateSession
  <2>4. \A f \in Executions : f # exec =>
          (owner'[SessionOf[f]] = f <=> owner[SessionOf[f]] = f)
    BY <1>29, <1>b, <2>1, <2>2, <2>3 DEF CreateSession, NamesApart
  <2>5. LiveNow' = LiveNow \cup {exec}
    BY <2>1, <2>3, <2>4 DEF LiveNow
  <2>6. Held!OpenSession
    BY <1>29, <2>2, <2>5 DEF CreateSession, Held!OpenSession, LiveNow
  <2>7. QED
    BY <2>6 DEF Held!Next
<1>30. CASE CleanWorktree
  <2>1. CASE worktrees' = worktrees
    BY <1>30, <2>1, NothingHeldMoves DEF CleanWorktree
  <2>2. CASE worktrees' = worktrees \ {exec}
    <3>1. Held!RemoveDirectory
      BY <1>30, <2>2 DEF CleanWorktree, Held!RemoveDirectory
    <3>2. QED
      BY <3>1 DEF Held!Next
  <2>3. QED
    BY <1>30, <2>1, <2>2 DEF CleanWorktree
<1>31. CASE CleanSession
  <2>1. exec \in Executions /\ SessionOf[exec] \in Sessions
    BY <1>a, <1>31 DEF CleanSession
  <2>a. PICK killed \in SUBSET Target(SessionOf[exec]) :
          owner' = [n \in Sessions |-> IF n \in killed THEN NoExec ELSE owner[n]]
    BY <1>31 DEF CleanSession
  <2>b. \A f \in Executions : f # exec => SessionOf[f] \notin killed
    BY <2>1, <2>a DEF Target, NamesApart
  <2>2. \A f \in Executions : f # exec =>
          (owner'[SessionOf[f]] = f <=> owner[SessionOf[f]] = f)
    BY <1>b, <2>1, <2>a, <2>b
  <2>3. owner'[SessionOf[exec]] = exec => owner[SessionOf[exec]] = exec
    BY <1>b, <2>1, <2>a
  <2>4. LiveNow' = LiveNow \/ LiveNow' = LiveNow \ {exec}
    BY <2>1, <2>2, <2>3 DEF LiveNow
  <2>5. QED
    BY <1>31, <2>1, <2>4, PutsDown DEF CleanSession
<1>32. CASE Restart
  BY <1>32, Sweeps DEF Restart
<1>33. CASE HourlySweep
  BY <1>33, Sweeps DEF HourlySweep
<1>34. ASSUME NEW e \in Executions, RoleWrites(e) PROVE [Held!Next]_(Held!vars)
  <2>1. Held!Write(e)
    BY <1>34 DEF RoleWrites, Held!Write
  <2>2. QED
    BY <2>1 DEF Held!Next
<1>35. ASSUME NEW n \in Sessions, SessionEnds(n) PROVE [Held!Next]_(Held!vars)
  <2>1. PICK e \in Executions : owner[n] = e /\ SessionOf[e] = n
    BY <1>35, <1>b DEF SessionEnds, MachineInv
  <2>2. \A f \in Executions : f # e =>
          (owner'[SessionOf[f]] = f <=> owner[SessionOf[f]] = f)
    BY <1>35, <1>b, <2>1 DEF SessionEnds, NamesApart
  <2>3. owner'[SessionOf[e]] # e
    BY <1>35, <1>b, <2>1 DEF SessionEnds
  <2>4. LiveNow' = LiveNow \ {e}
    BY <2>2, <2>3 DEF LiveNow
  <2>5. Held!SessionEnds(e)
    BY <1>35, <2>4 DEF SessionEnds, Held!SessionEnds, LiveNow
  <2>6. QED
    BY <2>5 DEF Held!Next
<1>36. CASE Crash
  <2>1. LiveNow' = LiveNow \/ LiveNow' = {}
    BY <1>36 DEF Crash, LiveNow
  <2>2. Held!Crash
    BY <1>36, <2>1 DEF Crash, Held!Crash, LiveNow
  <2>3. QED
    BY <2>2 DEF Held!Next
<1>37. CASE UNCHANGED vars
  BY <1>37, NothingHeldMoves DEF vars
<1> QED
  BY <1>1, <1>2, <1>3, <1>4, <1>5, <1>6, <1>7, <1>8, <1>9, <1>10, <1>11,
     <1>12, <1>13, <1>14, <1>15, <1>16, <1>17, <1>18, <1>19, <1>20, <1>21, <1>22,
     <1>23, <1>24, <1>25, <1>26, <1>27, <1>28, <1>29, <1>30, <1>31, <1>32, <1>33,
     <1>34, <1>35, <1>36, <1>37
     DEF Next, WorkerStep, CallEnds, FatherStep, RoleStep

(* With session names that are apart, the loop implements Holdings:        *)
(* what one execution holds is taken away only by its own cleanup, its     *)
(* role, a crash, or the sweep when nothing is in hand.                    *)
THEOREM LoopHolds ==
  ASSUME Offerable = {"offered"}, NamesApart
  PROVE  SafeSpec => ImplementsHoldings
<1>1. Init => Held!Init
  BY WorkerLoopAssumption DEF WorkerLoopAssumption, Init, Held!Init
<1>2. Init => MachineInv
  BY WorkerLoopAssumption
     DEF WorkerLoopAssumption, Init, MachineInv, FullCleanupLeavesNothing
<1>3. LoopInv /\ MachineInv /\ [Next]_vars => MachineInv'
  BY MachineInvStep
<1>4. LoopInv /\ MachineInv /\ [Next]_vars => [Held!Next]_(Held!vars)
  BY StepHolds
<1>5. QED
  BY <1>1, <1>2, <1>3, <1>4, LoopInvariant, PTL
     DEF SafeSpec, ImplementsHoldings, Held!Spec

-------------------------------------------------------------------------------
(* What Holdings promises, kept here *)

Kept == INSTANCE HoldingsProofs WITH
  holder <- exec,
  phase  <- PhaseNow,
  dirs   <- worktrees,
  live   <- LiveNow

LEMMA HeldIsKept == ImplementsHoldings => Kept!Spec
<1>1. Held!Init => Kept!Init
  BY DEF Held!Init, Kept!Init, PhaseNow, LiveNow
<1>2. [Held!Next]_(Held!vars) => [Kept!Next]_(Kept!vars)
  BY DEF Held!Next, Held!vars, Held!Take, Held!Write, Held!SessionEnds,
         Held!MakeDirectory, Held!OpenSession, Held!BeginRemoval,
         Held!RemoveDirectory, Held!PutDown, Held!Sweep, Held!Crash, Held!Restart,
         Kept!Next, Kept!vars, Kept!Take, Kept!Write, Kept!SessionEnds,
         Kept!MakeDirectory, Kept!OpenSession, Kept!BeginRemoval,
         Kept!RemoveDirectory, Kept!PutDown, Kept!Sweep, Kept!Crash,
         Kept!Restart, PhaseNow, LiveNow
<1>3. QED
  BY <1>1, <1>2, PTL DEF ImplementsHoldings, Held!Spec, Kept!Spec

(* In the loop: a directory and a session come and go for their own        *)
(* execution, by its own role, or in a sweep that never finds anything in  *)
(* hand, under every fault.                                                *)
THEOREM LoopKeepsApart ==
  ASSUME Offerable = {"offered"}, NamesApart
  PROVE  SafeSpec => Kept!OnlyOwn
<1>1. Kept!Spec => Kept!OnlyOwn
  BY WorkerLoopAssumption, Kept!HoldingsApart DEF WorkerLoopAssumption
<1>2. QED
  BY <1>1, HeldIsKept, LoopHolds
===============================================================================
