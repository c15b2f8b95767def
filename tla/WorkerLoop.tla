------------------------------ MODULE WorkerLoop ------------------------------
(***************************************************************************)
(* The role-execution loop of the LightWorker daemon: poll Father, claim   *)
(* one execution, take it through the sequence of run_once, report the     *)
(* result or a failure, clean up.  With it, what the loop shares with the  *)
(* rest of the world: the FatherClient's process-local caches, Father's    *)
(* record of every execution, requests that outlive the call that sent     *)
(* them, and what an execution owns on the machine (worktree, tmux         *)
(* session, model runtime), which survives the process.                    *)
(*                                                                         *)
(* The daemon is one thread.  What interleaves with it is Father, late     *)
(* requests, the roles and their sessions, and a crash or restart between  *)
(* any two steps.                                                          *)
(***************************************************************************)
EXTENDS Naturals

CONSTANTS
  Executions,   \* the execution ids Father may offer
  NoExec,       \* "no execution": not a member of Executions
  Sessions,     \* tmux session names
  SessionOf,    \* SessionOf[e]: the name session_name derives for e
  LongerNames,  \* LongerNames[n]: the other names that begin with n
  Aliases,      \* model aliases
  AliasOf,      \* AliasOf[e]: the alias whose runtime e needs
  Roleless,     \* executions whose envelope has an empty target_role
  Environment,  \* which of EnvironmentEvents may happen
  Offerable,    \* the statuses in which a poll may return an execution
  MaxCrashes    \* bound on crashes of the daemon

EnvironmentEvents ==
  {"unreachable",   \* a request never reaches Father: FatherClientError
   "gateway",       \* Father acts, but its answer becomes a 5xx
   "empty",         \* Father acts and answers with an empty body
   "timeout",       \* the response is not read in time: a bare exception
   "unexpected",    \* a step raises something that is no EnvelopeError
   "crash",         \* the process dies and systemd restarts it
   "role",          \* a role goes on writing after its directory was removed
   "exit",          \* a session ends on its own
   "withdraw",      \* Father takes back an offer
   "expire"}        \* Father expires the stale claims of a polling worker

Statuses == {"offered", "claimed", "completed", "failed", "expired"}
Terminal == {"completed", "failed", "expired"}

ASSUME WorkerLoopAssumption ==
  /\ NoExec \notin Executions
  /\ SessionOf \in [Executions -> Sessions]
  /\ LongerNames \in [Sessions -> SUBSET Sessions]
  /\ AliasOf \in [Executions -> Aliases]
  /\ Roleless \subseteq Executions
  /\ Environment \subseteq EnvironmentEvents
  /\ Offerable \subseteq Statuses
  /\ MaxCrashes \in Nat

VARIABLES
  state,          \* WorkerLoop._state, or "DOWN" between crash and restart
  exec,           \* the execution being handled; NoExec: not _in_flight
  reply,          \* the Father call of this state, see Replies
  rescued,        \* the catch-all of _execute is running
  category,       \* category of the failure being reported
  reported,       \* father.complete or father.fail was called for exec
  gitOutcome,     \* outcome of git.cleanup inside _cleanup
  claimCache,     \* FatherClient._claimed
  completedCache, \* FatherClient._completed
  failedCache,    \* FatherClient._failed
  worktrees,      \* executions with a directory under worktree_root
  owner,          \* owner[n]: whose live tmux session is called n
  runtimes,       \* aliases whose runtime was acquired and not released
  father,         \* Father's record of each execution
  late,           \* requests whose caller has given up, still on the wire
  ran,            \* executions whose handoff was injected
  revived,        \* executions whose role wrote between removal and kill
  cleaned,        \* last CLEANUP_COMPLETED event of each execution
  crashes         \* number of crashes so far

loopVars    == <<state, exec, reply, rescued, category, reported, gitOutcome>>
cacheVars   == <<claimCache, completedCache, failedCache>>
machineVars == <<worktrees, owner, runtimes>>
fatherVars  == <<father, late>>
historyVars == <<ran, revived, cleaned, crashes>>
worldVars   == <<machineVars, fatherVars, historyVars>>
vars == <<loopVars, cacheVars, worldVars>>

-------------------------------------------------------------------------------
(* States and categories *)

(* The states whose EnvelopeErrors are caught and reported where they      *)
(* happen, under the category the error class carries.                     *)
InlineStates ==
  {"VALIDATING_ENVELOPE", "PREPARING_WORKTREE", "ALLOCATOR_PREFLIGHT",
   "ALLOCATOR_VALIDATING", "RENDERING_CLIENT_CONFIG", "ACQUIRING_RUNTIME",
   "CREATING_TMUX", "STARTING_CLIENT", "INJECTING_HANDOFF",
   "COLLECTING_RESULT"}

(* The states that run git or tmux, which have no timeout and may never    *)
(* come back.  The allocator has one, and so has every call to Father.     *)
CommandStates ==
  {"PREPARING_REPOSITORY", "PREPARING_WORKTREE", "CREATING_TMUX",
   "STARTING_CLIENT", "INJECTING_HANDOFF", "COLLECTING_RESULT", "CLEANING_UP"}

(* After a successful claim, up to the injection of the handoff. *)
BeforeRole == (InlineStates \cup {"PREPARING_REPOSITORY"}) \ {"COLLECTING_RESULT"}
(* From the injection to the release of the runtime. *)
RoleStates == {"COLLECTING_RESULT", "REPORTING_RESULT", "RELEASING_RUNTIME"}
Working == BeforeRole \cup RoleStates

States == Working \cup {"RECEIVED", "CLAIMED", "ROLE_EXECUTION_FAILED",
                        "CLEANING_UP", "DOWN"}

(* "step": the category of the failing step's own error class. *)
Categories == {"none", "step", "RESULT_REPORT_FAILED", "INTERNAL_WORKER_ERROR"}

(* "none": not called yet.  "waiting": the request is out.  The rest is    *)
(* what the call came back with: a body, no body (None), a                 *)
(* FatherClientError, or a bare exception of the HTTP library.             *)
Replies == {"none", "waiting", "body", "empty", "error", "raised"}

Requests == [kind : {"claim", "complete", "fail"}, exec : Executions]

May(event) == event \in Environment

(* What tmux takes -t n for: the session of that name or, if there is      *)
(* none, the only one whose name begins with it.                           *)
Target(n) ==
  IF owner[n] # NoExec THEN {n}
  ELSE {m \in LongerNames[n] :
          /\ owner[m] # NoExec
          /\ \A k \in LongerNames[n] : owner[k] # NoExec => k = m}

(* run_once starts no second execution: _in_flight. *)
Idle == exec = NoExec /\ state # "DOWN"

-------------------------------------------------------------------------------
(* Calls to Father.  A call is made in the state that names it. *)

CallStates == {"CLAIMED", "REPORTING_RESULT", "ROLE_EXECUTION_FAILED"}

KindOf(s) == CASE s = "CLAIMED"               -> "claim"
               [] s = "REPORTING_RESULT"      -> "complete"
               [] s = "ROLE_EXECUTION_FAILED" -> "fail"

ThisRequest == [kind |-> KindOf(state), exec |-> exec]

(* What the FatherClient has cached for this call; "none": nothing. *)
CachedReply ==
  CASE state = "CLAIMED"          -> claimCache[exec]
    [] state = "REPORTING_RESULT" ->
         IF exec \in completedCache THEN "body" ELSE "none"
    [] OTHER                      ->
         IF exec \in failedCache THEN "body" ELSE "none"

(* _report_failure names the session before it calls father.fail, and      *)
(* session_name rejects an empty role.                                     *)
NameRaises == state = "ROLE_EXECUTION_FAILED" /\ exec \in Roleless

(* claim, complete or fail is called: answered from the cache, or sent. *)
CallFather ==
  /\ state \in CallStates /\ exec # NoExec /\ reply = "none" /\ ~NameRaises
  /\ reply' = IF CachedReply # "none" THEN CachedReply ELSE "waiting"
  /\ reported' = (reported \/ state # "CLAIMED")
  /\ UNCHANGED <<state, exec, rescued, category, gitOutcome, cacheVars, worldVars>>

(* The statuses request r may leave Father's record in.  An endpoint that  *)
(* refuses a request records nothing: complete may be refused by its own   *)
(* validation, fail on an execution that is not claimed may or may not be. *)
Verdicts(r) ==
  CASE r.kind = "claim" /\ father[r.exec] = "offered"    -> {"claimed"}
    [] r.kind = "complete" /\ father[r.exec] = "claimed" -> {"completed", "claimed"}
    [] r.kind = "fail" /\ father[r.exec] = "claimed"     -> {"failed"}
    [] r.kind = "fail" /\ father[r.exec] = "offered"     -> {"failed", "offered"}
    [] OTHER                                             -> {father[r.exec]}

(* Father handles the request the worker is waiting on. *)
FatherAnswers ==
  /\ reply = "waiting"
  /\ \E status \in Verdicts(ThisRequest) :
       /\ father' = [father EXCEPT ![exec] = status]
       /\ \/ status # father[exec] /\ reply' = "body"
          \/ status # father[exec] /\ May("empty") /\ reply' = "empty"
          \/ status # father[exec] /\ May("gateway") /\ reply' = "error"
          \/ status = father[exec] /\ reply' = "error"
  /\ UNCHANGED <<state, exec, rescued, category, reported, gitOutcome,
                 cacheVars, machineVars, late, historyVars>>

(* urlopen raises URLError: the request never reached Father. *)
Unreachable ==
  /\ reply = "waiting" /\ May("unreachable")
  /\ reply' = "error"
  /\ UNCHANGED <<state, exec, rescued, category, reported, gitOutcome,
                 cacheVars, worldVars>>

(* The response is not read in time, or the connection drops under it:     *)
(* TimeoutError, RemoteDisconnected and the like escape the transport      *)
(* unwrapped.  The request is still on its way to Father.                  *)
TimesOut ==
  /\ reply = "waiting" /\ May("timeout")
  /\ reply' = "raised"
  /\ late' = late \cup {ThisRequest}
  /\ UNCHANGED <<state, exec, rescued, category, reported, gitOutcome,
                 cacheVars, machineVars, father, historyVars>>

-------------------------------------------------------------------------------
(* Father on its own *)

(* A late request reaches Father after all.  One that was lost never does: *)
(* this action has no fairness.                                            *)
FatherHandlesLate(r) ==
  /\ r \in late
  /\ late' = late \ {r}
  /\ \E status \in Verdicts(r) : father' = [father EXCEPT ![r.exec] = status]
  /\ UNCHANGED <<loopVars, cacheVars, machineVars, historyVars>>

FatherWithdraws(e) ==
  /\ May("withdraw") /\ father[e] = "offered"
  /\ father' = [father EXCEPT ![e] = "expired"]
  /\ UNCHANGED <<loopVars, cacheVars, machineVars, late, historyVars>>

(* A worker that polls is not working: the claims it holds are stale. *)
FatherExpires(e) ==
  /\ May("expire") /\ Idle /\ father[e] = "claimed"
  /\ father' = [father EXCEPT ![e] = "expired"]
  /\ UNCHANGED <<loopVars, cacheVars, machineVars, late, historyVars>>

-------------------------------------------------------------------------------
(* Reporting a failure and cleaning up *)

(* _report_failure begins. *)
Report(c) ==
  /\ state' = "ROLE_EXECUTION_FAILED"
  /\ category' = c
  /\ reply' = "none"
  /\ UNCHANGED <<exec, reported, gitOutcome>>

(* The catch-all of _execute: whatever escaped _run_sequence is reported. *)
Rescue ==
  /\ Report("INTERNAL_WORKER_ERROR")
  /\ rescued' = TRUE

(* Mutant of Leave: the identification is cleared, _in_flight is not NoExec. *)
LeaveHalfCleared ==
  /\ exec' = ""
  /\ reply' = "none"
  /\ rescued' = FALSE
  /\ category' = "none"
  /\ reported' = FALSE
  /\ gitOutcome' = "none"

(* run_once is over for exec, one way or another: the finally clause       *)
(* clears _in_flight, and what the call kept in locals is gone.            *)
Leave ==
  /\ exec' = NoExec
  /\ reply' = "none"
  /\ rescued' = FALSE
  /\ category' = "none"
  /\ reported' = FALSE
  /\ gitOutcome' = "none"

(* _cleanup begins. *)
BeginCleanup ==
  /\ state' = "CLEANING_UP"
  /\ reply' = "none"
  /\ gitOutcome' = "none"
  /\ UNCHANGED <<exec, rescued, category, reported>>

(* Mutant of FailReturns: the cache entry is written before the request. *)
FailReturnsCachedEarly ==
  /\ state = "ROLE_EXECUTION_FAILED" /\ reply \in {"body", "empty", "error"}
  /\ failedCache' = failedCache \cup {exec}
  /\ BeginCleanup
  /\ UNCHANGED <<claimCache, completedCache, worldVars>>

(* Mutant of FailReturns: an error of father.fail ends the execution. *)
FailReturnsSkipsCleanup ==
  /\ state = "ROLE_EXECUTION_FAILED" /\ reply \in {"body", "empty", "error"}
  /\ IF reply = "error" THEN Leave /\ state' = "RECEIVED" ELSE BeginCleanup
  /\ UNCHANGED <<cacheVars, worldVars>>

FailReturns ==
  /\ state = "ROLE_EXECUTION_FAILED" /\ reply \in {"body", "empty", "error"}
  /\ failedCache' = IF reply = "error" THEN failedCache
                                       ELSE failedCache \cup {exec}
  /\ BeginCleanup
  /\ UNCHANGED <<claimCache, completedCache, worldVars>>

(* Mutant of ReportRaises: the catch-all retries until the report is out. *)
ReportRaisesRetries ==
  /\ state = "ROLE_EXECUTION_FAILED" /\ exec # NoExec
  /\ reply = "raised" \/ (reply = "none" /\ NameRaises)
  /\ Rescue
  /\ UNCHANGED <<cacheVars, worldVars>>

(* session_name or the transport raises inside _report_failure.  Inside    *)
(* the sequence the catch-all reports again; inside the catch-all nothing  *)
(* is left to catch it.                                                    *)
ReportRaises ==
  /\ state = "ROLE_EXECUTION_FAILED" /\ exec # NoExec
  /\ reply = "raised" \/ (reply = "none" /\ NameRaises)
  /\ IF rescued THEN Leave /\ UNCHANGED state ELSE Rescue
  /\ UNCHANGED <<cacheVars, worldVars>>

(* Mutant of CleanWorktree: a failed removal is noted as a success. *)
CleanWorktreeAlwaysOk ==
  /\ state = "CLEANING_UP" /\ gitOutcome = "none"
  /\ gitOutcome' = "ok" /\ worktrees' \in {worktrees, worktrees \ {exec}}
  /\ UNCHANGED <<state, exec, reply, rescued, category, reported, cacheVars,
                 owner, runtimes, fatherVars, historyVars>>

(* git.cleanup: whatever it raises is swallowed and noted.  It can fail    *)
(* after the directory is gone (prune) or before (rmtree).                 *)
CleanWorktree ==
  /\ state = "CLEANING_UP" /\ gitOutcome = "none"
  /\ \/ gitOutcome' = "ok" /\ worktrees' = worktrees \ {exec}
     \/ gitOutcome' = "failed" /\ worktrees' \in {worktrees, worktrees \ {exec}}
  /\ UNCHANGED <<state, exec, reply, rescued, category, reported, cacheVars,
                 owner, runtimes, fatherVars, historyVars>>

(* Mutant of CleanSession: tmux kill-server instead of kill-session. *)
CleanSessionKillsServer ==
  /\ state = "CLEANING_UP" /\ gitOutcome # "none"
  /\ owner' = [n \in Sessions |-> NoExec]
  /\ cleaned' = [cleaned EXCEPT ![exec] = "full"]
  /\ state' = "RECEIVED"
  /\ Leave
  /\ UNCHANGED <<cacheVars, worktrees, runtimes, fatherVars, ran, revived, crashes>>

(* tmux.kill by name, then the CLEANUP_COMPLETED event.  The kill takes    *)
(* whatever session the name is taken for; if there is none, or tmux does  *)
(* not do it, it has failed.                                               *)
CleanSession ==
  /\ state = "CLEANING_UP" /\ gitOutcome # "none"
  /\ \E killed \in SUBSET Target(SessionOf[exec]) :
       /\ owner' = [n \in Sessions |-> IF n \in killed THEN NoExec ELSE owner[n]]
       /\ cleaned' = [cleaned EXCEPT ![exec] =
                        IF killed # {} /\ gitOutcome = "ok" THEN "full" ELSE "partial"]
  /\ state' = "RECEIVED"
  /\ Leave
  /\ UNCHANGED <<cacheVars, worktrees, runtimes, fatherVars, ran, revived, crashes>>

-------------------------------------------------------------------------------
(* The sequence *)

(* run_once: poll, and take up what the poll returns.  A poll that fails,  *)
(* or finds no work, only resets the state.                                *)
PollNothing ==
  /\ Idle
  /\ state' = "RECEIVED"
  /\ UNCHANGED <<exec, reply, rescued, category, reported, gitOutcome,
                 cacheVars, worldVars>>

TakeUp(e) ==
  /\ Idle /\ father[e] \in Offerable
  /\ exec' = e
  /\ state' = "CLAIMED"
  /\ cleaned' = [cleaned EXCEPT ![e] = "no"]
  /\ revived' = revived \ {e}
  /\ UNCHANGED <<reply, rescued, category, reported, gitOutcome, cacheVars,
                  machineVars, fatherVars, ran, crashes>>

(* The claim comes back with a body: the execution is this worker's. *)
ClaimGranted ==
  /\ state = "CLAIMED" /\ reply = "body"
  /\ claimCache' = [claimCache EXCEPT ![exec] = "body"]
  /\ state' = "VALIDATING_ENVELOPE"
  /\ reply' = "none"
  /\ UNCHANGED <<exec, rescued, category, reported, gitOutcome,
                 completedCache, failedCache, worldVars>>

(* A claim answered with no body is None, which is also what _safe_call    *)
(* returns for a call that failed: the sequence returns.                   *)
ClaimAnsweredEmpty ==
  /\ state = "CLAIMED" /\ reply = "empty"
  /\ claimCache' = [claimCache EXCEPT ![exec] = "empty"]
  /\ Leave
  /\ UNCHANGED <<state, completedCache, failedCache, worldVars>>

(* Mutant of ClaimFails: what _safe_call returned is not looked at. *)
ClaimFailsIgnored ==
  /\ state = "CLAIMED" /\ reply \in {"error", "raised"}
  /\ state' = "VALIDATING_ENVELOPE"
  /\ reply' = "none"
  /\ UNCHANGED <<exec, rescued, category, reported, gitOutcome, cacheVars,
                 worldVars>>

ClaimFails ==
  /\ state = "CLAIMED" /\ reply \in {"error", "raised"}
  /\ Report(IF reply = "error" THEN "RESULT_REPORT_FAILED"
                               ELSE "INTERNAL_WORKER_ERROR")
  /\ UNCHANGED <<rescued, cacheVars, worldVars>>

(* A step of the sequence succeeds and changes nothing outside the loop. *)
Proceed(from, to) ==
  /\ state = from
  /\ state' = to
  /\ UNCHANGED <<exec, reply, rescued, category, reported, gitOutcome,
                 cacheVars, fatherVars>>

ValidateEnvelope ==
  /\ Proceed("VALIDATING_ENVELOPE", "PREPARING_REPOSITORY")
  /\ exec \notin Roleless
  /\ UNCHANGED <<machineVars, historyVars>>

PrepareRepository ==
  /\ Proceed("PREPARING_REPOSITORY", "PREPARING_WORKTREE")
  /\ UNCHANGED <<machineVars, historyVars>>

(* ensure_mirror fails.  It runs under _safe_call, whose generic branch    *)
(* reports INTERNAL_WORKER_ERROR whatever was raised.                      *)
PrepareRepositoryFails ==
  /\ state = "PREPARING_REPOSITORY"
  /\ Report("INTERNAL_WORKER_ERROR")
  /\ UNCHANGED <<rescued, cacheVars, worldVars>>

CreateWorktree ==
  /\ Proceed("PREPARING_WORKTREE", "ALLOCATOR_PREFLIGHT")
  /\ exec \notin worktrees
  /\ worktrees' = worktrees \cup {exec}
  /\ UNCHANGED <<owner, runtimes, historyVars>>

PrepareClient ==
  /\ \/ Proceed("ALLOCATOR_PREFLIGHT", "ALLOCATOR_VALIDATING")
     \/ Proceed("ALLOCATOR_VALIDATING", "RENDERING_CLIENT_CONFIG")
     \/ Proceed("RENDERING_CLIENT_CONFIG", "ACQUIRING_RUNTIME")
  /\ UNCHANGED <<machineVars, historyVars>>

AcquireRuntime ==
  /\ Proceed("ACQUIRING_RUNTIME", "CREATING_TMUX")
  /\ runtimes' = runtimes \cup {AliasOf[exec]}
  /\ UNCHANGED <<worktrees, owner, historyVars>>

(* create refuses a name that has-session finds a session for. *)
CreateSession ==
  /\ Proceed("CREATING_TMUX", "STARTING_CLIENT")
  /\ Target(SessionOf[exec]) = {}
  /\ owner' = [owner EXCEPT ![SessionOf[exec]] = exec]
  /\ UNCHANGED <<worktrees, runtimes, historyVars>>

(* Mutant of StartClient: the handoff is never injected. *)
StartClientSkipsHandoff ==
  /\ Proceed("STARTING_CLIENT", "COLLECTING_RESULT")
  /\ UNCHANGED <<machineVars, historyVars>>

(* launch, then wait_ready. *)
StartClient ==
  /\ Proceed("STARTING_CLIENT", "INJECTING_HANDOFF")
  /\ UNCHANGED <<machineVars, historyVars>>

(* The handoff is submitted; RUNNING_ROLE is passed through at once. *)
InjectHandoff ==
  /\ Proceed("INJECTING_HANDOFF", "COLLECTING_RESULT")
  /\ ran' = ran \cup {exec}
  /\ UNCHANGED <<machineVars, revived, cleaned, crashes>>

(* Mutant of CollectResult: the runtime is released once the patch exists. *)
CollectResultReleases ==
  /\ Proceed("COLLECTING_RESULT", "REPORTING_RESULT")
  /\ runtimes' = runtimes \ {AliasOf[exec]}
  /\ UNCHANGED <<worktrees, owner, historyVars>>

(* The deliverable was read, the result committed and the patch made. *)
CollectResult ==
  /\ Proceed("COLLECTING_RESULT", "REPORTING_RESULT")
  /\ UNCHANGED <<machineVars, historyVars>>

(* Mutant of StepFails: a missing deliverable makes the worker ask again. *)
StepFailsAsksAgain ==
  /\ Proceed("COLLECTING_RESULT", "INJECTING_HANDOFF")
  /\ UNCHANGED <<machineVars, historyVars>>

(* Mutant of StepFails: the failure is cleaned up after, never reported. *)
StepFailsSilently ==
  /\ state \in InlineStates
  /\ BeginCleanup
  /\ UNCHANGED <<cacheVars, worldVars>>

(* An EnvelopeError, a client that never shows its prompt or a deliverable *)
(* that never settles: reported where it happens.                          *)
StepFails ==
  /\ state \in InlineStates
  /\ Report("step")
  /\ UNCHANGED <<rescued, cacheVars, worldVars>>

(* Any other exception escapes _run_sequence and reaches the catch-all,    *)
(* and so does the EnvelopeError of a pane wait_ready cannot read.         *)
StepRaisesUnexpected ==
  /\ state \in InlineStates
  /\ May("unexpected") \/ state = "STARTING_CLIENT"
  /\ Rescue
  /\ UNCHANGED <<cacheVars, worldVars>>

CompleteAcknowledged ==
  /\ state = "REPORTING_RESULT" /\ reply \in {"body", "empty"}
  /\ completedCache' = completedCache \cup {exec}
  /\ state' = "RELEASING_RUNTIME"
  /\ reply' = "none"
  /\ UNCHANGED <<exec, rescued, category, reported, gitOutcome, claimCache,
                 failedCache, worldVars>>

(* Mutant of CompleteFails: a refused completion ends the execution. *)
CompleteFailsSilently ==
  /\ state = "REPORTING_RESULT" /\ reply = "error"
  /\ BeginCleanup
  /\ UNCHANGED <<cacheVars, worldVars>>

(* Refused, unreachable or broken: reported as a failure all the same. *)
CompleteFails ==
  /\ state = "REPORTING_RESULT" /\ reply = "error"
  /\ Report("RESULT_REPORT_FAILED")
  /\ UNCHANGED <<rescued, cacheVars, worldVars>>

(* Mutant of CompleteRaises: the report is retried without bound. *)
CompleteRaisesRetries ==
  /\ state = "REPORTING_RESULT" /\ reply = "raised"
  /\ reply' = "none"
  /\ UNCHANGED <<state, exec, rescued, category, reported, gitOutcome,
                 cacheVars, worldVars>>

CompleteRaises ==
  /\ state = "REPORTING_RESULT" /\ reply = "raised"
  /\ Rescue
  /\ UNCHANGED <<cacheVars, worldVars>>

(* Mutant of ReleaseRuntime: a failed release fails the execution. *)
ReleaseRuntimeReportsFailure ==
  /\ state = "RELEASING_RUNTIME"
  /\ Report("step")
  /\ UNCHANGED <<rescued, cacheVars, worldVars>>

(* Best effort: a failed release is noted and the execution completes. *)
ReleaseRuntime ==
  /\ state = "RELEASING_RUNTIME"
  /\ runtimes' \in {runtimes, runtimes \ {AliasOf[exec]}}
  /\ BeginCleanup
  /\ UNCHANGED <<cacheVars, worktrees, owner, fatherVars, historyVars>>

-------------------------------------------------------------------------------
(* The process *)

(* The process dies.  Caches and the call in progress go with it; a        *)
(* request may already be on the wire.  The tmux server dies with the      *)
(* unit's process group or outlives it.                                    *)
Crash ==
  /\ May("crash") /\ state # "DOWN" /\ crashes < MaxCrashes
  /\ crashes' = crashes + 1
  /\ state' = "DOWN"
  /\ Leave
  /\ claimCache' = [e \in Executions |-> "none"]
  /\ completedCache' = {}
  /\ failedCache' = {}
  /\ late' \in {late} \cup
       {late \cup {r} : r \in IF reply = "waiting" THEN {ThisRequest} ELSE {}}
  /\ owner' \in {owner, [n \in Sessions |-> NoExec]}
  /\ UNCHANGED <<worktrees, runtimes, father, ran, revived, cleaned>>

(* The retention sweep removes worktree directories older than the window. *)
Sweep == worktrees' \in SUBSET worktrees

(* systemd starts the daemon again; the first iteration sweeps. *)
Restart ==
  /\ state = "DOWN"
  /\ state' = "RECEIVED"
  /\ Sweep
  /\ UNCHANGED <<exec, reply, rescued, category, reported, gitOutcome,
                 cacheVars, owner, runtimes, fatherVars, historyVars>>

(* Mutant of HourlySweep: the sweeper runs beside the executions. *)
SweepAnytime ==
  /\ Sweep
  /\ UNCHANGED <<loopVars, cacheVars, owner, runtimes, fatherVars, historyVars>>

(* The hourly sweep, between two calls of run_once. *)
HourlySweep ==
  /\ Idle /\ Sweep
  /\ UNCHANGED <<loopVars, cacheVars, owner, runtimes, fatherVars, historyVars>>

-------------------------------------------------------------------------------
(* Beside the thread *)

(* As long as its session lives, a role may write: what it writes into a   *)
(* directory that is gone brings the directory back.                       *)
RoleWrites(e) ==
  /\ May("role") /\ owner[SessionOf[e]] = e /\ e \notin worktrees
  /\ worktrees' = worktrees \cup {e}
  /\ revived' = revived \cup (IF e = exec THEN {e} ELSE {})
  /\ UNCHANGED <<loopVars, cacheVars, owner, runtimes, fatherVars, ran, cleaned,
                 crashes>>

(* The shell of a session exits, or somebody kills it. *)
SessionEnds(n) ==
  /\ May("exit") /\ owner[n] # NoExec
  /\ owner' = [owner EXCEPT ![n] = NoExec]
  /\ UNCHANGED <<loopVars, cacheVars, worktrees, runtimes, fatherVars, historyVars>>

-------------------------------------------------------------------------------

Init ==
  /\ state = "RECEIVED"
  /\ exec = NoExec
  /\ reply = "none"
  /\ rescued = FALSE
  /\ category = "none"
  /\ reported = FALSE
  /\ gitOutcome = "none"
  /\ claimCache = [e \in Executions |-> "none"]
  /\ completedCache = {}
  /\ failedCache = {}
  /\ worktrees = {}
  /\ owner = [n \in Sessions |-> NoExec]
  /\ runtimes = {}
  /\ father = [e \in Executions |-> "offered"]
  /\ late = {}
  /\ ran = {}
  /\ revived = {}
  /\ cleaned = [e \in Executions |-> "no"]
  /\ crashes = 0

(* One step of the daemon's thread. *)
WorkerStep ==
  \/ PollNothing
  \/ \E e \in Executions : TakeUp(e)
  \/ CallFather
  \/ ClaimGranted \/ ClaimAnsweredEmpty \/ ClaimFails
  \/ ValidateEnvelope
  \/ PrepareRepository \/ PrepareRepositoryFails
  \/ CreateWorktree
  \/ PrepareClient
  \/ AcquireRuntime
  \/ CreateSession
  \/ StartClient
  \/ InjectHandoff
  \/ CollectResult
  \/ StepFails \/ StepRaisesUnexpected
  \/ CompleteAcknowledged \/ CompleteFails \/ CompleteRaises
  \/ ReleaseRuntime
  \/ FailReturns \/ ReportRaises
  \/ CleanWorktree \/ CleanSession
  \/ Restart \/ HourlySweep

(* How a call in progress ends. *)
CallEnds == FatherAnswers \/ Unreachable \/ TimesOut

FatherStep ==
  \/ \E r \in late : FatherHandlesLate(r)
  \/ \E e \in Executions : FatherWithdraws(e) \/ FatherExpires(e)

RoleStep ==
  \/ \E e \in Executions : RoleWrites(e)
  \/ \E n \in Sessions : SessionEnds(n)

Next == WorkerStep \/ CallEnds \/ FatherStep \/ RoleStep \/ Crash

(* The thread is scheduled: a step that waits for nobody, or for the       *)
(* allocator and its timeout, is taken.  Every call to Father ends: it is  *)
(* answered, or the socket timeout ends it.  A step that runs git or tmux  *)
(* may hang for ever.                                                      *)
Fairness ==
  /\ WF_vars(WorkerStep /\ state \notin CommandStates)
  /\ WF_vars(CallEnds)

SafeSpec == Init /\ [][Next]_vars
Spec == SafeSpec /\ Fairness

-------------------------------------------------------------------------------
(* Properties *)

TypeOK ==
  /\ state \in States
  /\ exec \in Executions \cup {NoExec}
  /\ reply \in Replies
  /\ rescued \in BOOLEAN
  /\ category \in Categories
  /\ reported \in BOOLEAN
  /\ gitOutcome \in {"none", "ok", "failed"}
  /\ claimCache \in [Executions -> {"none", "body", "empty"}]
  /\ completedCache \subseteq Executions
  /\ failedCache \subseteq Executions
  /\ worktrees \subseteq Executions
  /\ owner \in [Sessions -> Executions \cup {NoExec}]
  /\ runtimes \subseteq Aliases
  /\ father \in [Executions -> Statuses]
  /\ late \subseteq Requests
  /\ ran \subseteq Executions
  /\ revived \subseteq Executions
  /\ cleaned \in [Executions -> {"no", "partial", "full"}]
  /\ crashes \in 0..MaxCrashes

(* The client's caches never say more than Father recorded: a cached       *)
(* completion is recorded as completed, a cached failure as failed, and a  *)
(* cached claim was recorded (FatherClient caches after the transport).    *)
CachesMirrorFather ==
  /\ \A e \in completedCache : father[e] = "completed"
  /\ \A e \in failedCache : father[e] = "failed"
  /\ \A e \in Executions : claimCache[e] # "none" => father[e] # "offered"

(* No step after the claim runs for an execution Father never recorded as  *)
(* claimed, whatever became of the claim request: a failed claim causes no *)
(* execution, even when its response was lost.                             *)
NoWorkWithoutClaim == state \in Working => father[exec] # "offered"

(* Father holds a completed result only for an execution whose handoff was *)
(* injected here, also when the result arrives late or after a crash.      *)
CompletedMeansRan ==
  \A e \in Executions : father[e] = "completed" => e \in ran

(* An execution whose completion Father acknowledged is never reported as  *)
(* failed, even when the release or the cleanup after it goes wrong.       *)
NeverContradictsAcknowledgement ==
  state = "ROLE_EXECUTION_FAILED" /\ exec # NoExec => exec \notin completedCache

(* What makes the four invariants above inductive: who holds an execution  *)
(* in which state, what each answer says of Father's record, and how far   *)
(* an execution must have come for a request or a record to exist.         *)
HeldWhileHandled ==
  /\ state \in Working \cup {"CLEANING_UP"} => exec # NoExec
  /\ state \in {"RECEIVED", "DOWN"} => exec = NoExec
  /\ reply # "none" => exec # NoExec /\ state \in CallStates

AnswersAreTrue ==
  reply \in {"body", "empty"} =>
    /\ state = "CLAIMED" => father[exec] # "offered"
    /\ state = "REPORTING_RESULT" => father[exec] = "completed"
    /\ state = "ROLE_EXECUTION_FAILED" => father[exec] = "failed"

RanInOrder ==
  /\ \A e \in ran : father[e] # "offered"
  /\ state \in RoleStates => exec \in ran
  /\ state \in BeforeRole \cup {"CLAIMED"} => exec \notin ran
  /\ \A r \in late : r.kind = "complete" => r.exec \in ran

ReleasedWhenRecorded ==
  state = "RELEASING_RUNTIME" => father[exec] = "completed"

UnacknowledgedUntilReleased ==
  state \in (Working \ {"RELEASING_RUNTIME"}) \cup {"CLAIMED"}
    => exec \notin completedCache

(* The inductive invariant of the loop: everything the claims, reports and *)
(* caches of one execution say about each other.                           *)
LoopInv ==
  /\ TypeOK
  /\ HeldWhileHandled
  /\ AnswersAreTrue
  /\ CachesMirrorFather
  /\ NoWorkWithoutClaim
  /\ CompletedMeansRan
  /\ RanInOrder
  /\ ReleasedWhenRecorded
  /\ UnacknowledgedUntilReleased
  /\ NeverContradictsAcknowledgement

(* A CLEANUP_COMPLETED event that claims both steps succeeded is true of   *)
(* the session, and stays true of the worktree unless the role wrote on    *)
(* after the removal: git.cleanup comes before tmux.kill.                  *)
FullCleanupLeavesNothing ==
  \A e \in Executions :
    cleaned[e] = "full" => e \notin worktrees \ revived /\ owner[SessionOf[e]] # e

(* No execution's session name is another one's, or its beginning. *)
NamesApart ==
  \A e, o \in Executions :
    o # e => /\ SessionOf[o] # SessionOf[e]
             /\ SessionOf[o] \notin LongerNames[SessionOf[e]]

(* The cleanup of an execution ends no session but its own. *)
OnlyOwnSessionKilled ==
  [][state = "CLEANING_UP" /\ state' = "RECEIVED"
       => \A n \in Sessions :
            owner[n] # NoExec /\ owner'[n] # owner[n] => owner[n] = exec]_vars

(* The directory a role works in goes away only in that execution's own    *)
(* cleanup, never under it: the sweep runs between executions.             *)
WorktreeOutlivesSequence ==
  [][exec # NoExec /\ exec \in worktrees /\ exec \notin worktrees'
       => state = "CLEANING_UP"]_vars

(* A runtime is stopped only after Father has durably recorded the result  *)
(* of the execution that stops it.                                         *)
ReleaseAfterDurableReport ==
  [][runtimes' # runtimes /\ runtimes' \subseteq runtimes
       => exec # NoExec /\ father[exec] = "completed"]_vars

(* Every path out of the sequence goes through father.fail or              *)
(* father.complete (module docstring of worker.py).                        *)
EveryPathReports ==
  [][exec # NoExec /\ exec' = NoExec /\ state' # "DOWN" => reported]_vars

(* Every path out of the sequence ends with CLEANUP_COMPLETED (same        *)
(* docstring: cleanup runs on both paths).                                 *)
EveryPathCleansUp ==
  [][exec # NoExec /\ exec' = NoExec /\ state' # "DOWN"
       => cleaned'[exec] # "no"]_vars

(* What the code does keep of the first promise, under every fault: an     *)
(* execution is left without a report only when its claim was answered     *)
(* with no body, or when it names no role and the catch-all could not name *)
(* its session either.                                                     *)
UnreportedOnlyWhen ==
  [][exec # NoExec /\ exec' = NoExec /\ state' # "DOWN" /\ ~reported
       => \/ state = "CLAIMED" /\ reply = "empty"
          \/ rescued /\ exec \in Roleless]_vars

(* ... and of the second: it is left without cleanup only in those cases   *)
(* and when the catch-all's own report raised.                             *)
UncleanedOnlyWhen ==
  [][exec # NoExec /\ exec' = NoExec /\ state' # "DOWN" /\ cleaned'[exec] = "no"
       => \/ state = "CLAIMED" /\ reply = "empty"
          \/ rescued /\ (reply = "raised" \/ exec \in Roleless)]_vars

(* What an execution owns is taken down only when Father no longer has it  *)
(* as claimed, or when the report of its failure came back as an error: a  *)
(* refused completion, above all, is reported as a failure first, or the   *)
(* claim would stay open and block every later offer.                      *)
CleanupFollowsRecord ==
  [][state # "CLEANING_UP" /\ state' = "CLEANING_UP"
       => \/ father[exec] # "claimed"
          \/ state = "ROLE_EXECUTION_FAILED" /\ reply = "error"]_vars

(* The handoff of an execution is injected at most once. *)
RoleRunsAtMostOnce ==
  [][state = "INJECTING_HANDOFF" /\ state' = "COLLECTING_RESULT"
       => exec \notin ran]_vars

(* A failed step is reported under the category of its own error class. *)
FailureNamesItsStep ==
  [][(state \in BeforeRole /\ state' = "ROLE_EXECUTION_FAILED")
       => (category' = "step")]_vars

(* What makes a git or tmux command hang: the thread stays in its state.   *)
Stuck == \E s \in CommandStates : <>[](state = s)

(* An execution that is taken up is put down, whatever Father, the network *)
(* and the roles do: nothing but a hanging git or tmux command holds it.   *)
PutDownUnlessStuck ==
  Stuck \/ \A e \in Executions : exec = e ~> exec # e

-------------------------------------------------------------------------------
(* Refinement of RoleExecution *)

StageOf(e) ==
  IF exec = e /\ state \in RoleStates THEN "running"
  ELSE IF e \in ran THEN "ended"
  ELSE IF exec = e \/ father[e] = "offered" THEN "waiting"
  ELSE "skipped"

Abstract == INSTANCE RoleExecution WITH
  stage     <- [e \in Executions |-> StageOf(e)],
  delivered <- {e \in Executions : father[e] = "completed"}

(* The loop, with Father, late requests and crashes, does what             *)
(* RoleExecution promises.                                                 *)
ImplementsRoleExecution == Abstract!SafeSpec

(* ... and what it promises to do eventually, unless a command hangs. *)
ImplementsRoleLiveness == Stuck \/ Abstract!Fairness

-------------------------------------------------------------------------------
(* Refinement of Holdings *)

Held == INSTANCE Holdings WITH
  holder <- exec,
  phase  <- IF state = "DOWN" THEN "down"
            ELSE IF exec = NoExec THEN "none"
            ELSE IF state = "CLEANING_UP" THEN "removing" ELSE "using",
  dirs   <- worktrees,
  live   <- {e \in Executions : owner[SessionOf[e]] = e}

(* Directories and sessions come and go as Holdings has it, if the names   *)
(* of sessions are apart (NamesApart): no step of one execution takes away  *)
(* what another one holds, its own directory outlives its use, and the     *)
(* sweep leaves alone what is in hand.                                     *)
ImplementsHoldings == Held!Spec
===============================================================================
