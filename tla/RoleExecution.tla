---------------------------- MODULE RoleExecution ----------------------------
(***************************************************************************)
(* What a LightWorker promises about the role executions Father gives it,  *)
(* with every mechanism left out: a role runs for one execution at a time, *)
(* never twice for the same execution, and Father holds a completed result *)
(* only for an execution whose role really ran.                            *)
(*                                                                         *)
(* WorkerLoop implements this module (WorkerLoop!ImplementsRoleExecution). *)
(***************************************************************************)
CONSTANT Executions

VARIABLES
  stage,      \* stage[e]: how far the worker took execution e
  delivered   \* the executions whose result Father holds

vars == <<stage, delivered>>

Stages == {"waiting", "running", "ended", "skipped"}

TypeOK == /\ stage \in [Executions -> Stages]
          /\ delivered \subseteq Executions

Init == /\ stage = [e \in Executions |-> "waiting"]
        /\ delivered = {}

(* The handoff reaches the client: the role of e starts. *)
Start(e) ==
  /\ stage[e] = "waiting"
  /\ \A other \in Executions : stage[other] # "running"
  /\ stage' = [stage EXCEPT ![e] = "running"]
  /\ UNCHANGED delivered

(* The role of e is over for this worker: collected, failed or crashed. *)
End(e) ==
  /\ stage[e] = "running"
  /\ stage' = [stage EXCEPT ![e] = "ended"]
  /\ UNCHANGED delivered

(* e is given up before its role ran. *)
Skip(e) ==
  /\ stage[e] = "waiting"
  /\ stage' = [stage EXCEPT ![e] = "skipped"]
  /\ UNCHANGED delivered

(* Father records the result of e; a slow request may land after End(e). *)
Deliver(e) ==
  /\ stage[e] \in {"running", "ended"}
  /\ delivered' = delivered \cup {e}
  /\ UNCHANGED stage

Next == \E e \in Executions : Start(e) \/ End(e) \/ Skip(e) \/ Deliver(e)

(* A started role is not left running: the wait for it is bounded. *)
Fairness == \A e \in Executions : WF_vars(End(e))

SafeSpec == Init /\ [][Next]_vars
Spec == SafeSpec /\ Fairness
==============================================================================
