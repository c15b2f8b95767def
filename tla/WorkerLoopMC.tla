----------------------------- MODULE WorkerLoopMC -----------------------------
(***************************************************************************)
(* Small instances of WorkerLoop for TLC.                                  *)
(***************************************************************************)
EXTENDS WorkerLoop, TLC

CONSTANTS e1, e2, a1

(* Every execution has a session name of its own: the name is the id. *)
OwnSession == [e \in Executions |-> e]

(* No name begins with another one, or e2's begins with e1's. *)
NoneLonger == [n \in Sessions |-> {}]
SecondLonger == [n \in Sessions |-> IF n = e1 THEN {e2} ELSE {}]

(* All executions use the machine's one model. *)
OneAlias == [e \in Executions |-> a1]

(* Nothing distinguishes executions whose session names are their own. *)
Symmetry == Permutations(Executions)
===============================================================================
