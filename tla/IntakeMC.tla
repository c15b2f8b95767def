------------------------------- MODULE IntakeMC -------------------------------
(***************************************************************************)
(* Small instances of Intake for TLC: two executions of up to two          *)
(* attempts.  Of one attempt every envelope that misses one field of the   *)
(* proper one in some way is offered, and those with two of the compared   *)
(* fields wrong; of the others a few.  The files are the example and those *)
(* with one value changed that loading or starting looks at.               *)
(***************************************************************************)
EXTENDS Intake, TLC

CONSTANTS e1, e2, a1, a2

Proper ==
  [f \in Validator!Fields |->
     CASE f \in {"repository", "handoff", "result_contract"} -> "block"
       [] f \in {"tests_required", "local_result_commit_required"} -> "flag"
       [] OTHER -> "right"]

Compared == {"schema_version", "worker_id", "model_source", "client", "target_role"}

OneOff ==
  {[Proper EXCEPT ![f] = v] :
     f \in Validator!Fields, v \in {"absent", "other", "empty", "piped"}}
    \cup {[Proper EXCEPT ![f] = v] :
            f \in {"execution_id", "project_key", "expected_deliverable"},
            v \in {"odd", "slashed", "here", "nul", "absolute", "upward", "outside", "list"}}

TwoOff ==
  {[Proper EXCEPT ![f] = v, ![g] = w] :
     f \in Compared, g \in Compared, v \in {"other", "list"}, w \in {"other", "piped"}}

Few ==
  {Proper,
   [Proper EXCEPT !["attempt_id"] = "absent"],
   [Proper EXCEPT !["target_role"] = "empty"],
   [Proper EXCEPT !["worker_id"] = "other"]}

Offer(e, a, env) == [execution |-> e, attempt |-> a, env |-> env]

SomeOffers ==
  {Offer(e1, a1, env) : env \in OneOff \cup TwoOff}
    \cup {Offer(e1, a2, env) : env \in Few} \cup {Offer(e2, a1, env) : env \in Few}

Example ==
  [shape |-> "mapping",
   section |-> [s \in Config!Sections |-> "mapping"],
   value |-> [k \in Config!Keys |->
     CASE Config!Fields[k[1]][k[2]] = "str" -> "text"
       [] Config!Fields[k[1]][k[2]] = "int" -> "positive"
       [] OTHER -> "absent"]]

SomeFiles ==
  {Example, [Example EXCEPT !.shape = "other"],
   [Example EXCEPT !.section["paths"] = "other"]}
    \cup {[Example EXCEPT !.value[c[1]] = c[2]] :
            c \in {<<<<"worker", "id">>, "empty">>, <<<<"worker", "id">>, "unset">>,
                   <<<<"father", "request_timeout_seconds">>, "zero">>,
                   <<<<"retention", "log_days">>, "bool">>}}
===============================================================================
