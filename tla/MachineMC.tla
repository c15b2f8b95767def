------------------------------- MODULE MachineMC -------------------------------
(***************************************************************************)
(* Small instances of Machine for TLC: two executions of one project, the  *)
(* first at a commit of the default branch, the second at one beside it.   *)
(***************************************************************************)
EXTENDS Machine

CONSTANTS e1, e2, p1, c1, c2, code, fresh, namesake, report1, report2

OneProject     == [e \in Executions |-> p1]
TwoBases       == [e \in Executions |-> IF e = e1 THEN c1 ELSE c2]
OneHome        == [c \in Commits |-> p1]
OwnDeliverable == [e \in Executions |-> IF e = e1 THEN report1 ELSE report2]
(* Either role reports; the second works on code, adds a file, and adds    *)
(* one that has the name of its report.                                    *)
OwnWrites      == [e \in Executions |->
                     {OwnDeliverable[e]} \cup
                       (IF e = e1 THEN {} ELSE {code, fresh, namesake})]
(* The second report is named without a directory, the first with one. *)
ByName         == [f \in AllFiles |-> IF f = report2 THEN {report2, namesake} ELSE {f}]
ByPath         == [f \in AllFiles |-> {f}]
(* The code is tracked although the repository's .gitignore names it. *)
CodeIgnored    == [c \in Commits |-> {code}]
NoneIgnored    == [c \in Commits |-> {}]
(* The second role creates the path the first one reports at. *)
CrossedWrites  == [e \in Executions |-> {report1, OwnDeliverable[e]}]
(* The first execution's report is a file its base already has. *)
SomeTracked    == [c \in Commits |-> IF c = c1 THEN {code, report1} ELSE {code}]

(* The first execution is offered again, the second is not. *)
TwiceAndOnce   == [e \in Executions |-> IF e = e1 THEN 2 ELSE 1]
OnceEach       == [e \in Executions |-> 1]

Endpoint == <<"provider", "ollama", "baseURL">>
Models   == <<"provider", "ollama", "models">>

(* What the allocator renders of a configuration. *)
SomeRenderings == {{<<"model">>, Models}}

(* The operator's file, with the permission block and without it. *)
SomeBases == {{<<"permission">>, Endpoint}, {Endpoint}}
===============================================================================
