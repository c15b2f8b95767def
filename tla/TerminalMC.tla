------------------------------ MODULE TerminalMC ------------------------------
(***************************************************************************)
(* Small instances of Terminal for TLC: two executions of one role, the    *)
(* id of the second longer than a session name keeps; the name of the      *)
(* first, r-1, is the beginning of the second's, r-12.                     *)
(***************************************************************************)
EXTENDS Terminal

CONSTANTS e1, e2

SomeCharacters == {"r", "x", "-", "1", "2"}
OneRole == [e \in Executions |-> <<"r">>]
SomeIds == [e \in Executions |-> IF e = e1 THEN <<"1">> ELSE <<"x", "-", "1", "2">>]
===============================================================================
