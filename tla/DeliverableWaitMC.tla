--------------------------- MODULE DeliverableWaitMC ---------------------------
(***************************************************************************)
(* Small configurations of DeliverableWait for TLC.                        *)
(***************************************************************************)
EXTENDS DeliverableWait

(* None configured, shorter than a poll, one poll, not a multiple, longer. *)
SomeTimeouts == {-1, 0, 3, 5, 12, 25}

(* Shorter than a poll, not a multiple of it, longer. *)
SomeIntervals == {0, 3, 12, 15}
===============================================================================
