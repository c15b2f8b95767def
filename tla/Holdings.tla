------------------------------- MODULE Holdings -------------------------------
(***************************************************************************)
(* What an execution holds on the worker's machine, a directory and a      *)
(* session with a role in it, and who may bring them there and take them   *)
(* away.  WorkerLoop, Machine and Terminal each look at a part of the      *)
(* machine and at its surroundings; each implements this module, so none   *)
(* of them assumes of the others what they do not do.                      *)
(***************************************************************************)
CONSTANTS
  Executions,   \* execution ids
  NoExec        \* "no execution"

VARIABLES
  holder,   \* the execution in hand
  phase,    \* it may acquire, it may only give back, there is none, or no process
  dirs,     \* executions with a directory under worktree_root
  live      \* executions with a live session

vars == <<holder, phase, dirs, live>>

Phases == {"none", "using", "removing", "down"}

TypeOK ==
  /\ holder \in Executions \cup {NoExec}
  /\ phase \in Phases
  /\ dirs \subseteq Executions
  /\ live \subseteq Executions

Init == holder = NoExec /\ phase = "none" /\ dirs = {} /\ live = {}

-------------------------------------------------------------------------------
(* The worker's thread, for the execution in hand alone *)

Take(e) ==
  /\ phase = "none" /\ holder' = e /\ phase' = "using"
  /\ UNCHANGED <<dirs, live>>

(* A directory that is there is not taken over ... *)
MakeDirectory ==
  /\ phase = "using" /\ holder \notin dirs
  /\ dirs' = dirs \cup {holder}
  /\ UNCHANGED <<holder, phase, live>>

(* ... and neither is a session.  What comes after it may fail at once. *)
OpenSession ==
  /\ phase = "using" /\ holder \notin live
  /\ live' = live \cup {holder}
  /\ phase' \in {"using", "removing"}
  /\ UNCHANGED <<holder, dirs>>

BeginRemoval ==
  /\ phase = "using" /\ phase' = "removing"
  /\ UNCHANGED <<holder, dirs, live>>

RemoveDirectory ==
  /\ phase = "removing"
  /\ dirs' = dirs \ {holder}
  /\ UNCHANGED <<holder, phase, live>>

(* The cleanup ends with the session, or the execution is left as it is. *)
PutDown ==
  /\ phase \in {"using", "removing"} /\ holder' = NoExec /\ phase' = "none"
  /\ live' = live \/ (phase = "removing" /\ live' = live \ {holder})
  /\ UNCHANGED dirs

(* Only with nothing in hand. *)
Sweep ==
  /\ phase = "none" /\ dirs' \subseteq dirs
  /\ UNCHANGED <<holder, phase, live>>

-------------------------------------------------------------------------------
(* Around it *)

(* A role writes, and a directory that was gone is back. *)
Write(e) ==
  /\ e \in live /\ dirs' = dirs \cup {e}
  /\ UNCHANGED <<holder, phase, live>>

SessionEnds(e) ==
  /\ live' = live \ {e}
  /\ UNCHANGED <<holder, phase, dirs>>

(* The process dies, perhaps just after a directory was made; its sessions *)
(* die with it or live on.                                                 *)
Crash ==
  /\ phase # "down" /\ holder' = NoExec /\ phase' = "down"
  /\ dirs' = dirs \/ (phase = "using" /\ dirs' = dirs \cup {holder})
  /\ live' \in {live, {}}

(* It comes back and sweeps first. *)
Restart ==
  /\ phase = "down" /\ phase' = "none"
  /\ dirs' \subseteq dirs
  /\ UNCHANGED <<holder, live>>

Next ==
  \/ \E e \in Executions : Take(e) \/ Write(e) \/ SessionEnds(e)
  \/ MakeDirectory \/ OpenSession
  \/ BeginRemoval \/ RemoveDirectory \/ PutDown
  \/ Sweep \/ Crash \/ Restart

Spec == Init /\ [][Next]_vars

-------------------------------------------------------------------------------
(* What follows from it for whoever implements it *)

InHand == holder = NoExec <=> phase \in {"none", "down"}

(* A directory goes in its own execution's cleanup or in a sweep, which    *)
(* never finds anything in hand; it comes from its own execution or its    *)
(* own role, and a session from its own execution.                         *)
OnlyOwn ==
  [][/\ \A e \in dirs \ dirs' : holder = NoExec \/ (phase = "removing" /\ holder = e)
     /\ \A e \in dirs' \ dirs : e \in live \/ (phase = "using" /\ holder = e)
     /\ \A e \in live' \ live : phase = "using" /\ holder = e]_vars
===============================================================================
