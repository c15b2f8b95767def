---------------------------- MODULE DeliverableWait ----------------------------
(***************************************************************************)
(* The wait for a role's deliverable: WorkerLoop._await_deliverable.  The  *)
(* client gives no completion signal, so the worker polls the file the     *)
(* envelope names until it is there and stands still, a fixed number of    *)
(* times, and beats Father's heart while it waits.  The role writes the    *)
(* file meanwhile, and may do so between any two system calls of a poll.   *)
(***************************************************************************)
EXTENDS Integers

CONSTANTS
  Poll,           \* DELIVERABLE_POLL_SECONDS
  DefaultTimeout, \* DEFAULT_EXECUTION_TIMEOUT_SECONDS
  Timeouts,       \* values of execution_timeout_seconds in the config
  Intervals,      \* values of heartbeat_interval_seconds in the config
  MaxWrites       \* bound on the role's changes to the file

(* A file's text, as far as the wait tells texts apart: no byte, only      *)
(* white space, a part of the document, the document, and what the base    *)
(* commit already held at that path.                                       *)
Texts == {"empty", "blank", "part", "whole", "stale"}

ASSUME DeliverableWaitAssumption ==
  /\ Poll \in Nat \ {0}
  /\ DefaultTimeout \in Nat \ {0}
  /\ Timeouts \subseteq Int
  /\ Intervals \subseteq Int
  /\ MaxWrites \in Nat \ {0}

VARIABLES
  timeout, interval, \* the configuration, fixed
  steady,     \* a role that is writing writes between any two polls; fixed
  fresh,      \* the base commit has nothing at the path; fixed
  file,       \* the text at the watched path, or "absent"
  mtime,      \* number of the file's last change
  role,       \* "working", "writing" or "finished" with the file
  touched,    \* the role changed the file since the last poll
  pc,         \* where the loop is: beat, look, read, sleep or done
  attempt,    \* polls completed
  previous,   \* signature of the last poll; NoSignature: None
  seen,       \* the file was there at some poll
  outcome,    \* "none", "content", or the category of the failure
  content,    \* the text the wait returned
  unheard,    \* sleeps since the last heartbeat, or since the wait began
  finishedAt  \* polls begun when the role finished the document; -1: never

config   == <<timeout, interval, steady, fresh>>
roleVars == <<file, mtime, role, touched, finishedAt>>
waitVars == <<pc, attempt, previous, seen, outcome, content, unheard>>
vars     == <<config, roleVars, waitVars>>

NoSignature == -1
AtLeastOne(n) == IF n < 1 THEN 1 ELSE n

(* 0 in the configuration means the default. *)
DeliverableTimeout == IF timeout = 0 THEN DefaultTimeout ELSE timeout
Attempts           == AtLeastOne(DeliverableTimeout \div Poll)
HeartbeatEvery     == AtLeastOne(interval \div Poll)

-------------------------------------------------------------------------------
(* The role *)

(* The file changes to text t. *)
Change(t) ==
  /\ outcome = "none" /\ mtime < MaxWrites
  /\ file' = t
  /\ mtime' = mtime + 1
  /\ touched' = TRUE
  /\ UNCHANGED <<config, waitVars>>

(* The role creates, extends, truncates or removes the file.  Of its       *)
(* bounded changes the last is kept for Finish.                            *)
Write ==
  /\ role \in {"working", "writing"} /\ mtime + 1 < MaxWrites
  /\ \E t \in {"absent", "empty", "blank", "part"} : Change(t)
  /\ role' = "writing"
  /\ UNCHANGED finishedAt

(* The last write: the document, or nothing worth the name. *)
Finish ==
  /\ role \in {"working", "writing"}
  /\ \E t \in {"empty", "blank", "whole"} :
       /\ Change(t)
       /\ finishedAt' = IF t # "whole" THEN -1
                        ELSE IF pc \in {"beat", "look"} THEN attempt
                        ELSE attempt + 1
  /\ role' = "finished"

-------------------------------------------------------------------------------
(* The wait *)

(* Mutant of Heartbeat: the modulus is one too large. *)
HeartbeatLate ==
  /\ pc = "beat"
  /\ unheard' = IF attempt # 0 /\ attempt % (HeartbeatEvery + 1) = 0
                THEN 0 ELSE unheard
  /\ pc' = "look"
  /\ UNCHANGED <<config, roleVars, attempt, previous, seen, outcome, content>>

(* Every HeartbeatEvery polls a heartbeat is sent; what comes of it, an    *)
(* exception included, changes nothing here.                               *)
Heartbeat ==
  /\ pc = "beat"
  /\ unheard' = IF attempt # 0 /\ attempt % HeartbeatEvery = 0 THEN 0 ELSE unheard
  /\ pc' = "look"
  /\ UNCHANGED <<config, roleVars, attempt, previous, seen, outcome, content>>

(* Mutant of Look: the first non-empty file will do. *)
LookOnce ==
  /\ pc = "look"
  /\ steady => (role = "writing" => touched)
  /\ touched' = FALSE
  /\ seen' = (seen \/ file # "absent")
  /\ IF file \notin {"absent", "empty"}
     THEN pc' = "read" /\ UNCHANGED previous
     ELSE pc' = "sleep" /\ previous' = NoSignature
  /\ UNCHANGED <<config, file, mtime, role, finishedAt, attempt, outcome,
                 content, unheard>>

(* target.stat().  The guard on steady is the role's pace, not the code's. *)
Look ==
  /\ pc = "look"
  /\ steady => (role = "writing" => touched)
  /\ touched' = FALSE
  /\ seen' = (seen \/ file # "absent")
  /\ IF file \notin {"absent", "empty"} /\ mtime = previous
     THEN pc' = "read" /\ UNCHANGED previous
     ELSE /\ pc' = "sleep"
          /\ previous' = IF file = "absent" THEN NoSignature ELSE mtime
  /\ UNCHANGED <<config, file, mtime, role, finishedAt, attempt, outcome,
                 content, unheard>>

(* Mutant of Read: a file that vanished under the read is returned. *)
ReadReturnsNothing ==
  /\ pc = "read"
  /\ IF file # "blank"
     THEN /\ outcome' = "content"
          /\ content' = file
          /\ pc' = "done"
          /\ UNCHANGED previous
     ELSE /\ pc' = "sleep"
          /\ UNCHANGED <<previous, outcome, content>>
  /\ UNCHANGED <<config, roleVars, attempt, seen, unheard>>

(* target.read_text(): the role may have been at the file since Look. *)
Read ==
  /\ pc = "read"
  /\ IF file \in {"part", "whole", "stale"}
     THEN /\ outcome' = "content"
          /\ content' = file
          /\ pc' = "done"
          /\ UNCHANGED previous
     ELSE /\ pc' = "sleep"
          /\ previous' = IF file = "absent" THEN NoSignature ELSE previous
          /\ UNCHANGED <<outcome, content>>
  /\ UNCHANGED <<config, roleVars, attempt, seen, unheard>>

(* Mutant of Sleep: one poll too few. *)
SleepEndsEarly ==
  /\ pc = "sleep"
  /\ attempt' = attempt + 1
  /\ unheard' = unheard + 1
  /\ IF attempt' + 1 < Attempts
     THEN pc' = "beat" /\ UNCHANGED outcome
     ELSE /\ pc' = "done"
          /\ outcome' = IF seen THEN "DELIVERABLE_MISSING"
                                ELSE "ROLE_EXECUTION_TIMEOUT"
  /\ UNCHANGED <<config, roleVars, previous, seen, content>>

(* Mutant of Sleep: the count starts over while the file is changing. *)
SleepForgives ==
  /\ pc = "sleep"
  /\ attempt' = IF seen THEN attempt ELSE attempt + 1
  /\ unheard' = IF seen THEN unheard ELSE unheard + 1
  /\ IF attempt' < Attempts
     THEN pc' = "beat" /\ UNCHANGED outcome
     ELSE /\ pc' = "done"
          /\ outcome' = IF seen THEN "DELIVERABLE_MISSING"
                                ELSE "ROLE_EXECUTION_TIMEOUT"
  /\ UNCHANGED <<config, roleVars, previous, seen, content>>

(* The worker sleeps after every poll, the last one included. *)
Sleep ==
  /\ pc = "sleep"
  /\ attempt' = attempt + 1
  /\ unheard' = unheard + 1
  /\ IF attempt' < Attempts
     THEN pc' = "beat" /\ UNCHANGED outcome
     ELSE /\ pc' = "done"
          /\ outcome' = IF seen THEN "DELIVERABLE_MISSING"
                                ELSE "ROLE_EXECUTION_TIMEOUT"
  /\ UNCHANGED <<config, roleVars, previous, seen, content>>

-------------------------------------------------------------------------------

Init ==
  /\ timeout \in Timeouts
  /\ interval \in Intervals
  /\ steady \in BOOLEAN
  /\ fresh \in BOOLEAN
  /\ file = IF fresh THEN "absent" ELSE "stale"
  /\ mtime = 0
  /\ role = "working"
  /\ touched = FALSE
  /\ pc = "beat"
  /\ attempt = 0
  /\ previous = NoSignature
  /\ seen = FALSE
  /\ outcome = "none"
  /\ content = "absent"
  /\ unheard = 0
  /\ finishedAt = -1

RoleStep == Write \/ Finish
WaitStep == Heartbeat \/ Look \/ Read \/ Sleep
Next == RoleStep \/ WaitStep

(* The daemon's thread runs; the role may stall for good.  A steady role   *)
(* that is writing goes on writing.                                        *)
Fairness == WF_vars(WaitStep) /\ WF_vars(steady /\ RoleStep)

SafeSpec == Init /\ [][Next]_vars
Spec == SafeSpec /\ Fairness

-------------------------------------------------------------------------------
(* Properties *)

TypeOK ==
  /\ timeout \in Timeouts /\ interval \in Intervals
  /\ steady \in BOOLEAN /\ fresh \in BOOLEAN
  /\ file \in Texts \cup {"absent"}
  /\ mtime \in 0..MaxWrites
  /\ role \in {"working", "writing", "finished"}
  /\ touched \in BOOLEAN
  /\ pc \in {"beat", "look", "read", "sleep", "done"}
  /\ attempt \in 0..Attempts
  /\ previous \in {NoSignature} \cup 0..MaxWrites
  /\ seen \in BOOLEAN
  /\ outcome \in {"none", "content", "DELIVERABLE_MISSING",
                  "ROLE_EXECUTION_TIMEOUT"}
  /\ content \in {"absent", "part", "whole", "stale"}
  /\ unheard \in 0..Attempts
  /\ finishedAt \in -1..Attempts

(* What the wait returns is the whole document, never one caught           *)
(* mid-write, if the role writes at least once per poll until it is done   *)
(* and found nothing at the path.                                          *)
AcceptedIsComplete ==
  outcome = "content" /\ steady /\ fresh => content = "whole"

(* The wait fails no role that finished in time: a document that was       *)
(* complete before the last two polls began is collected.                  *)
FinishedInTimeIsCollected ==
  outcome \in {"DELIVERABLE_MISSING", "ROLE_EXECUTION_TIMEOUT"}
    => finishedAt = -1 \/ finishedAt >= Attempts - 1

(* While a role is waited for, no more than a heartbeat interval of        *)
(* sleeping, or one poll when the interval is shorter, goes by without a   *)
(* heartbeat.  Time spent in the heartbeat call itself is not counted.     *)
HeartbeatInTime ==
  unheard * Poll <= IF interval < Poll THEN Poll ELSE interval

(* The wait ends, whatever the role does. *)
WaitEnds == <>(outcome # "none")
===============================================================================
