------------------------- MODULE DeliverableWaitProofs -------------------------
(***************************************************************************)
(* Theorems about the wait for a deliverable, for every configuration and  *)
(* every role.                                                             *)
(***************************************************************************)
EXTENDS DeliverableWait, TLAPS

(* The counts the loop derives from the configuration are positive. *)
LEMMA CountsType ==
  ASSUME TypeOK
  PROVE  Attempts \in Nat \ {0} /\ HeartbeatEvery \in Nat \ {0}
<1>1. timeout \in Int /\ interval \in Int /\ Poll \in Int /\ DefaultTimeout \in Int
  BY DeliverableWaitAssumption DEF DeliverableWaitAssumption, TypeOK
<1>2. DeliverableTimeout \in Int
  BY <1>1 DEF DeliverableTimeout
<1>3. DeliverableTimeout \div Poll \in Int /\ interval \div Poll \in Int
  BY <1>1, <1>2, DeliverableWaitAssumption DEF DeliverableWaitAssumption
<1>4. QED
  BY <1>3 DEF Attempts, HeartbeatEvery, AtLeastOne

LEMMA InitTypeOK == Init => TypeOK
<1> SUFFICES ASSUME Init PROVE TypeOK
  OBVIOUS
<1>1. touched \in BOOLEAN /\ seen \in BOOLEAN
  BY DEF Init
<1>2. timeout \in Timeouts /\ interval \in Intervals
  BY DEF Init
<1>3. Attempts \in Nat
  <2>1. timeout \in Int /\ Poll \in Int /\ Poll > 0 /\ DefaultTimeout \in Int
    BY <1>2, DeliverableWaitAssumption DEF DeliverableWaitAssumption
  <2>2. DeliverableTimeout \in Int
    BY <2>1 DEF DeliverableTimeout
  <2>3. DeliverableTimeout \div Poll \in Int
    BY <2>1, <2>2
  <2>4. QED
    BY <2>3 DEF Attempts, AtLeastOne
<1>4. QED
  BY <1>1, <1>2, <1>3, DeliverableWaitAssumption
     DEF Init, TypeOK, Texts, NoSignature, DeliverableWaitAssumption

(* What holds of the counters from poll to poll. *)
Polling ==
  /\ outcome = "none" <=> pc # "done"
  /\ pc \in {"beat", "look", "read", "sleep"} => attempt < Attempts
  /\ unheard <= attempt
  /\ finishedAt <= attempt + (IF pc \in {"beat", "look"} THEN 0 ELSE 1)

LEMMA TypeOKStep ==
  ASSUME TypeOK, Polling, [Next]_vars
  PROVE  TypeOK' /\ Polling'
<1>0. UNCHANGED config => Attempts' = Attempts
  BY DEF config, Attempts, DeliverableTimeout
<1>1. Attempts \in Nat \ {0}
  BY CountsType
<1> USE <1>0, <1>1, DeliverableWaitAssumption
    DEF DeliverableWaitAssumption, TypeOK, Polling, Texts, NoSignature, config,
        roleVars, waitVars
<1>2. CASE Write
  BY <1>2 DEF Write, Change
<1>3. CASE Finish
  <2>1. PICK t \in {"empty", "blank", "whole"} :
          /\ Change(t)
          /\ finishedAt' = IF t # "whole" THEN -1
                           ELSE IF pc \in {"beat", "look"} THEN attempt
                           ELSE attempt + 1
    BY <1>3 DEF Finish
  <2>2. pc # "done" /\ UNCHANGED <<config, waitVars>>
    BY <2>1 DEF Change
  <2>3. finishedAt' \in -1..Attempts
    BY <2>1, <2>2
  <2>4. role' = "finished"
    BY <1>3 DEF Finish
  <2>5. TypeOK'
    BY <2>1, <2>2, <2>3, <2>4 DEF Change
  <2>6. Polling'
    BY <2>1, <2>2
  <2>7. QED
    BY <2>5, <2>6
<1>4. CASE Heartbeat
  <2>1. unheard' \in {0, unheard}
    BY <1>4 DEF Heartbeat
  <2>2. pc = "beat" /\ pc' = "look"
        /\ UNCHANGED <<config, roleVars, attempt, previous, seen, outcome, content>>
    BY <1>4 DEF Heartbeat
  <2>3. QED
    BY <2>1, <2>2
<1>5. CASE Look
  <2>1. seen' \in BOOLEAN /\ touched' \in BOOLEAN
    BY <1>5 DEF Look
  <2>2. pc' \in {"read", "sleep"} /\ previous' \in {previous, mtime, NoSignature}
    BY <1>5 DEF Look
  <2>3. pc = "look" /\ UNCHANGED <<config, file, mtime, role, finishedAt,
                                  attempt, outcome, content, unheard>>
    BY <1>5 DEF Look
  <2>4. QED
    BY <2>1, <2>2, <2>3
<1>6. CASE Read
  BY <1>6 DEF Read
<1>7. CASE Sleep
  BY <1>7 DEF Sleep
<1>8. CASE UNCHANGED vars
  BY <1>8 DEF vars
<1>9. QED
  BY <1>2, <1>3, <1>4, <1>5, <1>6, <1>7, <1>8 DEF Next, RoleStep, WaitStep

(* The variables of the wait keep their types, in every configuration. *)
THEOREM TypeCorrect == SafeSpec => [](TypeOK /\ Polling)
<1>1. Init => TypeOK /\ Polling
  <2>1. Init => TypeOK
    BY InitTypeOK
  <2>2. Init /\ TypeOK => Polling
    BY CountsType DEF Init, Polling
  <2>3. QED
    BY <2>1, <2>2
<1>2. TypeOK /\ Polling /\ [Next]_vars => (TypeOK /\ Polling)'
  BY TypeOKStep
<1>3. QED
  BY <1>1, <1>2, PTL DEF SafeSpec

-------------------------------------------------------------------------------
(* What the wait has seen of a document that is finished: nothing has      *)
(* changed since, and of the polls begun since then at most one has gone   *)
(* by without collecting it.                                               *)
FinishInv ==
  /\ previous <= mtime
  /\ finishedAt # -1 => role = "finished" /\ file = "whole"
  /\ finishedAt # -1 /\ pc \in {"beat", "look"} =>
       /\ attempt <= finishedAt + 1
       /\ attempt = finishedAt + 1 => previous = mtime
  /\ finishedAt # -1 /\ pc = "sleep" =>
       /\ attempt <= finishedAt
       /\ attempt = finishedAt => previous = mtime
  /\ FinishedInTimeIsCollected

LEMMA FinishInvStep ==
  ASSUME TypeOK, Polling, FinishInv, [Next]_vars
  PROVE  FinishInv'
<1>0. UNCHANGED config => Attempts' = Attempts
  BY DEF config, Attempts, DeliverableTimeout
<1>1. Attempts \in Nat \ {0}
  BY CountsType
<1> USE <1>0, <1>1, DeliverableWaitAssumption
    DEF DeliverableWaitAssumption, TypeOK, Polling, FinishInv, Texts, config,
        FinishedInTimeIsCollected, NoSignature, roleVars, waitVars
<1>2. CASE Write
  BY <1>2 DEF Write, Change
<1>3. CASE Finish
  BY <1>3 DEF Finish, Change
<1>4. CASE Heartbeat
  BY <1>4 DEF Heartbeat
<1>5. CASE Look
  BY <1>5 DEF Look
<1>6. CASE Read
  BY <1>6 DEF Read
<1>7. CASE Sleep
  BY <1>7 DEF Sleep
<1>8. CASE UNCHANGED vars
  BY <1>8 DEF vars
<1>9. QED
  BY <1>2, <1>3, <1>4, <1>5, <1>6, <1>7, <1>8 DEF Next, RoleStep, WaitStep

(* A document that was complete before the last two polls is collected,    *)
(* whatever the timeout and however the role wrote it.                     *)
THEOREM InTimeIsCollected == SafeSpec => []FinishedInTimeIsCollected
<1>1. Init => FinishInv
  BY DEF Init, FinishInv, FinishedInTimeIsCollected, NoSignature
<1>2. TypeOK /\ Polling /\ FinishInv /\ [Next]_vars => FinishInv'
  BY FinishInvStep
<1>3. FinishInv => FinishedInTimeIsCollected
  BY DEF FinishInv
<1>4. QED
  BY <1>1, <1>2, <1>3, TypeCorrect, PTL DEF SafeSpec

-------------------------------------------------------------------------------
(* Why a steady role is never caught mid-write: a change since the last    *)
(* poll shows in the signature, so the file is read only once it is done.  *)
SteadyInv ==
  steady /\ fresh =>
    /\ role = "working" => file = "absent"
    /\ role = "finished" => file \in {"empty", "blank", "whole"}
    /\ touched => previous < mtime
    /\ previous <= mtime
    /\ pc = "read" => role = "finished"
    /\ AcceptedIsComplete

LEMMA SteadyInvStep ==
  ASSUME TypeOK, Polling, SteadyInv, [Next]_vars
  PROVE  SteadyInv'
<1> USE DeliverableWaitAssumption
    DEF DeliverableWaitAssumption, TypeOK, Polling, SteadyInv, Texts, config,
        AcceptedIsComplete, NoSignature, roleVars, waitVars
<1>2. CASE Write
  BY <1>2 DEF Write, Change
<1>3. CASE Finish
  BY <1>3 DEF Finish, Change
<1>4. CASE Heartbeat
  BY <1>4 DEF Heartbeat
<1>5. CASE Look
  BY <1>5 DEF Look
<1>6. CASE Read
  BY <1>6 DEF Read
<1>7. CASE Sleep
  BY <1>7 DEF Sleep
<1>8. CASE UNCHANGED vars
  BY <1>8 DEF vars
<1>9. QED
  BY <1>2, <1>3, <1>4, <1>5, <1>6, <1>7, <1>8 DEF Next, RoleStep, WaitStep

(* A steady role at a fresh path is never caught mid-write.                *)
THEOREM SteadyIsComplete == SafeSpec => []AcceptedIsComplete
<1>1. Init => SteadyInv
  BY DEF Init, SteadyInv, AcceptedIsComplete, NoSignature
<1>2. TypeOK /\ Polling /\ SteadyInv /\ [Next]_vars => SteadyInv'
  BY SteadyInvStep
<1>3. SteadyInv => AcceptedIsComplete
  BY DEF SteadyInv, AcceptedIsComplete
<1>4. QED
  BY <1>1, <1>2, <1>3, TypeCorrect, PTL DEF SafeSpec

-------------------------------------------------------------------------------
(* A number of whole periods is never longer than what it was cut from. *)
LEMMA WholePeriods ==
  ASSUME NEW a \in Int, NEW b \in Nat \ {0}
  PROVE  (a \div b) \in Int /\ (a \div b) * b <= a
OBVIOUS

(* As many whole polls as fit a time, or one, fit the time or one poll. *)
LEMMA PeriodFits ==
  ASSUME NEW a \in Int
  PROVE  /\ AtLeastOne(a \div Poll) \in Nat
         /\ AtLeastOne(a \div Poll) * Poll <= IF a < Poll THEN Poll ELSE a
<1>1. Poll \in Nat \ {0}
  BY DeliverableWaitAssumption DEF DeliverableWaitAssumption
<1> DEFINE q == a \div Poll
<1>2. q \in Int /\ q * Poll <= a
  BY <1>1, WholePeriods
<1>3. AtLeastOne(q) = IF q < 1 THEN 1 ELSE q
  BY DEF AtLeastOne
<1> HIDE DEF q
<1>4. q >= 1 => a >= Poll
  <2>1. q >= 1 => q * Poll >= Poll
    BY <1>1, <1>2
  <2>2. QED
    BY <1>1, <1>2, <2>1
<1>5. AtLeastOne(q) \in Nat /\ AtLeastOne(q) * Poll <= IF a < Poll THEN Poll ELSE a
  <2>1. CASE q >= 1
    BY <1>1, <1>2, <1>3, <1>4, <2>1
  <2>2. CASE ~(q >= 1)
    BY <1>1, <1>2, <1>3, <2>2
  <2>3. QED
    BY <2>1, <2>2
<1>6. QED
  BY <1>5 DEF q

(* Counting from the last multiple of the period: how many sleeps went by  *)
(* without a heartbeat.                                                    *)
BeatInv ==
  /\ pc \in {"look", "read", "sleep"} => unheard = attempt % HeartbeatEvery
  /\ pc = "beat" => \/ attempt = 0 /\ unheard = 0
                    \/ attempt # 0
                         /\ unheard = ((attempt - 1) % HeartbeatEvery) + 1
  /\ unheard <= HeartbeatEvery

(* Quotient and remainder are unique. *)
LEMMA UniqueRemainder ==
  ASSUME NEW n \in Nat \ {0}, NEW q \in Int, NEW r \in 0..(n - 1)
  PROVE  (n * q + r) % n = r
<1> DEFINE a == n * q + r
           p == a \div n
           s == a % n
<1>1. a \in Int /\ p \in Int /\ s \in 0..(n - 1) /\ a = n * p + s
  OBVIOUS
<1>2. n * p + s = n * q + r
  BY <1>1
<1> HIDE DEF a, p, s
<1>3. n * (p - q) = r - s
  BY <1>1, <1>2
<1>4. p - q >= 1 => n * (p - q) >= n
  BY <1>1
<1>5. p - q <= -1 => n * (p - q) <= -n
  BY <1>1
<1>6. p = q
  BY <1>1, <1>3, <1>4, <1>5
<1>7. s = r
  BY <1>1, <1>2, <1>6
<1>8. QED
  BY <1>7 DEF s, a

(* A step of one, counted modulo n, goes up by one or back to zero. *)
LEMMA NextRemainder ==
  ASSUME NEW a \in Nat \ {0}, NEW n \in Nat \ {0}
  PROVE  a % n # 0 => a % n = ((a - 1) % n) + 1
<1> DEFINE q == (a - 1) \div n
           r == (a - 1) % n
<1>1. q \in Int /\ r \in 0..(n - 1) /\ a - 1 = n * q + r
  OBVIOUS
<1> HIDE DEF q, r
<1>2. CASE r + 1 < n
  <2>1. r + 1 \in 0..(n - 1) /\ a = n * q + (r + 1)
    BY <1>1, <1>2
  <2>2. a % n = r + 1
    BY <1>1, <2>1, UniqueRemainder
  <2>3. QED
    BY <2>2 DEF r
<1>3. CASE ~(r + 1 < n)
  <2>1. r + 1 = n
    BY <1>1, <1>3
  <2>2. a = n * (q + 1) + 0
    BY <1>1, <2>1
  <2>3. 0 \in 0..(n - 1) /\ q + 1 \in Int
    BY <1>1
  <2>4. a % n = 0
    BY <2>2, <2>3, UniqueRemainder
  <2>5. QED
    BY <2>4
<1>4. QED
  BY <1>2, <1>3

LEMMA BeatInvStep ==
  ASSUME TypeOK, Polling, BeatInv, [Next]_vars
  PROVE  BeatInv'
<1>0. UNCHANGED config => HeartbeatEvery' = HeartbeatEvery
  BY DEF config, HeartbeatEvery
<1>1. HeartbeatEvery \in Nat \ {0} /\ Attempts \in Nat
  BY CountsType
<1>2. attempt \in Nat /\ unheard \in Nat
  BY <1>1 DEF TypeOK
<1>3. attempt % HeartbeatEvery \in 0..(HeartbeatEvery - 1)
  BY <1>1, <1>2
<1>4. CASE Heartbeat
  <2>1. pc = "beat" /\ pc' = "look" /\ attempt' = attempt
        /\ HeartbeatEvery' = HeartbeatEvery
    BY <1>0, <1>4 DEF Heartbeat
  <2>2. unheard' = IF attempt # 0 /\ attempt % HeartbeatEvery = 0
                   THEN 0 ELSE unheard
    BY <1>4 DEF Heartbeat
  <2>3. CASE attempt = 0
    <3>1. 0 % HeartbeatEvery = 0
      BY <1>1
    <3>2. QED
      BY <1>1, <1>2, <2>1, <2>2, <2>3, <3>1 DEF BeatInv
  <2>4. CASE attempt # 0
    <3>1. attempt % HeartbeatEvery # 0 =>
            attempt % HeartbeatEvery = ((attempt - 1) % HeartbeatEvery) + 1
      BY <1>1, <1>2, <2>4, NextRemainder
    <3>2. unheard' = attempt % HeartbeatEvery
      BY <2>1, <2>2, <2>4, <3>1 DEF BeatInv
    <3>3. QED
      BY <1>1, <1>3, <2>1, <3>2 DEF BeatInv
  <2>5. QED
    BY <2>3, <2>4
<1>5. CASE Sleep
  <2>1. /\ pc = "sleep" /\ pc' \in {"beat", "done"}
        /\ attempt' = attempt + 1 /\ unheard' = unheard + 1
        /\ HeartbeatEvery' = HeartbeatEvery
    BY <1>0, <1>5 DEF Sleep
  <2>2. unheard' = ((attempt' - 1) % HeartbeatEvery) + 1
    BY <1>2, <2>1 DEF BeatInv
  <2>3. unheard' <= HeartbeatEvery
    BY <1>1, <1>2, <1>3, <2>1 DEF BeatInv
  <2>4. QED
    BY <1>2, <2>1, <2>2, <2>3 DEF BeatInv
<1>6. CASE Look \/ Read
  <2>1. /\ pc \in {"look", "read"} /\ pc' \in {"read", "sleep", "done"}
        /\ attempt' = attempt /\ unheard' = unheard
        /\ HeartbeatEvery' = HeartbeatEvery
    BY <1>0, <1>6 DEF Look, Read, roleVars
  <2>2. QED
    BY <2>1 DEF BeatInv
<1>7. CASE RoleStep \/ UNCHANGED vars
  <2>1. UNCHANGED <<config, waitVars>>
    BY <1>7 DEF RoleStep, Write, Finish, Change, vars
  <2>2. QED
    BY <1>0, <2>1 DEF BeatInv, waitVars
<1>8. QED
  BY <1>4, <1>5, <1>6, <1>7 DEF Next, WaitStep

(* Father never waits longer for a heartbeat than the interval, or one     *)
(* poll when the interval is shorter, whatever the two numbers are.        *)
THEOREM BeatsInTime == SafeSpec => []HeartbeatInTime
<1>1. Init => BeatInv
  <2> SUFFICES ASSUME Init PROVE BeatInv
    OBVIOUS
  <2>1. TypeOK
    BY InitTypeOK
  <2>2. QED
    BY <2>1, CountsType DEF Init, BeatInv
<1>2. TypeOK /\ Polling /\ BeatInv /\ [Next]_vars => BeatInv'
  BY BeatInvStep
<1>3. TypeOK /\ BeatInv => HeartbeatInTime
  <2> SUFFICES ASSUME TypeOK, BeatInv PROVE HeartbeatInTime
    OBVIOUS
  <2>1. /\ unheard \in Nat /\ HeartbeatEvery \in Nat /\ Poll \in Nat
        /\ interval \in Int
    BY CountsType, DeliverableWaitAssumption
       DEF TypeOK, DeliverableWaitAssumption
  <2>2. unheard <= HeartbeatEvery
    BY DEF BeatInv
  <2>3. unheard * Poll <= HeartbeatEvery * Poll
    BY <2>1, <2>2
  <2>4. unheard * Poll \in Int /\ HeartbeatEvery * Poll \in Int
    BY <2>1
  <2>5. HeartbeatEvery * Poll <= IF interval < Poll THEN Poll ELSE interval
    BY <2>1, PeriodFits DEF HeartbeatEvery
  <2>6. QED
    BY <2>1, <2>3, <2>4, <2>5 DEF HeartbeatInTime
<1>4. QED
  BY <1>1, <1>2, <1>3, TypeCorrect, PTL DEF SafeSpec

-------------------------------------------------------------------------------
(* The wait is over in time. *)

(* All the sleeping done so far fits the configured timeout, or one poll   *)
(* when the timeout is shorter.                                            *)
SleepsWithinTimeout ==
  attempt * Poll <= IF DeliverableTimeout < Poll THEN Poll ELSE DeliverableTimeout

(* However the role writes, a wait sleeps no longer than it is configured  *)
(* to, the sleep after the last poll included.                             *)
THEOREM WaitIsBounded == SafeSpec => []SleepsWithinTimeout
<1>1. TypeOK => SleepsWithinTimeout
  <2> SUFFICES ASSUME TypeOK PROVE SleepsWithinTimeout
    OBVIOUS
  <2>1. Poll \in Nat \ {0} /\ DeliverableTimeout \in Int
    BY DeliverableWaitAssumption
       DEF DeliverableWaitAssumption, TypeOK, DeliverableTimeout
  <2>2. /\ Attempts \in Nat
        /\ Attempts * Poll <= IF DeliverableTimeout < Poll
                              THEN Poll ELSE DeliverableTimeout
    BY <2>1, PeriodFits DEF Attempts
  <2>3. attempt \in Nat /\ attempt <= Attempts
    BY <2>2 DEF TypeOK
  <2>4. attempt * Poll <= Attempts * Poll
    BY <2>1, <2>2, <2>3
  <2>5. attempt * Poll \in Int /\ Attempts * Poll \in Int
    BY <2>1, <2>2, <2>3
  <2>6. QED
    BY <2>1, <2>2, <2>4, <2>5 DEF SleepsWithinTimeout
<1>2. QED
  BY <1>1, TypeCorrect, PTL

(* Steps of the wait still to come, at most: four to a poll. *)
Left == 4 * (Attempts - attempt)
          + CASE pc = "beat" -> 3 [] pc = "look" -> 2 [] pc = "read" -> 1 [] OTHER -> 0

(* Each step of the wait brings its end nearer, and the role, finished or  *)
(* still writing, does not put it off.                                     *)
EveryStepGetsOn ==
  [][\/ WaitStep /\ Left' < Left
     \/ RoleStep /\ UNCHANGED <<config, waitVars>>]_vars

LEMMA GetsOnStep ==
  ASSUME TypeOK, Polling, Next
  PROVE  \/ WaitStep /\ Left' < Left
         \/ RoleStep /\ UNCHANGED <<config, waitVars>>
<1>0. UNCHANGED config => Attempts' = Attempts
  BY DEF config, Attempts, DeliverableTimeout
<1>1. Attempts \in Nat /\ attempt \in Nat
  BY CountsType DEF TypeOK
<1>2. ASSUME Heartbeat \/ Look PROVE Left' < Left
  <2>1. /\ \/ pc = "beat" /\ pc' = "look"
           \/ pc = "look" /\ pc' \in {"read", "sleep"}
        /\ attempt' = attempt /\ Attempts' = Attempts
    BY <1>0, <1>2 DEF Heartbeat, Look
  <2>2. QED
    BY <1>1, <2>1 DEF Left
<1>3. ASSUME Read PROVE Left' < Left
  <2>1. /\ pc = "read" /\ pc' \in {"sleep", "done"}
        /\ attempt' = attempt /\ Attempts' = Attempts
    BY <1>0, <1>3 DEF Read
  <2>2. QED
    BY <1>1, <2>1 DEF Left
<1>4. ASSUME Sleep PROVE Left' < Left
  <2>1. /\ pc = "sleep" /\ pc' \in {"beat", "done"}
        /\ attempt' = attempt + 1 /\ Attempts' = Attempts
    BY <1>0, <1>4 DEF Sleep
  <2>2. QED
    BY <1>1, <2>1 DEF Left
<1>5. CASE RoleStep
  <2>1. UNCHANGED <<config, waitVars>>
    BY <1>5 DEF RoleStep, Write, Finish, Change
  <2>2. QED
    BY <1>5, <2>1
<1>6. CASE WaitStep
  <2>1. Left' < Left
    BY <1>2, <1>3, <1>4, <1>6 DEF WaitStep
  <2>2. QED
    BY <1>6, <2>1
<1>7. QED
  BY <1>5, <1>6 DEF Next

LEMMA LeftBound ==
  ASSUME TypeOK
  PROVE  Left \in 0..4 * Attempts + 3
<1>1. Attempts \in Nat /\ attempt \in 0..Attempts
  BY CountsType DEF TypeOK
<1>2. QED
  BY <1>1 DEF Left

(* Whatever the role does, the wait is at most four steps to a poll away   *)
(* from its end: it cannot be kept waiting.                                *)
THEOREM WaitGetsOn ==
  SafeSpec => [](Left \in 0..4 * Attempts + 3) /\ EveryStepGetsOn
<1>1. TypeOK => Left \in 0..4 * Attempts + 3
  BY LeftBound
<1>2. TypeOK /\ Polling /\ [Next]_vars =>
        [\/ WaitStep /\ Left' < Left
         \/ RoleStep /\ UNCHANGED <<config, waitVars>>]_vars
  BY GetsOnStep
<1>3. QED
  BY <1>1, <1>2, TypeCorrect, PTL DEF SafeSpec, EveryStepGetsOn
===============================================================================
