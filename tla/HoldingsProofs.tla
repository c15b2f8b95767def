---------------------------- MODULE HoldingsProofs ----------------------------
(***************************************************************************)
(* What Holdings promises, and with it every module that implements it.    *)
(***************************************************************************)
EXTENDS Holdings, TLAPS

HoldingsInv == TypeOK /\ InHand

LEMMA StepInv ==
  ASSUME NoExec \notin Executions, HoldingsInv, [Next]_vars
  PROVE  HoldingsInv'
<1> USE DEF HoldingsInv, TypeOK, InHand, Phases
<1>1. ASSUME NEW e \in Executions, Take(e) \/ Write(e) \/ SessionEnds(e)
      PROVE  HoldingsInv'
  BY <1>1 DEF Take, Write, SessionEnds
<1>2. CASE MakeDirectory \/ OpenSession
  BY <1>2 DEF MakeDirectory, OpenSession
<1>3. CASE BeginRemoval \/ RemoveDirectory \/ PutDown
  BY <1>3 DEF BeginRemoval, RemoveDirectory, PutDown
<1>4. CASE Sweep \/ Crash \/ Restart
  BY <1>4 DEF Sweep, Crash, Restart
<1>5. CASE UNCHANGED vars
  BY <1>5 DEF vars
<1> HIDE DEF HoldingsInv
<1>6. QED
  BY <1>1, <1>2, <1>3, <1>4, <1>5 DEF Next

(* The holder is an execution exactly while the thread has one in hand. *)
THEOREM HoldingsInvariant ==
  ASSUME NoExec \notin Executions
  PROVE  Spec => []HoldingsInv
<1>1. Init => HoldingsInv
  BY DEF Init, HoldingsInv, TypeOK, InHand, Phases
<1>2. HoldingsInv /\ [Next]_vars => HoldingsInv'
  BY StepInv
<1>3. QED
  BY <1>1, <1>2, PTL DEF Spec

(* One at a time is enough: with the rules of Holdings, nobody loses or    *)
(* gains a directory or a session by what is done for another execution.   *)
THEOREM HoldingsApart ==
  ASSUME NoExec \notin Executions
  PROVE  Spec => OnlyOwn
<1> DEFINE Own == /\ \A e \in dirs \ dirs' : holder = NoExec \/ (phase = "removing" /\ holder = e)
                  /\ \A e \in dirs' \ dirs : e \in live \/ (phase = "using" /\ holder = e)
                  /\ \A e \in live' \ live : phase = "using" /\ holder = e
<1>1. HoldingsInv /\ [Next]_vars => [Own]_vars
  <2> SUFFICES ASSUME HoldingsInv, Next PROVE Own
    OBVIOUS
  <2>1. ASSUME NEW e \in Executions, Take(e) \/ Write(e) \/ SessionEnds(e)
        PROVE  Own
    BY <2>1 DEF Take, Write, SessionEnds
  <2>2. CASE MakeDirectory \/ OpenSession \/ BeginRemoval
    BY <2>2 DEF MakeDirectory, OpenSession, BeginRemoval
  <2>3. CASE RemoveDirectory \/ PutDown
    BY <2>3 DEF RemoveDirectory, PutDown
  <2>4. CASE Sweep \/ Restart
    BY <2>4 DEF HoldingsInv, InHand, Sweep, Restart
  <2>5. CASE Crash
    BY <2>5 DEF Crash
  <2> HIDE DEF Own
  <2>6. QED
    BY <2>1, <2>2, <2>3, <2>4, <2>5 DEF Next
<1> HIDE DEF Own
<1>2. Spec => [][Own]_vars
  BY <1>1, HoldingsInvariant, PTL DEF Spec
<1>3. QED
  BY <1>2 DEF Own, OnlyOwn
===============================================================================
