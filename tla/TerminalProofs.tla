---------------------------- MODULE TerminalProofs ----------------------------
(***************************************************************************)
(* Theorems about Terminal, for all executions, ids and roles.             *)
(***************************************************************************)
EXTENDS Terminal, FiniteSetTheorems, SequenceTheorems, TLAPS

(* What a name keeps of an id, and a name, are strings of characters. *)
LEMMA KeptType ==
  ASSUME NEW e \in Executions
  PROVE  Short(IdOf[e]) \in Seq(Characters)
<1>1. IdOf[e] \in Seq(Characters)
  BY TerminalAssumption DEF TerminalAssumption
<1>2. ASSUME NEW s \in Seq(Characters)
      PROVE  Stripped(s) \in Seq(Characters)
  <2> DEFINE dashes == {i \in 1..Len(s) : \A j \in 1..i : s[j] = Dash}
  <2>1. IsFiniteSet(dashes)
    <3>1. IsFiniteSet(1..Len(s))
      BY FS_Interval
    <3>2. dashes \subseteq 1..Len(s)
      OBVIOUS
    <3>3. QED
      BY <3>1, <3>2, FS_Subset
  <2>2. Cardinality(dashes) \in Nat
    BY <2>1, FS_CardinalityType
  <2>3. SubSeq(s, Cardinality(dashes) + 1, Len(s)) \in Seq(Characters)
    <3>1. \A i \in Cardinality(dashes) + 1..Len(s) : s[i] \in Characters
      BY <2>2
    <3>2. Cardinality(dashes) + 1 \in Int /\ Len(s) \in Int
      BY <2>2
    <3> HIDE DEF dashes
    <3>3. QED
      BY <3>1, <3>2, SubSeqProperties
  <2>4. QED
    BY <2>3 DEF Stripped
<1>3. CASE Len(IdOf[e]) > ShortLength
  <2>1. SubSeq(IdOf[e], Len(IdOf[e]) - ShortLength + 1, Len(IdOf[e])) \in Seq(Characters)
    BY <1>1, <1>3, TerminalAssumption DEF TerminalAssumption
  <2>2. QED
    BY <1>2, <1>3, <2>1 DEF Short
<1>4. CASE ~(Len(IdOf[e]) > ShortLength)
  BY <1>1, <1>4 DEF Short
<1>5. QED
  BY <1>3, <1>4

LEMMA NameType ==
  ASSUME NEW e \in Executions
  PROVE  NameOf(e) \in Seq(Characters)
BY KeptType, TerminalAssumption DEF TerminalAssumption, NameOf

LEMMA ApartDistinct ==
  ASSUME NEW e \in Executions, NEW o \in Executions, Apart(e), NameOf(o) = NameOf(e)
  PROVE  o = e
<1>1. NameOf(e) \in Seq(Characters)
  BY NameType
<1>2. Begins(NameOf(e), NameOf(e))
  BY <1>1 DEF Begins
<1>3. QED
  BY <1>2 DEF Apart

(* A session found by an execution's exact name is the only one found. *)
LEMMA TargetIsLive ==
  ASSUME NEW n
  PROVE  /\ Target(n) \subseteq Live
         /\ n \in Live => Target(n) = {n}
<1>1. CASE n \in Live
  BY <1>1 DEF Target
<1>2. CASE n \notin Live
  BY <1>2 DEF Target
<1>3. QED
  BY <1>1, <1>2

LEMMA LivePane ==
  ASSUME TypeOK, NEW n \in Live
  PROVE  n \in Names /\ pane[n] \in Panes
BY DEF Live, TypeOK

(* Where names are apart, -t means the execution's own session or none. *)
LEMMA ApartTarget ==
  ASSUME TypeOK, OwnersKnown, exec \in Executions, Apart(exec)
  PROVE  /\ Target(NameOf(exec)) = Live \cap {NameOf(exec)}
         /\ \A n \in Target(NameOf(exec)) : pane[n].owner = exec
<1>1. ASSUME NEW n \in Live, Begins(n, NameOf(exec))
      PROVE  pane[n].owner = exec /\ n = NameOf(exec)
  <2>1. pane[n].owner \in Executions /\ NameOf(pane[n].owner) = n
    BY <1>1, LivePane DEF OwnersKnown, Panes
  <2>2. QED
    BY <1>1, <2>1 DEF Apart
<1>2. CASE NameOf(exec) \in Live
  <2>1. Begins(NameOf(exec), NameOf(exec))
    BY NameType DEF Begins
  <2>2. QED
    BY <1>1, <1>2, <2>1, TargetIsLive
<1>3. CASE NameOf(exec) \notin Live
  <2>1. {m \in Live : Begins(m, NameOf(exec))} = {}
    BY <1>1, <1>3
  <2>2. QED
    BY <1>3, <2>1 DEF Target
<1>4. QED
  BY <1>2, <1>3
-------------------------------------------------------------------------------
(* Types and owners, whatever the names *)

BaseInv == TypeOK /\ HeldInHand /\ OwnersKnown

LEMMA InitInv == Init => TerminalInv
<1> SUFFICES ASSUME Init PROVE TerminalInv
  OBVIOUS
<1> USE TerminalAssumption DEF TerminalAssumption, Init
<1>1. Live = {}
  BY DEF Live
<1>2. TypeOK
  BY DEF TypeOK, Places
<1>3. HeldInHand /\ OwnersKnown /\ PaneInHand
  BY <1>1 DEF HeldInHand, OwnersKnown, PaneInHand
<1>4. OwnLinesInOrder /\ HandoffMeetsClient
  BY <1>1 DEF OwnLinesInOrder, HandoffMeetsClient
<1>5. QED
  BY <1>2, <1>3, <1>4 DEF TerminalInv

(* What typing and entering make of a pane. *)
LEMMA WokenType ==
  ASSUME NEW p \in Panes
  PROVE  Woken(p.client) \in {"none", "starting", "ready", "gone", "failed"}
BY DEF Panes, Woken

LEMMA AsTextPane ==
  ASSUME NEW p \in Panes, NEW text \in Seq(Texts)
  PROVE  /\ AsText(p, text) \in Panes
         /\ AsText(p, text).owner = p.owner /\ AsText(p, text).take = p.take
         /\ AsText(p, text).typed = p.typed \o text
         /\ AsText(p, text).lines = p.lines /\ AsText(p, text).client = p.client
<1> DEFINE t == p.typed \o text
<1>1. t \in Seq(Texts)
  BY DEF Panes
<1>2. AsText(p, text) = [p EXCEPT !.typed = t]
  BY DEF AsText
<1> HIDE DEF t
<1>3. /\ [p EXCEPT !.typed = t] \in Panes
      /\ AsText(p, text).owner = p.owner /\ AsText(p, text).take = p.take
      /\ AsText(p, text).typed = t
      /\ AsText(p, text).lines = p.lines /\ AsText(p, text).client = p.client
  BY <1>1, <1>2 DEF Panes
<1>4. QED
  BY <1>2, <1>3 DEF t

(* The pieces a newline cuts a text into. *)
Pieces(typed, text) ==
  [i \in 1..Len(text) |-> IF i = 1 THEN typed \o <<text[1]>> ELSE <<text[i]>>]

LEMMA PiecesType ==
  ASSUME NEW typed \in Seq(Texts), NEW text \in Seq(Texts)
  PROVE  Pieces(typed, text) \in Seq(Seq(Texts)) /\ Len(Pieces(typed, text)) = Len(text)
<1>1. ASSUME NEW i \in 1..Len(text)
      PROVE  (IF i = 1 THEN typed \o <<text[1]>> ELSE <<text[i]>>) \in Seq(Texts)
  <2>1. text[i] \in Texts
    OBVIOUS
  <2>2. <<text[i]>> \in Seq(Texts)
    BY <2>1
  <2>3. QED
    BY <2>2
<1>2. Pieces(typed, text) \in [1..Len(text) -> Seq(Texts)]
  BY <1>1 DEF Pieces
<1>3. Len(text) \in Nat
  OBVIOUS
<1>4. QED
  BY <1>2, <1>3

LEMMA AsLinesPane ==
  ASSUME NEW p \in Panes, NEW text \in Seq(Texts), Len(text) > 1
  PROVE  /\ AsLines(p, text) \in Panes
         /\ AsLines(p, text).owner = p.owner /\ AsLines(p, text).take = p.take
         /\ AsLines(p, text).typed = <<text[Len(text)]>>
         /\ AsLines(p, text).lines =
              p.lines \o SubSeq(Pieces(p.typed, text), 1, Len(text) - 1)
         /\ AsLines(p, text).client = Woken(p.client)
<1> DEFINE pieces == Pieces(p.typed, text)
           l == p.lines \o SubSeq(pieces, 1, Len(text) - 1)
           t == pieces[Len(text)]
           c == Woken(p.client)
<1>1. pieces \in Seq(Seq(Texts)) /\ Len(pieces) = Len(text) /\ Len(text) \in Nat
  BY PiecesType DEF Panes
<1>2. l \in Seq(Seq(Texts))
  <2>1. \A i \in 1..Len(text) - 1 : pieces[i] \in Seq(Texts)
    BY <1>1
  <2>2. SubSeq(pieces, 1, Len(text) - 1) \in Seq(Seq(Texts))
    BY <1>1, <2>1, SubSeqProperties
  <2>3. p.lines \in Seq(Seq(Texts))
    BY DEF Panes
  <2>4. QED
    BY <2>2, <2>3
<1>3. t = <<text[Len(text)]>>
  <2>0. PICK k \in Nat : k = Len(text)
    BY <1>1
  <2>1. Len(text) \in 1..Len(text) /\ Len(text) # 1
    <3>1. k > 1
      BY <2>0
    <3>2. k \in 1..k /\ k # 1
      BY <3>1
    <3>3. QED
      BY <2>0, <3>2
  <2>2. pieces[Len(text)] = IF Len(text) = 1 THEN p.typed \o <<text[1]>> ELSE <<text[Len(text)]>>
    BY <2>1 DEF Pieces
  <2>3. QED
    BY <2>1, <2>2
<1>4. t \in Seq(Texts)
  BY <1>1
<1>5. c \in {"none", "starting", "ready", "gone", "failed"}
  BY WokenType
<1>6. AsLines(p, text) = [p EXCEPT !.lines = l, !.typed = t, !.client = c]
  BY DEF AsLines, Pieces
<1> HIDE DEF l, t, c
<1>7. /\ [p EXCEPT !.lines = l, !.typed = t, !.client = c] \in Panes
      /\ AsLines(p, text).owner = p.owner /\ AsLines(p, text).take = p.take
      /\ AsLines(p, text).typed = t /\ AsLines(p, text).lines = l
      /\ AsLines(p, text).client = c
  BY <1>2, <1>4, <1>5, <1>6 DEF Panes
<1>8. QED
  BY <1>3, <1>6, <1>7 DEF l, c

LEMMA TypedPane ==
  ASSUME TypeOK, NEW text \in Seq(Texts), Typed(text)
  PROVE  \E n \in Target(NameOf(exec)) :
           /\ n \in Live
           /\ \A m \in Names \ {n} : pane'[m] = pane[m]
           /\ \/ pane'[n] = AsText(pane[n], text)
              \/ Len(text) > 1 /\ pane'[n] = AsLines(pane[n], text)
           /\ pane' = [pane EXCEPT ![n] = pane'[n]]
           /\ pane'[n] \in Panes /\ pane'[n].owner = pane[n].owner
<1>1. PICK n \in Target(NameOf(exec)) :
        \/ pane' = [pane EXCEPT ![n] = AsText(pane[n], text)]
        \/ Len(text) > 1 /\ pane' = [pane EXCEPT ![n] = AsLines(pane[n], text)]
  BY DEF Typed
<1>2. n \in Live /\ n \in Names /\ pane[n] \in Panes
  BY TargetIsLive, LivePane
<1>3. /\ \/ pane'[n] = AsText(pane[n], text)
         \/ Len(text) > 1 /\ pane'[n] = AsLines(pane[n], text)
      /\ pane' = [pane EXCEPT ![n] = pane'[n]]
      /\ \A m \in Names \ {n} : pane'[m] = pane[m]
  BY <1>1, <1>2 DEF TypeOK
<1>4. pane'[n] \in Panes /\ pane'[n].owner = pane[n].owner
  <2>1. CASE pane'[n] = AsText(pane[n], text)
    BY <1>2, <2>1, AsTextPane
  <2>2. CASE Len(text) > 1 /\ pane'[n] = AsLines(pane[n], text)
    BY <1>2, <2>2, AsLinesPane
  <2>3. QED
    BY <1>3, <2>1, <2>2
<1>5. QED
  BY <1>2, <1>3, <1>4

LEMMA AfterEnterPane ==
  ASSUME NEW p \in Panes
  PROVE  /\ AfterEnter(p) \in Panes
         /\ AfterEnter(p).owner = p.owner /\ AfterEnter(p).take = p.take
         /\ AfterEnter(p).typed = <<>>
         /\ AfterEnter(p).lines = Append(p.lines, p.typed)
         /\ AfterEnter(p).client = Woken(p.client)
<1> DEFINE l == Append(p.lines, p.typed)
           c == Woken(p.client)
<1>1. l \in Seq(Seq(Texts))
  BY DEF Panes
<1>2. c \in {"none", "starting", "ready", "gone", "failed"}
  BY WokenType
<1>3. <<>> \in Seq(Texts)
  OBVIOUS
<1>4. AfterEnter(p) = [p EXCEPT !.lines = l, !.typed = <<>>, !.client = c]
  BY DEF AfterEnter
<1> HIDE DEF l, c
<1>5. /\ [p EXCEPT !.lines = l, !.typed = <<>>, !.client = c] \in Panes
      /\ AfterEnter(p).owner = p.owner /\ AfterEnter(p).take = p.take
      /\ AfterEnter(p).typed = <<>> /\ AfterEnter(p).lines = l
      /\ AfterEnter(p).client = c
  BY <1>1, <1>2, <1>3, <1>4 DEF Panes
<1>6. QED
  BY <1>4, <1>5 DEF l, c

LEMMA EnteredPane ==
  ASSUME TypeOK, Entered
  PROVE  \E n \in Target(NameOf(exec)) :
           /\ n \in Live
           /\ pane' = [pane EXCEPT ![n] = AfterEnter(pane[n])]
           /\ pane'[n] = AfterEnter(pane[n])
           /\ pane'[n] \in Panes
<1>1. PICK n \in Target(NameOf(exec)) :
        pane' = [pane EXCEPT ![n] = AfterEnter(pane[n])]
  BY DEF Entered
<1>2. n \in Live /\ n \in Names /\ pane[n] \in Panes
  BY TargetIsLive, LivePane
<1>3. pane'[n] = AfterEnter(pane[n])
  BY <1>1, <1>2 DEF TypeOK
<1>4. QED
  BY <1>1, <1>2, <1>3, AfterEnterPane

LEMMA TextType ==
  ASSUME TypeOK, exec \in Executions
  PROVE  /\ Text("command") \in Seq(Texts) /\ Len(Text("command")) = 1
         /\ Text("handoff") \in Seq(Texts) /\ Len(Text("handoff")) = HandoffLines
<1>1. \A i \in Nat, what \in {"command", "handoff"} :
        [by |-> exec, take |-> taken[exec], what |-> what, line |-> i] \in Texts
  BY DEF TypeOK, Texts
<1>2. HandoffLines \in Nat /\ 1..HandoffLines \subseteq Nat /\ 1..1 \subseteq Nat
  BY TerminalAssumption DEF TerminalAssumption
<1>3. Text("command") \in [1..1 -> Texts]
  BY <1>1, <1>2 DEF Text, TextFor
<1>4. Text("handoff") \in [1..HandoffLines -> Texts]
  BY <1>1, <1>2 DEF Text, TextFor
<1>0. \A k \in Nat : \A f \in [1..k -> Texts] : f \in Seq(Texts) /\ Len(f) = k
  OBVIOUS
<1>5. Text("command") \in Seq(Texts) /\ Len(Text("command")) = 1
  BY <1>0, <1>3, 1 \in Nat
<1>6. Text("handoff") \in Seq(Texts) /\ Len(Text("handoff")) = HandoffLines
  BY <1>0, <1>2, <1>4
<1>7. QED
  BY <1>5, <1>6

LEMMA BaseStep ==
  ASSUME BaseInv, [Next]_vars
  PROVE  BaseInv'
<1> USE TerminalAssumption
    DEF TerminalAssumption, BaseInv, HeldInHand, OwnersKnown, threadVars, Step
<1>0. ASSUME NEW n \in Live
      PROVE  n \in Names /\ pane[n] \in Panes /\ pane[n] # NoPane
  BY <1>0, LivePane DEF Live
<1>1. CASE \E e \in Executions : TakeUp(e)
  <2>1. PICK e \in Executions : TakeUp(e)
    BY <1>1
  <2>2. taken' \in [Executions -> Nat]
    BY <2>1 DEF TakeUp, TypeOK
  <2>3. TypeOK'
    BY <2>1, <2>2 DEF TakeUp, TypeOK, Places
  <2>4. Live' = Live
    BY <2>1 DEF TakeUp, Live
  <2>5. OwnersKnown'
    BY <1>0, <2>1, <2>4 DEF TakeUp, Panes
  <2>6. QED
    BY <2>1, <2>3, <2>5 DEF TakeUp
<1>2. CASE Prepared \/ NameIsFree \/ SeesMarker \/ RoleEnds \/ Fails \/ Restart
  BY <1>2 DEF Prepared, NameIsFree, SeesMarker, RoleEnds, Fails, Restart, TypeOK,
              Places, Live
<1>3. CASE NewSession
  <2> DEFINE fresh == [owner |-> exec, take |-> taken[exec], typed |-> <<>>,
                       lines |-> <<>>, client |-> "none"]
  <2>1. exec \in Executions
    BY <1>3 DEF NewSession, TypeOK
  <2>2. fresh \in Panes /\ NameOf(exec) \in Names
    BY <2>1 DEF TypeOK, Panes, Names
  <2>3. pane' = [pane EXCEPT ![NameOf(exec)] = fresh]
    BY <1>3 DEF NewSession
  <2> HIDE DEF fresh
  <2>4. TypeOK'
    BY <1>3, <2>2, <2>3 DEF NewSession, TypeOK, Places
  <2>5. OwnersKnown'
    <3> SUFFICES ASSUME NEW n \in Live'
                 PROVE  /\ NameOf(pane'[n].owner) = n
                        /\ pane'[n].owner \in disturbed' \cup {exec'}
      OBVIOUS
    <3>1. CASE n = NameOf(exec)
      BY <1>3, <2>2, <2>3, <3>1 DEF NewSession, TypeOK, fresh
    <3>2. CASE n # NameOf(exec)
      BY <1>3, <2>3, <3>2 DEF NewSession, TypeOK, Live
    <3>3. QED
      BY <3>1, <3>2
  <2>6. QED
    BY <1>3, <2>4, <2>5 DEF NewSession
<1>4. CASE TypeCommand \/ TypeHandoff
  <2>1. exec \in Executions
    BY <1>4 DEF TypeCommand, TypeHandoff, TypeOK
  <2>2. PICK text \in Seq(Texts) : Typed(text)
    BY <1>4, <2>1, TextType DEF TypeCommand, TypeHandoff
  <2>3. PICK n \in Target(NameOf(exec)) :
           /\ n \in Live
           /\ pane' = [pane EXCEPT ![n] = pane'[n]]
           /\ pane'[n] \in Panes /\ pane'[n].owner = pane[n].owner
    BY <2>2, TypedPane
  <2>4. pane'[n].owner = pane[n].owner
    BY <2>3
  <2>5. Live' \subseteq Live
    BY <2>3 DEF Live, TypeOK
  <2>6. TypeOK'
    BY <1>4, <2>3 DEF TypeCommand, TypeHandoff, TypeOK, Places
  <2>7. \A m \in Names : pane'[m].owner = pane[m].owner
    BY <2>3, <2>4 DEF TypeOK
  <2>8. OwnersKnown'
    BY <1>0, <1>4, <2>5, <2>7 DEF TypeCommand, TypeHandoff
  <2>9. QED
    BY <1>4, <2>6, <2>8 DEF TypeCommand, TypeHandoff
<1>5. CASE EnterCommand \/ EnterHandoff
  <2>1. Entered
    BY <1>5 DEF EnterCommand, EnterHandoff
  <2>2. PICK n \in Target(NameOf(exec)) :
           /\ n \in Live
           /\ pane' = [pane EXCEPT ![n] = AfterEnter(pane[n])]
           /\ pane'[n] = AfterEnter(pane[n])
           /\ pane'[n] \in Panes
    BY <2>1, EnteredPane
  <2>3. pane'[n].owner = pane[n].owner
    BY <1>0, <2>2, AfterEnterPane
  <2>4. Live' \subseteq Live
    BY <2>2 DEF Live, TypeOK
  <2>5. TypeOK'
    BY <1>5, <2>2 DEF EnterCommand, EnterHandoff, TypeOK, Places
  <2>6. \A m \in Names : pane'[m].owner = pane[m].owner
    BY <2>2, <2>3 DEF TypeOK
  <2>7. OwnersKnown'
    BY <1>0, <1>5, <2>4, <2>6 DEF EnterCommand, EnterHandoff
  <2>8. QED
    BY <1>5, <2>5, <2>7 DEF EnterCommand, EnterHandoff
<1>6. CASE Kill
  <2>1. exec \in Executions
    BY <1>6 DEF Kill, TypeOK
  <2>2. TypeOK'
    BY <1>6 DEF Kill, TypeOK, Places
  <2>3. ASSUME NEW n \in Live'
        PROVE  n \in Live /\ n \notin Target(NameOf(exec)) /\ pane'[n] = pane[n]
    BY <1>6, <2>3 DEF Kill, Live
  <2>4. ASSUME NEW n \in Live'
        PROVE  pane[n].owner # exec
    BY <2>3, TargetIsLive, <2>4
  <2>5. exec' = NoExec /\ at' = "idle" /\ disturbed' = disturbed
    BY <1>6 DEF Kill
  <2>6. HeldInHand'
    BY <2>5
  <2>7. OwnersKnown'
    BY <2>3, <2>4, <2>5
  <2>8. QED
    BY <2>2, <2>6, <2>7
<1>7. CASE KillFails
  <2>1. exec \in Executions
    BY <1>7 DEF KillFails, TypeOK
  <2>2. \A n \in Live : pane[n].owner \in Executions
    BY <1>0 DEF Panes
  <2>3. TypeOK'
    BY <1>7, <2>2 DEF KillFails, TypeOK, Places
  <2>4. Live' = Live
    BY <1>7 DEF KillFails, Live
  <2>5. \A n \in Live : pane[n].owner \in disturbed'
    BY <1>7 DEF KillFails
  <2>6. OwnersKnown'
    BY <1>7, <2>4, <2>5 DEF KillFails
  <2>7. QED
    BY <1>7, <2>3, <2>6 DEF KillFails
<1>8. CASE \E n \in Names : ClientComesUp(n)
  <2>1. PICK n \in Live, c \in {"ready", "failed", "gone"} :
          /\ pane' = [pane EXCEPT ![n].client = c]
          /\ UNCHANGED <<at, threadVars, crashes, disturbed>>
    BY <1>8 DEF ClientComesUp
  <2>2. pane'[n] \in Panes /\ pane'[n].owner = pane[n].owner
    BY <1>0, <2>1 DEF Panes, TypeOK
  <2>3. TypeOK'
    BY <2>1, <2>2 DEF TypeOK
  <2>4. Live' \subseteq Live
    BY <2>1 DEF Live, TypeOK
  <2>5. \A m \in Names : pane'[m].owner = pane[m].owner
    BY <2>1, <2>2 DEF TypeOK
  <2>6. OwnersKnown'
    BY <1>0, <2>1, <2>4, <2>5
  <2>7. QED
    BY <2>1, <2>3, <2>6
<1>9. CASE \E n \in Names : SessionEnds(n)
  BY <1>9 DEF SessionEnds, TypeOK, Live
<1>10. CASE Crash
  <2>1. TypeOK'
    BY <1>10 DEF Crash, TypeOK, Places
  <2>2. Live' \subseteq Live /\ \A n \in Live' : pane'[n] = pane[n]
    BY <1>10 DEF Crash, Live
  <2>3. \A n \in Live : pane[n].owner \in Executions
    BY <1>0 DEF Panes
  <2>4. QED
    BY <1>10, <2>1, <2>2, <2>3 DEF Crash
<1>11. CASE UNCHANGED vars
  BY <1>11 DEF vars, TypeOK, Live
<1> HIDE DEF BaseInv
<1>12. QED
  BY <1>1, <1>2, <1>3, <1>4, <1>5, <1>6, <1>7, <1>8, <1>9, <1>10, <1>11
     DEF Next, WorkerStep
-------------------------------------------------------------------------------
(* What is entered, where names are apart *)

(* OwnLinesInOrder and HandoffMeetsClient, of one pane. *)
Served(p) ==
  /\ p.lines \in
       {<<>>, <<TextOf(p, "command")>>,
        <<TextOf(p, "command"), TextOf(p, "handoff")>>,
        LineByLine(p, HandoffLines - 1), LineByLine(p, HandoffLines)}
  /\ Len(p.lines) > 1 => p.client \in {"ready", "gone"}

AllServed == \A n \in Live : Served(pane[n])

LEMMA ServedIsBoth == AllServed <=> OwnLinesInOrder /\ HandoffMeetsClient
BY DEF AllServed, Served, OwnLinesInOrder, HandoffMeetsClient

(* Places where nothing is known of the pane. *)
LEMMA OtherPlaces ==
  ASSUME at \notin {"launch", "enterLaunch", "ready", "inject", "enterInject"}
  PROVE  PaneInHand
BY DEF PaneInHand

(* A step that only takes sessions away or changes one that stays served. *)
LEMMA StillServed ==
  ASSUME AllServed, NEW m,
         \A n \in Live' : n = m \/ (n \in Live /\ pane'[n] = pane[n]),
         m \in Live' => Served(pane'[m])
  PROVE  AllServed'
BY DEF AllServed

LEMMA AppendOne ==
  ASSUME NEW a, NEW b
  PROVE  Append(<<a>>, b) = <<a, b>>
<1> DEFINE S == {a, b}
<1>1. <<a>> \in Seq(S) /\ <<a, b>> \in Seq(S) /\ b \in S
  OBVIOUS
<1>2. /\ Append(<<a>>, b) \in Seq(S)
      /\ Len(Append(<<a>>, b)) = Len(<<a>>) + 1
      /\ \A i \in 1..Len(<<a>>) : Append(<<a>>, b)[i] = <<a>>[i]
      /\ Append(<<a>>, b)[Len(<<a>>) + 1] = b
  BY <1>1, AppendProperties
<1>3. Len(<<a>>) = 1 /\ <<a>>[1] = a /\ Len(<<a, b>>) = 2 /\ <<a, b>>[1] = a /\ <<a, b>>[2] = b
  OBVIOUS
<1>4. \A i \in 1..Len(<<a, b>>) : Append(<<a>>, b)[i] = <<a, b>>[i]
  BY <1>2, <1>3
<1>5. Len(Append(<<a>>, b)) = Len(<<a, b>>)
  BY <1>2, <1>3
<1> HIDE DEF S
<1>6. QED
  BY <1>1, <1>2, <1>4, <1>5, SeqEqual

(* Panes of one take-up are given the same texts. *)
LEMMA SameTexts ==
  ASSUME NEW p, NEW q, q.owner = p.owner, q.take = p.take
  PROVE  /\ \A what : TextOf(q, what) = TextOf(p, what)
         /\ \A k : LineByLine(q, k) = LineByLine(p, k)
         /\ q.lines = p.lines /\ (p.client \in {"ready", "gone"} => q.client \in {"ready", "gone"})
              => (Served(p) => Served(q))
<1>1. \A what : TextOf(q, what) = TextOf(p, what)
  BY DEF TextOf
<1>2. \A k : LineByLine(q, k) = LineByLine(p, k)
  BY <1>1 DEF LineByLine
<1>3. QED
  BY <1>1, <1>2 DEF Served

(* The command entered, then the lines of the handoff but the last. *)
LEMMA CutIntoLines ==
  ASSUME NEW p \in Panes, p.typed = <<>>, p.lines = <<TextOf(p, "command")>>,
         TextOf(p, "command") \in Seq(Texts), TextOf(p, "handoff") \in Seq(Texts),
         Len(TextOf(p, "handoff")) = HandoffLines, HandoffLines > 1
  PROVE  AsLines(p, TextOf(p, "handoff")).lines = LineByLine(p, HandoffLines - 1)
<1> DEFINE c == TextOf(p, "command")
           h == TextOf(p, "handoff")
           q == SubSeq(Pieces(p.typed, h), 1, HandoffLines - 1)
           L == LineByLine(p, HandoffLines - 1)
<1>1. HandoffLines \in Nat
  BY TerminalAssumption DEF TerminalAssumption
<1>2. AsLines(p, h).lines = <<c>> \o q
  BY AsLinesPane
<1>3. \A i \in 1..HandoffLines : h[i] \in Texts
  OBVIOUS
<1>4. \A i \in 1..HandoffLines : Pieces(p.typed, h)[i] = <<h[i]>>
  <2>1. <<>> \o <<h[1]>> = <<h[1]>>
    BY <1>1, <1>3
  <2>2. QED
    BY <2>1 DEF Pieces
<1>5. Pieces(p.typed, h) \in Seq(Seq(Texts)) /\ Len(Pieces(p.typed, h)) = HandoffLines
  BY PiecesType DEF Panes
<1>6. /\ q \in Seq(Seq(Texts)) /\ Len(q) = HandoffLines - 1
      /\ \A i \in 1..HandoffLines - 1 : q[i] = <<h[i]>>
  <2> DEFINE P == Pieces(p.typed, h)
  <2>1. \A i \in 1..HandoffLines - 1 : P[i] = <<h[i]>> /\ P[i] \in Seq(Texts)
    BY <1>1, <1>4, <1>5
  <2>2. 1 \in Int /\ HandoffLines - 1 \in Int
    BY <1>1
  <2> HIDE DEF P
  <2>3. /\ SubSeq(P, 1, HandoffLines - 1) \in Seq(Seq(Texts))
        /\ Len(SubSeq(P, 1, HandoffLines - 1)) = HandoffLines - 1
        /\ \A i \in 1..HandoffLines - 1 : SubSeq(P, 1, HandoffLines - 1)[i] = P[i]
    BY <1>1, <2>1, <2>2, SubSeqProperties
  <2>4. QED
    BY <2>1, <2>3 DEF P
<1>7. <<c>> \in Seq(Seq(Texts)) /\ Len(<<c>>) = 1 /\ <<c>>[1] = c
  OBVIOUS
<1> HIDE DEF c, h, q
<1>8. /\ <<c>> \o q \in Seq(Seq(Texts)) /\ Len(<<c>> \o q) = Len(<<c>>) + Len(q)
      /\ \A i \in 1..Len(<<c>>) + Len(q) :
           (<<c>> \o q)[i] = IF i <= Len(<<c>>) THEN <<c>>[i] ELSE q[i - Len(<<c>>)]
  BY <1>6, <1>7, ConcatProperties
<1>9. Len(<<c>> \o q) = HandoffLines
  BY <1>1, <1>6, <1>7, <1>8
<1>10. L = [i \in 1..HandoffLines |-> IF i = 1 THEN c ELSE <<h[i - 1]>>]
  BY <1>1 DEF LineByLine, c, h
<1>11. ASSUME NEW i \in 1..HandoffLines PROVE (<<c>> \o q)[i] = L[i]
  <2>1. CASE i = 1
    BY <1>1, <1>6, <1>7, <1>8, <1>10, <2>1
  <2>2. CASE i # 1
    <3>1. i - 1 \in 1..HandoffLines - 1 /\ ~(i <= Len(<<c>>)) /\ i \in 1..Len(<<c>>) + Len(q)
      BY <1>1, <1>6, <1>7, <2>2
    <3>2. (<<c>> \o q)[i] = q[i - 1]
      BY <1>7, <1>8, <3>1
    <3>3. QED
      BY <1>6, <1>10, <2>2, <3>1, <3>2
  <2>3. QED
    BY <2>1, <2>2
<1>12. L \in Seq(Seq(Texts)) /\ Len(L) = HandoffLines
  <2>1. ASSUME NEW i \in 1..HandoffLines
        PROVE  (IF i = 1 THEN c ELSE <<h[i - 1]>>) \in Seq(Texts)
    <3>1. CASE i = 1
      BY <3>1 DEF c
    <3>2. CASE i # 1
      <4>1. i - 1 \in 1..HandoffLines
        BY <1>1, <3>2
      <4>2. h[i - 1] \in Texts
        BY <1>3, <4>1 DEF h
      <4>3. QED
        BY <3>2, <4>2
    <3>3. QED
      BY <3>1, <3>2
  <2>2. L \in [1..HandoffLines -> Seq(Texts)]
    BY <1>10, <2>1
  <2>3. QED
    BY <1>1, <2>2
<1> HIDE DEF L
<1>13. <<c>> \o q = L
  BY <1>8, <1>9, <1>11, <1>12, SeqEqual
<1>14. QED
  BY <1>2, <1>13 DEF c, h, q, L

(* ... and the last with Enter. *)
LEMMA LastLine ==
  ASSUME NEW p \in Panes, TextOf(p, "command") \in Seq(Texts),
         TextOf(p, "handoff") \in Seq(Texts),
         Len(TextOf(p, "handoff")) = HandoffLines
  PROVE  Append(LineByLine(p, HandoffLines - 1), <<TextOf(p, "handoff")[HandoffLines]>>)
           = LineByLine(p, HandoffLines)
<1> DEFINE c == TextOf(p, "command")
           h == TextOf(p, "handoff")
           K == LineByLine(p, HandoffLines - 1)
           L == LineByLine(p, HandoffLines)
           z == <<h[HandoffLines]>>
<1>1. HandoffLines \in Nat /\ HandoffLines >= 1
  BY TerminalAssumption DEF TerminalAssumption
<1>2. K = [i \in 1..HandoffLines |-> IF i = 1 THEN c ELSE <<h[i - 1]>>]
  BY <1>1 DEF LineByLine
<1>3. L = [i \in 1..HandoffLines + 1 |-> IF i = 1 THEN c ELSE <<h[i - 1]>>]
  BY DEF LineByLine
<1>4. ASSUME NEW i \in 1..HandoffLines + 1
      PROVE  (IF i = 1 THEN c ELSE <<h[i - 1]>>) \in Seq(Texts)
  <2>1. CASE i = 1
    BY <2>1
  <2>2. CASE i # 1
    <3>1. i - 1 \in 1..HandoffLines
      BY <1>1, <2>2
    <3>2. h[i - 1] \in Texts
      BY <3>1
    <3>3. QED
      BY <2>2, <3>2
  <2>3. QED
    BY <2>1, <2>2
<1>5. z \in Seq(Texts)
  <2>1. HandoffLines \in 1..HandoffLines
    BY <1>1
  <2>2. h[HandoffLines] \in Texts
    BY <2>1
  <2>3. QED
    BY <2>2
<1> HIDE DEF c, h, K, L
<1>6. K \in Seq(Seq(Texts)) /\ Len(K) = HandoffLines
  <2>1. K \in [1..HandoffLines -> Seq(Texts)]
    BY <1>1, <1>2, <1>4
  <2>2. QED
    BY <1>1, <2>1
<1>7. L \in Seq(Seq(Texts)) /\ Len(L) = HandoffLines + 1
  <2>1. L \in [1..HandoffLines + 1 -> Seq(Texts)]
    BY <1>3, <1>4
  <2>2. HandoffLines + 1 \in Nat
    BY <1>1
  <2>3. QED
    BY <2>1, <2>2
<1> HIDE DEF z
<1>8. /\ Append(K, z) \in Seq(Seq(Texts)) /\ Len(Append(K, z)) = Len(K) + 1
      /\ \A i \in 1..Len(K) : Append(K, z)[i] = K[i]
      /\ Append(K, z)[Len(K) + 1] = z
  BY <1>5, <1>6, AppendProperties
<1>9. ASSUME NEW i \in 1..HandoffLines + 1 PROVE Append(K, z)[i] = L[i]
  <2>1. CASE i \in 1..HandoffLines
    BY <1>2, <1>3, <1>6, <1>8, <2>1
  <2>2. CASE i = HandoffLines + 1
    BY <1>1, <1>3, <1>6, <1>8, <2>2 DEF z
  <2>3. i \in 1..HandoffLines \/ i = HandoffLines + 1
    BY <1>1
  <2>4. QED
    BY <2>1, <2>2, <2>3
<1>10. Append(K, z) = L
  BY <1>6, <1>7, <1>8, <1>9, SeqEqual
<1>11. QED
  BY <1>10 DEF K, L, z, h

LEMMA OwnStep ==
  ASSUME BaseInv, PaneInHand, AllServed, NamesApart, [Next]_vars
  PROVE  PaneInHand' /\ AllServed'
<1> DEFINE own == NameOf(exec)
<1> USE TerminalAssumption DEF TerminalAssumption, threadVars, Step
<1>0. TypeOK /\ HeldInHand /\ OwnersKnown
  BY DEF BaseInv
<1>1. CASE \/ \E e \in Executions : TakeUp(e)
           \/ Prepared \/ NameIsFree \/ RoleEnds \/ Fails \/ Restart \/ KillFails
  <2>1. at' \notin {"launch", "enterLaunch", "ready", "inject", "enterInject"}
    BY <1>1 DEF TakeUp, Prepared, NameIsFree, RoleEnds, Fails, Restart, KillFails
  <2>2. PaneInHand'
    BY <2>1 DEF PaneInHand
  <2>3. pane' = pane
    BY <1>1 DEF TakeUp, Prepared, NameIsFree, RoleEnds, Fails, Restart, KillFails
  <2>4. QED
    BY <2>2, <2>3 DEF AllServed, Live
<1>2. CASE SeesMarker
  <2>1. exec \in Executions
    BY <1>0, <1>2 DEF SeesMarker, TypeOK, HeldInHand
  <2>2. PICK n \in Target(own) : pane[n].client \in {"ready", "gone"}
    BY <1>2 DEF SeesMarker
  <2>3. n = own
    BY <1>0, <2>1, <2>2, ApartTarget DEF NamesApart
  <2>4. PaneInHand'
    BY <1>2, <2>1, <2>2, <2>3 DEF SeesMarker, PaneInHand, OwnPaneHolds, Live, Text
  <2>5. QED
    BY <1>2, <2>4 DEF SeesMarker, AllServed, Live
<1>3. CASE NewSession
  <2> DEFINE fresh == [owner |-> exec, take |-> taken[exec], typed |-> <<>>,
                       lines |-> <<>>, client |-> "none"]
  <2>1. exec \in Executions /\ own \in Names
    BY <1>0, <1>3 DEF NewSession, TypeOK, HeldInHand, Names
  <2>2. pane' = [pane EXCEPT ![own] = fresh]
    BY <1>3 DEF NewSession
  <2>3. pane'[own] = fresh
    BY <1>0, <2>1, <2>2 DEF TypeOK
  <2>4. Served(fresh)
    BY DEF Served
  <2>5. \A n \in Live' : n = own \/ (n \in Live /\ pane'[n] = pane[n])
    BY <1>0, <2>2 DEF Live, TypeOK
  <2>6. AllServed'
    BY <2>3, <2>4, <2>5, StillServed
  <2>7. PaneInHand'
    BY <1>3, <2>3 DEF NewSession, PaneInHand, OwnPaneHolds
  <2>8. QED
    BY <2>6, <2>7
<1>4. ASSUME NEW text \in Seq(Texts), Typed(text), exec \in Executions
      PROVE  /\ own \in Live
             /\ \/ pane'[own] = AsText(pane[own], text)
                \/ Len(text) > 1 /\ pane'[own] = AsLines(pane[own], text)
             /\ \A n \in Live' : n = own \/ (n \in Live /\ pane'[n] = pane[n])
             /\ pane[own] \in Panes
  <2>1. PICK n \in Target(own) :
           /\ n \in Live
           /\ \A m \in Names \ {n} : pane'[m] = pane[m]
           /\ \/ pane'[n] = AsText(pane[n], text)
              \/ Len(text) > 1 /\ pane'[n] = AsLines(pane[n], text)
    BY <1>0, <1>4, TypedPane
  <2>2. n = own
    BY <1>0, <1>4, <2>1, ApartTarget DEF NamesApart
  <2>3. pane[own] \in Panes /\ own \in Names
    BY <1>0, <2>1, <2>2, LivePane
  <2>4. QED
    BY <2>1, <2>2, <2>3 DEF Live
<1>a. exec \in Executions =>
        /\ Text("command") \in Seq(Texts) /\ Len(Text("command")) = 1
        /\ Text("handoff") \in Seq(Texts) /\ Len(Text("handoff")) = HandoffLines
  BY <1>0, TextType
<1>b. ASSUME NEW p, p.owner = exec, p.take = taken[exec]
      PROVE  TextOf(p, "command") = Text("command") /\ TextOf(p, "handoff") = Text("handoff")
  BY <1>b DEF TextOf, Text
<1>5. CASE TypeCommand
  <2>1. exec \in Executions /\ exec # NoExec
    BY <1>0, <1>5 DEF TypeCommand, TypeOK, HeldInHand
  <2>2. /\ own \in Live
        /\ pane'[own] = AsText(pane[own], Text("command"))
        /\ \A n \in Live' : n = own \/ (n \in Live /\ pane'[n] = pane[n])
        /\ pane[own] \in Panes
    <3>1. Typed(Text("command"))
      BY <1>5 DEF TypeCommand
    <3> DEFINE c == Text("command")
    <3>2. c \in Seq(Texts) /\ Len(c) = 1 /\ Typed(c)
      BY <1>a, <2>1, <3>1
    <3> HIDE DEF c
    <3>3. ~(Len(c) > 1)
      BY <3>2
    <3>4. /\ own \in Live
          /\ pane'[own] = AsText(pane[own], c)
          /\ \A n \in Live' : n = own \/ (n \in Live /\ pane'[n] = pane[n])
          /\ pane[own] \in Panes
      BY <1>4, <2>1, <3>2, <3>3
    <3>5. QED
      BY <3>4 DEF c
  <2>3. at = "launch" /\ at' = "enterLaunch" /\ UNCHANGED <<exec, taken>>
    BY <1>5 DEF TypeCommand
  <2>4. OwnPaneHolds(<<>>, <<>>, {"none"})
    BY <2>1, <2>2, <2>3 DEF PaneInHand
  <2>5. /\ pane'[own].owner = exec /\ pane'[own].take = taken[exec]
        /\ pane'[own].typed = <<>> \o Text("command")
        /\ pane'[own].lines = <<>> /\ pane'[own].client = "none"
    <3>1. /\ pane'[own].owner = pane[own].owner /\ pane'[own].take = pane[own].take
          /\ pane'[own].typed = pane[own].typed \o Text("command")
          /\ pane'[own].lines = pane[own].lines /\ pane'[own].client = pane[own].client
      <4>1. Text("command") \in Seq(Texts)
        BY <1>a, <2>1
      <4> DEFINE p == pane[own]
                 q == pane'[own]
                 t == Text("command")
      <4>2. p \in Panes /\ t \in Seq(Texts) /\ q = AsText(p, t)
        BY <2>2, <4>1
      <4> HIDE DEF p, q, t
      <4>3. /\ q.owner = p.owner /\ q.take = p.take /\ q.typed = p.typed \o t
            /\ q.lines = p.lines /\ q.client = p.client
        BY <4>2, AsTextPane
      <4>4. QED
        BY <4>3 DEF p, q, t
    <3>2. QED
      BY <2>4, <3>1 DEF OwnPaneHolds
  <2>6. pane'[own].typed = Text("command")
    BY <1>a, <2>1, <2>5
  <2>7. Served(pane'[own])
    BY <2>5 DEF Served
  <2>8. PaneInHand'
    BY <2>3, <2>5, <2>6 DEF PaneInHand, OwnPaneHolds, Text
  <2>9. QED
    BY <2>2, <2>7, <2>8, StillServed
<1>c. CASE TypeHandoff
  <2>1. exec \in Executions /\ exec # NoExec
    BY <1>0, <1>c DEF TypeHandoff, TypeOK, HeldInHand
  <2>2. /\ own \in Live
        /\ \/ pane'[own] = AsText(pane[own], Text("handoff"))
           \/ HandoffLines > 1 /\ pane'[own] = AsLines(pane[own], Text("handoff"))
        /\ \A n \in Live' : n = own \/ (n \in Live /\ pane'[n] = pane[n])
        /\ pane[own] \in Panes
    <3> DEFINE h == Text("handoff")
    <3>1. h \in Seq(Texts) /\ Len(h) = HandoffLines /\ Typed(h)
      BY <1>a, <1>c, <2>1 DEF TypeHandoff
    <3> HIDE DEF h
    <3>2. /\ own \in Live
          /\ \/ pane'[own] = AsText(pane[own], h)
             \/ HandoffLines > 1 /\ pane'[own] = AsLines(pane[own], h)
          /\ \A n \in Live' : n = own \/ (n \in Live /\ pane'[n] = pane[n])
          /\ pane[own] \in Panes
      BY <1>4, <2>1, <3>1
    <3>3. QED
      BY <3>2 DEF h
  <2>3. at = "inject" /\ at' = "enterInject" /\ UNCHANGED <<exec, taken>>
    BY <1>c DEF TypeHandoff
  <2>4. OwnPaneHolds(<<>>, <<Text("command")>>, {"ready", "gone"})
    BY <2>1, <2>2, <2>3 DEF PaneInHand
  <2>5. TextOf(pane[own], "command") = Text("command") /\ TextOf(pane[own], "handoff") = Text("handoff")
    BY <1>b, <2>4 DEF OwnPaneHolds
  <2>6. CASE pane'[own] = AsText(pane[own], Text("handoff"))
    <3>1. /\ pane'[own].owner = exec /\ pane'[own].take = taken[exec]
          /\ pane'[own].typed = <<>> \o Text("handoff")
          /\ pane'[own].lines = <<Text("command")>> /\ pane'[own].client \in {"ready", "gone"}
      <4>1. Text("handoff") \in Seq(Texts)
        BY <1>a, <2>1
      <4>2. /\ pane'[own].owner = pane[own].owner /\ pane'[own].take = pane[own].take
            /\ pane'[own].typed = pane[own].typed \o Text("handoff")
            /\ pane'[own].lines = pane[own].lines /\ pane'[own].client = pane[own].client
        <5> DEFINE p == pane[own]
                   q == pane'[own]
                   t == Text("handoff")
        <5>1. p \in Panes /\ t \in Seq(Texts) /\ q = AsText(p, t)
          BY <2>2, <2>6, <4>1
        <5> HIDE DEF p, q, t
        <5>2. /\ q.owner = p.owner /\ q.take = p.take /\ q.typed = p.typed \o t
              /\ q.lines = p.lines /\ q.client = p.client
          BY <5>1, AsTextPane
        <5>3. QED
          BY <5>2 DEF p, q, t
      <4>3. QED
        BY <2>4, <4>2 DEF OwnPaneHolds
    <3>2. pane'[own].typed = Text("handoff")
      BY <1>a, <2>1, <3>1
    <3>3. TextOf(pane'[own], "command") = Text("command")
      BY <1>b, <3>1
    <3>4. Served(pane'[own])
      BY <3>1, <3>3 DEF Served
    <3>5. PaneInHand'
      BY <2>3, <3>1, <3>2 DEF PaneInHand, OwnPaneHolds, Text
    <3>6. QED
      BY <2>2, <3>4, <3>5, StillServed
  <2>7. CASE HandoffLines > 1 /\ pane'[own] = AsLines(pane[own], Text("handoff"))
    <3>1. /\ pane'[own].owner = exec /\ pane'[own].take = taken[exec]
          /\ pane'[own].typed = <<Text("handoff")[HandoffLines]>>
          /\ pane'[own].client = Woken(pane[own].client)
      <4>1. Text("handoff") \in Seq(Texts) /\ Len(Text("handoff")) = HandoffLines
        BY <1>a, <2>1
      <4>2. /\ pane'[own].owner = pane[own].owner /\ pane'[own].take = pane[own].take
            /\ pane'[own].typed = <<Text("handoff")[HandoffLines]>>
            /\ pane'[own].client = Woken(pane[own].client)
        <5> DEFINE p == pane[own]
                   q == pane'[own]
                   t == Text("handoff")
        <5>1. p \in Panes /\ t \in Seq(Texts) /\ Len(t) = HandoffLines
              /\ HandoffLines > 1 /\ q = AsLines(p, t)
          BY <2>2, <2>7, <4>1
        <5> HIDE DEF p, q, t
        <5>2. /\ q.owner = p.owner /\ q.take = p.take
              /\ q.typed = <<t[HandoffLines]>> /\ q.client = Woken(p.client)
          BY <5>1, AsLinesPane
        <5>3. QED
          BY <5>2 DEF p, q, t
      <4>3. QED
        BY <2>4, <4>2 DEF OwnPaneHolds
    <3>2. pane'[own].client \in {"ready", "gone"}
      BY <2>4, <3>1 DEF OwnPaneHolds, Woken
    <3>3. pane'[own].lines = LineByLine(pane[own], HandoffLines - 1)
      BY <1>a, <2>1, <2>2, <2>4, <2>5, <2>7, CutIntoLines DEF OwnPaneHolds
    <3>4. LineByLine(pane'[own], HandoffLines - 1) = LineByLine(pane[own], HandoffLines - 1)
      BY <2>4, <3>1, SameTexts DEF OwnPaneHolds
    <3>5. Served(pane'[own])
      BY <3>2, <3>3, <3>4 DEF Served
    <3>6. PaneInHand'
      BY <2>3, <3>1, <3>2, <3>3, <3>4 DEF PaneInHand, OwnPaneHolds, Text
    <3>7. QED
      BY <2>2, <3>5, <3>6, StillServed
  <2>8. QED
    BY <2>2, <2>6, <2>7
<1>6. ASSUME Entered, exec \in Executions
      PROVE  /\ own \in Live
             /\ pane'[own] = AfterEnter(pane[own])
             /\ \A n \in Live' : n = own \/ (n \in Live /\ pane'[n] = pane[n])
             /\ pane[own] \in Panes
  <2>1. PICK n \in Target(own) :
           /\ n \in Live
           /\ pane' = [pane EXCEPT ![n] = AfterEnter(pane[n])]
           /\ pane'[n] = AfterEnter(pane[n])
           /\ pane'[n] \in Panes
    BY <1>0, <1>6, EnteredPane
  <2>2. n = own
    BY <1>0, <1>6, <2>1, ApartTarget DEF NamesApart
  <2>3. pane[own] \in Panes
    BY <1>0, <2>1, <2>2, LivePane
  <2>4. QED
    BY <1>0, <2>1, <2>2, <2>3 DEF Live, TypeOK
<1>7. CASE EnterCommand
  <2>1. exec \in Executions /\ exec # NoExec
    BY <1>0, <1>7 DEF EnterCommand, TypeOK, HeldInHand
  <2>2. /\ own \in Live
        /\ pane'[own] = AfterEnter(pane[own])
        /\ \A n \in Live' : n = own \/ (n \in Live /\ pane'[n] = pane[n])
        /\ pane[own] \in Panes
    BY <1>6, <1>7, <2>1 DEF EnterCommand
  <2>3. at = "enterLaunch" /\ at' = "ready" /\ UNCHANGED <<exec, taken>>
    BY <1>7 DEF EnterCommand
  <2>4. OwnPaneHolds(Text("command"), <<>>, {"none"})
    BY <2>1, <2>2, <2>3 DEF PaneInHand
  <2>5. /\ pane'[own].owner = exec /\ pane'[own].take = taken[exec]
        /\ pane'[own].typed = <<>> /\ pane'[own].client = "starting"
        /\ pane'[own].lines = Append(pane[own].lines, pane[own].typed)
    BY <2>2, <2>4, AfterEnterPane DEF OwnPaneHolds, Woken
  <2>6. pane'[own].lines = <<Text("command")>>
    BY <2>4, <2>5 DEF OwnPaneHolds
  <2>7. TextOf(pane'[own], "command") = Text("command")
    BY <1>b, <2>5
  <2>8. Served(pane'[own])
    <3>1. Len(pane'[own].lines) = 1
      BY <2>6
    <3>2. QED
      BY <2>6, <2>7, <3>1 DEF Served
  <2>9. PaneInHand'
    BY <2>3, <2>5, <2>6 DEF PaneInHand, OwnPaneHolds, Text
  <2>10. QED
    BY <2>2, <2>8, <2>9, StillServed
<1>8. CASE EnterHandoff
  <2>1. exec \in Executions /\ exec # NoExec
    BY <1>0, <1>8 DEF EnterHandoff, TypeOK, HeldInHand
  <2>2. /\ own \in Live
        /\ pane'[own] = AfterEnter(pane[own])
        /\ \A n \in Live' : n = own \/ (n \in Live /\ pane'[n] = pane[n])
        /\ pane[own] \in Panes
    BY <1>6, <1>8, <2>1 DEF EnterHandoff
  <2>3. at = "enterInject" /\ at' = "role"
    BY <1>8 DEF EnterHandoff
  <2>4. /\ pane[own].owner = exec /\ pane[own].take = taken[exec]
        /\ pane[own].client \in {"ready", "gone"}
        /\ \/ pane[own].typed = Text("handoff") /\ pane[own].lines = <<Text("command")>>
           \/ /\ pane[own].typed = <<Text("handoff")[HandoffLines]>>
              /\ pane[own].lines = LineByLine(pane[own], HandoffLines - 1)
    BY <2>1, <2>2, <2>3 DEF PaneInHand, OwnPaneHolds
  <2>5. /\ pane'[own].owner = exec /\ pane'[own].take = taken[exec]
        /\ pane'[own].client \in {"ready", "gone"}
        /\ pane'[own].lines = Append(pane[own].lines, pane[own].typed)
    BY <2>2, <2>4, AfterEnterPane DEF Woken
  <2>6. /\ TextOf(pane[own], "command") = Text("command")
        /\ TextOf(pane[own], "handoff") = Text("handoff")
    BY <1>b, <2>4
  <2>7. /\ TextOf(pane'[own], "command") = Text("command")
        /\ TextOf(pane'[own], "handoff") = Text("handoff")
        /\ LineByLine(pane'[own], HandoffLines) = LineByLine(pane[own], HandoffLines)
    BY <1>b, <2>4, <2>5, SameTexts
  <2>8. \/ pane'[own].lines = <<Text("command"), Text("handoff")>>
        \/ pane'[own].lines = LineByLine(pane[own], HandoffLines)
    <3>1. CASE pane[own].typed = Text("handoff") /\ pane[own].lines = <<Text("command")>>
      <4>1. Append(<<Text("command")>>, Text("handoff")) = <<Text("command"), Text("handoff")>>
        BY AppendOne
      <4>2. QED
        BY <2>5, <3>1, <4>1
    <3>2. CASE /\ pane[own].typed = <<Text("handoff")[HandoffLines]>>
               /\ pane[own].lines = LineByLine(pane[own], HandoffLines - 1)
      <4>1. Append(LineByLine(pane[own], HandoffLines - 1),
                   <<TextOf(pane[own], "handoff")[HandoffLines]>>)
              = LineByLine(pane[own], HandoffLines)
        BY <1>a, <2>1, <2>2, <2>6, LastLine
      <4>2. QED
        BY <2>5, <2>6, <3>2, <4>1
    <3>3. QED
      BY <2>4, <3>1, <3>2
  <2>9. Served(pane'[own])
    BY <2>5, <2>7, <2>8 DEF Served
  <2>10. PaneInHand'
    BY <2>3 DEF PaneInHand
  <2>11. QED
    BY <2>2, <2>9, <2>10, StillServed
<1>9. CASE Kill \/ Crash
  <2>1. PaneInHand'
    BY <1>9 DEF Kill, Crash, PaneInHand
  <2>2. \A n \in Live' : n \in Live /\ pane'[n] = pane[n]
    BY <1>9 DEF Kill, Crash, Live
  <2>3. QED
    BY <2>1, <2>2 DEF AllServed
<1>10. CASE \E n \in Names : SessionEnds(n)
  <2>1. PICK m \in Live : SessionEnds(m)
    BY <1>10 DEF SessionEnds
  <2>2. \A n \in Live' : n \in Live /\ pane'[n] = pane[n]
    BY <1>0, <2>1 DEF SessionEnds, Live, TypeOK
  <2>3. UNCHANGED <<at, exec, taken>>
    BY <2>1 DEF SessionEnds
  <2>4. PaneInHand'
    BY <2>2, <2>3 DEF PaneInHand, OwnPaneHolds, Text
  <2>5. QED
    BY <2>2, <2>4 DEF AllServed
<1>11. CASE \E n \in Names : ClientComesUp(n)
  <2>1. PICK m \in Live, c \in {"ready", "failed", "gone"} :
          /\ pane' = [pane EXCEPT ![m].client = c]
          /\ \/ pane[m].client = "starting"
             \/ pane[m].client = "ready" /\ c = "gone"
          /\ UNCHANGED <<at, exec, taken>>
    BY <1>11 DEF ClientComesUp
  <2>2. m \in Names /\ pane[m] \in Panes
    BY <1>0, LivePane
  <2>3. pane'[m] = [pane[m] EXCEPT !.client = c]
    BY <1>0, <2>1, <2>2 DEF TypeOK
  <2>4. /\ pane'[m].owner = pane[m].owner /\ pane'[m].take = pane[m].take
        /\ pane'[m].typed = pane[m].typed /\ pane'[m].lines = pane[m].lines
        /\ pane'[m].client = c
    BY <2>2, <2>3 DEF Panes
  <2>5. \A n \in Live' : n = m \/ (n \in Live /\ pane'[n] = pane[n])
    BY <1>0, <2>1 DEF Live, TypeOK
  <2>6. Served(pane[m])
    BY DEF AllServed
  <2>7. Served(pane'[m])
    BY <2>1, <2>4, <2>6, SameTexts
  <2>8. AllServed'
    BY <2>5, <2>7, StillServed
  <2>9. Live' \subseteq Live
    BY <2>5
  <2>10. ASSUME NEW typed, NEW lines, NEW clients, OwnPaneHolds(typed, lines, clients),
                m = own => c \in clients, own \in Live'
         PROVE  /\ pane'[own].owner = exec /\ pane'[own].take = taken[exec]
                /\ pane'[own].typed = typed /\ pane'[own].lines = lines
                /\ pane'[own].client \in clients
    <3>1. CASE m = own
      BY <2>4, <2>10, <3>1 DEF OwnPaneHolds
    <3>2. CASE m # own
      <4>1. pane'[own] = pane[own]
        BY <2>5, <2>10, <3>2
      <4>2. QED
        BY <2>10, <4>1 DEF OwnPaneHolds
    <3>3. QED
      BY <3>1, <3>2
  <2>11. PaneInHand'
    <3> SUFFICES ASSUME exec # NoExec, own \in Live' PROVE PaneInHand'
      BY <2>1 DEF PaneInHand
    <3>1. own \in Live
      BY <2>9
    <3>2. CASE at = "launch"
      <4>1. OwnPaneHolds(<<>>, <<>>, {"none"}) /\ m # own
        BY <2>1, <3>1, <3>2 DEF PaneInHand, OwnPaneHolds
      <4>2. QED
        BY <2>1, <2>10, <3>2, <4>1 DEF PaneInHand, OwnPaneHolds, Text
    <3>3. CASE at = "enterLaunch"
      <4>1. OwnPaneHolds(Text("command"), <<>>, {"none"}) /\ m # own
        BY <2>1, <3>1, <3>3 DEF PaneInHand, OwnPaneHolds
      <4>2. QED
        BY <2>1, <2>10, <3>3, <4>1 DEF PaneInHand, OwnPaneHolds, Text
    <3>4. CASE at = "ready"
      <4>1. OwnPaneHolds(<<>>, <<Text("command")>>,
                         {"starting", "ready", "gone", "failed"})
        BY <3>1, <3>4 DEF PaneInHand
      <4>2. QED
        BY <2>1, <2>10, <3>4, <4>1 DEF PaneInHand, OwnPaneHolds, Text
    <3>5. CASE at = "inject"
      <4>1. /\ OwnPaneHolds(<<>>, <<Text("command")>>, {"ready", "gone"})
            /\ m = own => c \in {"ready", "gone"}
        BY <2>1, <3>1, <3>5 DEF PaneInHand, OwnPaneHolds
      <4>2. QED
        BY <2>1, <2>10, <3>5, <4>1 DEF PaneInHand, OwnPaneHolds, Text
    <3>6. CASE at = "enterInject"
      <4>1. /\ \/ OwnPaneHolds(Text("handoff"), <<Text("command")>>, {"ready", "gone"})
               \/ OwnPaneHolds(<<Text("handoff")[HandoffLines]>>,
                               LineByLine(pane[own], HandoffLines - 1), {"ready", "gone"})
            /\ m = own => c \in {"ready", "gone"}
        BY <2>1, <3>1, <3>6 DEF PaneInHand, OwnPaneHolds
      <4>2. LineByLine(pane'[own], HandoffLines - 1) = LineByLine(pane[own], HandoffLines - 1)
        <5>1. CASE m = own
          BY <2>4, <5>1, SameTexts
        <5>2. CASE m # own
          BY <2>5, <5>2
        <5>3. QED
          BY <5>1, <5>2
      <4>3. QED
        BY <2>1, <2>10, <3>6, <4>1, <4>2 DEF PaneInHand, OwnPaneHolds, Text
    <3>7. CASE at \notin {"launch", "enterLaunch", "ready", "inject", "enterInject"}
      BY <2>1, <3>7 DEF PaneInHand
    <3>8. QED
      BY <3>2, <3>3, <3>4, <3>5, <3>6, <3>7
  <2>12. QED
    BY <2>8, <2>11
<1>12. CASE UNCHANGED vars
  BY <1>12 DEF vars, PaneInHand, OwnPaneHolds, Text, AllServed, Live
<1>13. QED
  BY <1>1, <1>2, <1>3, <1>5, <1>c, <1>7, <1>8, <1>9, <1>10, <1>11, <1>12 DEF Next, WorkerStep

-------------------------------------------------------------------------------
(* Theorems *)

LEMMA BaseInvariant == Spec => []BaseInv
<1>1. Init => BaseInv
  BY InitInv DEF TerminalInv, BaseInv
<1>2. QED
  BY <1>1, BaseStep, PTL DEF Spec

(* A step of the program keeps every variable within its type. *)
THEOREM TypeCorrect == Spec => []TypeOK
<1>1. BaseInv => TypeOK
  BY DEF BaseInv
<1>2. QED
  BY <1>1, BaseInvariant, PTL

(* What tmux_session.py promises of sessions, however they are named: when *)
(* the loop is between executions, a session that is still there belongs   *)
(* to an execution whose kill failed or was cut off by a crash.            *)
THEOREM LeftoversKnown == Spec => []LeftoversAreKnown
<1>1. BaseInv => LeftoversAreKnown
  <2> SUFFICES ASSUME BaseInv, at = "idle", NEW n \in Live
               PROVE  pane[n].owner \in disturbed
    BY DEF LeftoversAreKnown
  <2>1. exec = NoExec
    BY DEF BaseInv, HeldInHand
  <2>2. pane[n].owner \in disturbed \cup {exec} /\ pane[n].owner \in Executions
    BY LivePane DEF BaseInv, OwnersKnown, Panes
  <2>3. QED
    BY <2>1, <2>2, TerminalAssumption DEF TerminalAssumption
<1>2. QED
  BY <1>1, BaseInvariant, PTL

(* _cleanup's kill-session takes down only the session of the execution in *)
(* hand when no other execution's session name begins with its name.       *)
THEOREM KillsOnlyOwn == Spec => ApartKillsOwn
<1> DEFINE Killed == at = "kill" /\ at' = "idle" /\ Apart(exec) =>
                       \A n \in Live : pane'[n] = NoPane => pane[n].owner = exec
<1>1. BaseInv /\ [Next]_vars => [Killed]_vars
  <2> SUFFICES ASSUME BaseInv, Next, at = "kill", at' = "idle", Apart(exec),
                      NEW n \in Live, pane'[n] = NoPane
               PROVE  pane[n].owner = exec
    OBVIOUS
  <2>1. Kill \/ KillFails
    BY DEF Next, WorkerStep, TakeUp, Prepared, NameIsFree, NewSession, TypeCommand,
           EnterCommand, SeesMarker, TypeHandoff, EnterHandoff, RoleEnds, Fails,
           Restart, ClientComesUp, SessionEnds, Crash, Step
  <2>2. n \in Names /\ pane[n] # NoPane
    BY DEF Live
  <2>3. Kill /\ n \in Target(NameOf(exec))
    BY <2>1, <2>2 DEF Kill, KillFails
  <2>4. exec \in Executions
    BY <2>3 DEF Kill, Step, BaseInv, TypeOK, HeldInHand
  <2>5. QED
    BY <2>3, <2>4, ApartTarget DEF BaseInv
<1> HIDE DEF Killed
<1>2. Spec => [][Killed]_vars
  BY <1>1, BaseInvariant, PTL DEF Spec
<1>3. QED
  BY <1>2 DEF Killed, ApartKillsOwn

(* The whole invariant, if no session name begins another. *)
THEOREM TerminalInvariant ==
  ASSUME NamesApart
  PROVE  Spec => []TerminalInv
<1> DEFINE I == BaseInv /\ PaneInHand /\ AllServed
<1>1. Init => I
  BY InitInv, ServedIsBoth DEF TerminalInv, BaseInv
<1>2. I /\ [Next]_vars => I'
  BY BaseStep, OwnStep
<1>3. I => TerminalInv
  BY ServedIsBoth DEF TerminalInv, BaseInv
<1> HIDE DEF I
<1>4. QED
  BY <1>1, <1>2, <1>3, PTL DEF Spec

(* launch and inject: a pane is given the command of its own take-up and   *)
(* then its handoff, no line twice, none out of place and none of another, *)
(* whatever number of lines a handoff has and whether a newline in it is   *)
(* part of the input or submits.                                           *)
THEOREM EnteredOnceInOrder ==
  ASSUME NamesApart
  PROVE  Spec => []OwnLinesInOrder
<1>1. TerminalInv => OwnLinesInOrder
  BY DEF TerminalInv
<1>2. QED
  BY <1>1, TerminalInvariant, PTL

(* wait_ready before inject: no line of a handoff is submitted in a pane   *)
(* whose client has not come up; it may have gone since.                   *)
THEOREM HandoffIsHeard ==
  ASSUME NamesApart
  PROVE  Spec => []HandoffMeetsClient
<1>1. TerminalInv => HandoffMeetsClient
  BY DEF TerminalInv
<1>2. QED
  BY <1>1, TerminalInvariant, PTL

-------------------------------------------------------------------------------
(* Refinement of Holdings *)

LiveNow == {pane[n].owner : n \in Live}
PhaseNow == IF at = "down" THEN "down"
            ELSE IF exec = NoExec THEN "none"
            ELSE IF at = "kill" THEN "removing" ELSE "using"

(* Whoever has a session has the one of its name. *)
LEMMA LiveByName ==
  ASSUME TypeOK, OwnersKnown
  PROVE  /\ LiveNow \subseteq Executions
         /\ \A e \in Executions :
              e \in LiveNow <=> NameOf(e) \in Live /\ pane[NameOf(e)].owner = e
<1>1. \A n \in Live : pane[n].owner \in Executions /\ NameOf(pane[n].owner) = n
  BY LivePane DEF OwnersKnown, Panes
<1>2. QED
  BY <1>1 DEF LiveNow

LEMMA NothingHeldMoves ==
  ASSUME exec' = exec, PhaseNow' = PhaseNow, LiveNow' = LiveNow
  PROVE  [Held!Next]_(Held!vars)
BY DEF Held!vars, PhaseNow, LiveNow

(* Typing, entering and what the client does change nobody's session. *)
LEMMA SameOwners ==
  ASSUME TypeOK, NEW n \in Live,
         \A m \in Names \ {n} : pane'[m] = pane[m],
         pane'[n] \in Panes, pane'[n].owner = pane[n].owner
  PROVE  LiveNow' = LiveNow
<1>1. pane'[n] # NoPane
  BY TerminalAssumption DEF TerminalAssumption, Panes, NoPane
<1>2. Live' = Live
  BY <1>1 DEF Live
<1>3. \A m \in Live : pane'[m].owner = pane[m].owner
  BY DEF Live
<1>4. QED
  BY <1>2, <1>3 DEF LiveNow

(* One step per action or group of actions of a kind. *)
LEMMA StepHolds ==
  ASSUME NamesApart, BaseInv, [Next]_vars
  PROVE  [Held!Next]_(Held!vars)
<1> USE TerminalAssumption
    DEF TerminalAssumption, BaseInv, HeldInHand, threadVars, Step, PhaseNow
<1>a. exec # NoExec => exec \in Executions /\ NameOf(exec) \in Names
  BY DEF TypeOK, Names
<1>1. ASSUME NEW e \in Executions, TakeUp(e) PROVE [Held!Next]_(Held!vars)
  <2>1. LiveNow' = LiveNow
    BY <1>1 DEF TakeUp, LiveNow, Live
  <2>2. Held!Take(e)
    BY <1>1, <2>1 DEF TakeUp, Held!Take, LiveNow
  <2>3. QED
    BY <2>2 DEF Held!Next
<1>2. CASE Prepared \/ NameIsFree \/ SeesMarker
  <2>1. LiveNow' = LiveNow
    BY <1>2 DEF Prepared, NameIsFree, SeesMarker, LiveNow, Live
  <2>2. QED
    BY <1>2, <2>1, NothingHeldMoves DEF Prepared, NameIsFree, SeesMarker
<1>3. CASE RoleEnds \/ Fails
  <2>1. LiveNow' = LiveNow
    BY <1>3 DEF RoleEnds, Fails, LiveNow, Live
  <2>2. Held!BeginRemoval
    BY <1>3, <2>1 DEF RoleEnds, Fails, Held!BeginRemoval, LiveNow
  <2>3. QED
    BY <2>2 DEF Held!Next
<1>4. CASE NewSession
  <2>1. NameOf(exec) \notin Live /\ exec \in Executions
    BY <1>4, <1>a DEF NewSession, Live
  <2>2. exec \notin LiveNow
    BY <2>1, LiveByName
  <2>3. pane'[NameOf(exec)].owner = exec /\ pane'[NameOf(exec)] # NoPane
    BY <1>4, <1>a, <2>1 DEF NewSession, TypeOK, NoPane
  <2>4. \A m \in Names \ {NameOf(exec)} : pane'[m] = pane[m]
    BY <1>4, <1>a DEF NewSession, TypeOK
  <2>5. Live' = Live \cup {NameOf(exec)}
    BY <1>4, <1>a, <2>3, <2>4 DEF NewSession, Live
  <2>6. LiveNow' = LiveNow \cup {exec}
    BY <2>1, <2>3, <2>4, <2>5 DEF LiveNow, Live
  <2>7. Held!OpenSession
    BY <1>4, <2>2, <2>6 DEF NewSession, Held!OpenSession, LiveNow
  <2>8. QED
    BY <2>7 DEF Held!Next
<1>5. CASE TypeCommand \/ TypeHandoff
  <2>1. exec \in Executions
    BY <1>5, <1>a DEF TypeCommand, TypeHandoff
  <2>2. PICK text \in Seq(Texts) : Typed(text)
    BY <1>5, <2>1, TextType DEF TypeCommand, TypeHandoff
  <2>3. PICK n \in Target(NameOf(exec)) :
           /\ n \in Live
           /\ \A m \in Names \ {n} : pane'[m] = pane[m]
           /\ pane'[n] \in Panes /\ pane'[n].owner = pane[n].owner
    BY <2>2, TypedPane
  <2>4. LiveNow' = LiveNow
    BY <2>3, SameOwners
  <2>5. QED
    BY <1>5, <2>4, NothingHeldMoves DEF TypeCommand, TypeHandoff
<1>6. CASE EnterCommand \/ EnterHandoff
  <2>1. Entered
    BY <1>6 DEF EnterCommand, EnterHandoff
  <2>2. PICK n \in Target(NameOf(exec)) :
           /\ n \in Live
           /\ pane' = [pane EXCEPT ![n] = AfterEnter(pane[n])]
           /\ pane'[n] = AfterEnter(pane[n])
           /\ pane'[n] \in Panes
    BY <2>1, EnteredPane
  <2>3. n \in Names /\ pane[n] \in Panes
    BY <2>2, LivePane
  <2>4. pane'[n].owner = pane[n].owner
    BY <2>2, <2>3, AfterEnterPane
  <2>5. LiveNow' = LiveNow
    BY <2>2, <2>3, <2>4, SameOwners DEF TypeOK
  <2>6. QED
    BY <1>6, <2>5, NothingHeldMoves DEF EnterCommand, EnterHandoff
<1>7. CASE Kill
  <2>1. exec \in Executions /\ Apart(exec)
    BY <1>7, <1>a DEF Kill, NamesApart
  <2>2. Target(NameOf(exec)) = Live \cap {NameOf(exec)}
        /\ \A n \in Target(NameOf(exec)) : pane[n].owner = exec
    BY <2>1, ApartTarget
  <2>3. Live' = Live \ {NameOf(exec)} /\ \A n \in Live' : pane'[n] = pane[n]
    BY <1>7, <2>2 DEF Kill, Live
  <2>4. \A n \in Live' : pane[n].owner # exec
    BY <2>3, LivePane DEF OwnersKnown
  <2>5. LiveNow' = LiveNow \ {exec}
    BY <2>2, <2>3, <2>4 DEF LiveNow
  <2>6. Held!PutDown
    BY <1>7, <2>5 DEF Kill, Held!PutDown, LiveNow
  <2>7. QED
    BY <2>6 DEF Held!Next
<1>8. CASE KillFails
  <2>1. LiveNow' = LiveNow
    BY <1>8 DEF KillFails, LiveNow, Live
  <2>2. Held!PutDown
    BY <1>8, <2>1 DEF KillFails, Held!PutDown, LiveNow
  <2>3. QED
    BY <2>2 DEF Held!Next
<1>9. ASSUME NEW n \in Names, ClientComesUp(n) PROVE [Held!Next]_(Held!vars)
  <2>1. PICK c \in {"ready", "failed", "gone"} : pane' = [pane EXCEPT ![n].client = c]
    BY <1>9 DEF ClientComesUp
  <2>2. n \in Live /\ pane[n] \in Panes
    BY <1>9, LivePane DEF ClientComesUp
  <2>3. pane'[n] \in Panes /\ pane'[n].owner = pane[n].owner
    BY <2>1, <2>2 DEF Panes, TypeOK
  <2>4. LiveNow' = LiveNow
    BY <2>1, <2>2, <2>3, SameOwners DEF TypeOK
  <2>5. QED
    BY <1>9, <2>4, NothingHeldMoves DEF ClientComesUp
<1>10. ASSUME NEW n \in Names, SessionEnds(n) PROVE [Held!Next]_(Held!vars)
  <2>1. PICK e \in Executions : n \in Live /\ e = pane[n].owner
    BY <1>10, LivePane DEF SessionEnds, Panes
  <2>2. \A m \in Live : pane[m].owner = e => m = n
    BY <2>1 DEF OwnersKnown
  <2>3. Live' = Live \ {n} /\ \A m \in Live' : pane'[m] = pane[m]
    BY <1>10 DEF SessionEnds, Live, TypeOK
  <2>4. LiveNow' = LiveNow \ {e}
    BY <2>1, <2>2, <2>3 DEF LiveNow
  <2>5. Held!SessionEnds(e)
    BY <1>10, <2>4 DEF SessionEnds, Held!SessionEnds, LiveNow
  <2>6. QED
    BY <2>5 DEF Held!Next
<1>11. CASE Crash
  <2>1. LiveNow' = LiveNow \/ LiveNow' = {}
    BY <1>11 DEF Crash, LiveNow, Live
  <2>2. Held!Crash
    BY <1>11, <2>1 DEF Crash, Held!Crash, LiveNow
  <2>3. QED
    BY <2>2 DEF Held!Next
<1>12. CASE Restart
  <2>1. LiveNow' = LiveNow
    BY <1>12 DEF Restart, LiveNow, Live
  <2>2. Held!Restart
    BY <1>12, <2>1 DEF Restart, Held!Restart, LiveNow
  <2>3. QED
    BY <2>2 DEF Held!Next
<1>13. CASE UNCHANGED vars
  <2>1. LiveNow' = LiveNow
    BY <1>13 DEF vars, LiveNow, Live
  <2>2. QED
    BY <1>13, <2>1, NothingHeldMoves DEF vars
<1> HIDE DEF BaseInv, HeldInHand, PhaseNow
<1>14. QED
  BY <1>1, <1>2, <1>3, <1>4, <1>5, <1>6, <1>7, <1>8, <1>9, <1>10, <1>11, <1>12, <1>13
     DEF Next, WorkerStep

(* With no name beginning another, the sessions implement Holdings: each   *)
(* is opened, and killed, by the execution that is in hand, whatever -t    *)
(* could have taken the name for.                                          *)
THEOREM SessionsHold == ASSUME NamesApart PROVE Spec => ImplementsHoldings
<1>1. Init => Held!Init
  <2>1. Init => Live = {}
    BY DEF Init, Live
  <2>2. QED
    BY <2>1 DEF Init, Held!Init
<1>2. Init => BaseInv
  BY InitInv DEF TerminalInv, BaseInv
<1>3. BaseInv /\ [Next]_vars => BaseInv'
  BY BaseStep
<1>4. BaseInv /\ [Next]_vars => [Held!Next]_(Held!vars)
  BY NamesApart, StepHolds
<1>5. QED
  BY <1>1, <1>2, <1>3, <1>4, PTL DEF Spec, ImplementsHoldings, Held!Spec

-------------------------------------------------------------------------------
(* When names are apart *)

(* Begins, character by character. *)
LEMMA BeginsAt ==
  ASSUME NEW n \in Seq(Characters), NEW b \in Seq(Characters)
  PROVE  Begins(n, b) <=> Len(b) <= Len(n) /\ \A i \in 1..Len(b) : n[i] = b[i]
<1>1. ASSUME Begins(n, b) PROVE Len(b) <= Len(n) /\ \A i \in 1..Len(b) : n[i] = b[i]
  <2>1. Len(b) <= Len(n) /\ SubSeq(n, 1, Len(b)) = b
    BY <1>1 DEF Begins
  <2>2. \A i \in 1..Len(b) : SubSeq(n, 1, Len(b))[i] = n[i]
    BY <2>1
  <2>3. QED
    BY <2>1, <2>2
<1>2. ASSUME Len(b) <= Len(n), \A i \in 1..Len(b) : n[i] = b[i] PROVE Begins(n, b)
  <2>1. SubSeq(n, 1, Len(b)) \in Seq(Characters) /\ Len(SubSeq(n, 1, Len(b))) = Len(b)
        /\ \A i \in 1..Len(b) : SubSeq(n, 1, Len(b))[i] = b[i]
    BY <1>2
  <2>2. SubSeq(n, 1, Len(b)) = b
    BY <2>1, SeqEqual
  <2>3. QED
    BY <1>2, <2>2 DEF Begins
<1>3. QED
  BY <1>1, <1>2

(* Of two beginnings of one name, the shorter is a beginning of the other. *)
LEMMA TwoBeginnings ==
  ASSUME NEW n \in Seq(Characters), NEW a \in Seq(Characters), NEW b \in Seq(Characters),
         Begins(n, a), Begins(n, b), Len(a) <= Len(b)
  PROVE  Begins(b, a)
BY BeginsAt

LEMMA BeginningOfBeginning ==
  ASSUME NEW n \in Seq(Characters), NEW a \in Seq(Characters), NEW b \in Seq(Characters),
         Begins(n, b), Begins(b, a)
  PROVE  Begins(n, a)
BY BeginsAt

LEMMA BeginsFirstPart ==
  ASSUME NEW a \in Seq(Characters), NEW b \in Seq(Characters)
  PROVE  a \o b \in Seq(Characters) /\ Begins(a \o b, a)
<1>1. /\ a \o b \in Seq(Characters) /\ Len(a \o b) = Len(a) + Len(b)
      /\ \A i \in 1..Len(a) + Len(b) : (a \o b)[i] = IF i <= Len(a) THEN a[i] ELSE b[i - Len(a)]
  BY ConcatProperties
<1>2. Len(a) <= Len(a \o b) /\ \A i \in 1..Len(a) : (a \o b)[i] = a[i]
  BY <1>1
<1>3. QED
  BY <1>1, <1>2, BeginsAt

(* What two names begin with alike does not matter. *)
LEMMA SameFirstPart ==
  ASSUME NEW a \in Seq(Characters), NEW b \in Seq(Characters), NEW c \in Seq(Characters)
  PROVE  Begins(a \o b, a \o c) <=> Begins(b, c)
<1>1. /\ a \o b \in Seq(Characters) /\ Len(a \o b) = Len(a) + Len(b)
      /\ \A i \in 1..Len(a) : (a \o b)[i] = a[i]
      /\ \A i \in 1..Len(b) : (a \o b)[Len(a) + i] = b[i]
  BY ConcatProperties
<1>2. /\ a \o c \in Seq(Characters) /\ Len(a \o c) = Len(a) + Len(c)
      /\ \A i \in 1..Len(a) : (a \o c)[i] = a[i]
      /\ \A i \in 1..Len(c) : (a \o c)[Len(a) + i] = c[i]
  BY ConcatProperties
<1>3. ASSUME Begins(a \o b, a \o c) PROVE Begins(b, c)
  <2>1. Len(a \o c) <= Len(a \o b) /\ \A i \in 1..Len(a \o c) : (a \o b)[i] = (a \o c)[i]
    BY <1>1, <1>2, <1>3, BeginsAt
  <2>2. Len(c) <= Len(b)
    BY <1>1, <1>2, <2>1
  <2>3. \A i \in 1..Len(c) : Len(a) + i \in 1..Len(a \o c) /\ i \in 1..Len(b)
    BY <1>2, <2>2
  <2>4. \A i \in 1..Len(c) : b[i] = c[i]
    BY <1>1, <1>2, <2>1, <2>3
  <2>5. QED
    BY <2>2, <2>4, BeginsAt
<1>4. ASSUME Begins(b, c) PROVE Begins(a \o b, a \o c)
  <2>1. Len(c) <= Len(b) /\ \A i \in 1..Len(c) : b[i] = c[i]
    BY <1>4, BeginsAt
  <2>2. ASSUME NEW i \in 1..Len(a \o c) PROVE (a \o b)[i] = (a \o c)[i]
    <3>1. CASE i <= Len(a)
      BY <1>1, <1>2, <3>1
    <3>2. CASE i > Len(a)
      <4>1. PICK k \in 1..Len(c) : i = Len(a) + k
        <5>1. i - Len(a) \in 1..Len(c) /\ i = Len(a) + (i - Len(a))
          BY <1>2, <3>2
        <5>2. QED
          BY <5>1
      <4>2. k \in 1..Len(b)
        BY <2>1
      <4>3. QED
        BY <1>1, <1>2, <2>1, <4>1, <4>2
    <3>3. i \in Int /\ Len(a) \in Int
      OBVIOUS
    <3>4. i <= Len(a) \/ i > Len(a)
      BY <3>3
    <3>5. QED
      BY <3>1, <3>2, <3>4
  <2>3. Len(a \o c) <= Len(a \o b)
    BY <1>1, <1>2, <2>1
  <2>4. QED
    BY <1>1, <1>2, <2>2, <2>3, BeginsAt
<1>5. QED
  BY <1>3, <1>4

(* session_name puts the role first and the end of the id last.  If no     *)
(* role is called like another with a dash after it, tmux never takes one  *)
(* execution's name for another's session (NamesApart) exactly when of two *)
(* executions of one role neither kept end of an id begins the other; that *)
(* the ends differ is not enough.                                          *)
THEOREM WhenNamesAreApart ==
  ASSUME \A e, o \in Executions : ~Begins(RoleOf[o], RoleOf[e] \o <<Dash>>)
  PROVE  NamesApart <=>
           \A e \in Executions : \A o \in Executions \ {e} :
             RoleOf[e] = RoleOf[o] => ~Begins(Short(IdOf[o]), Short(IdOf[e]))
<1> SUFFICES ASSUME NEW e \in Executions, NEW o \in Executions \ {e}
             PROVE  Begins(NameOf(o), NameOf(e)) <=>
                      RoleOf[e] = RoleOf[o] /\ Begins(Short(IdOf[o]), Short(IdOf[e]))
  BY DEF NamesApart, Apart
<1> DEFINE re == RoleOf[e]
           ro == RoleOf[o]
           se == Short(IdOf[e])
           so == Short(IdOf[o])
           d  == <<Dash>>
<1>1. re \in Seq(Characters) /\ ro \in Seq(Characters)
      /\ d \in Seq(Characters) /\ Len(d) = 1
  BY TerminalAssumption DEF TerminalAssumption
<1>2. se \in Seq(Characters) /\ so \in Seq(Characters)
  BY KeptType
<1>3. ~Begins(ro, re \o d) /\ ~Begins(re, ro \o d)
  OBVIOUS
<1>4. (re \o d) \o se = NameOf(e) /\ (ro \o d) \o so = NameOf(o)
  BY <1>1, <1>2 DEF NameOf
<1> HIDE DEF re, ro, se, so, d
<1>5. /\ re \o d \in Seq(Characters) /\ Len(re \o d) = Len(re) + 1
      /\ ro \o d \in Seq(Characters) /\ Len(ro \o d) = Len(ro) + 1
  <2>1. /\ re \o d \in Seq(Characters) /\ Len(re \o d) = Len(re) + Len(d)
        /\ ro \o d \in Seq(Characters) /\ Len(ro \o d) = Len(ro) + Len(d)
    BY <1>1, ConcatProperties
  <2>2. QED
    BY <1>1, <2>1
<1>6. /\ NameOf(e) \in Seq(Characters) /\ Begins(NameOf(e), re \o d)
      /\ NameOf(o) \in Seq(Characters) /\ Begins(NameOf(o), ro \o d)
  BY <1>2, <1>4, <1>5, BeginsFirstPart
<1>7. Begins(re \o d, re) /\ Begins(ro \o d, ro)
  BY <1>1, BeginsFirstPart
<1>8. ASSUME Begins(NameOf(o), NameOf(e))
      PROVE  re = ro
  <2>1. Begins(NameOf(o), re \o d)
    BY <1>5, <1>6, <1>8, BeginningOfBeginning
  <2>2. Begins(NameOf(o), re) /\ Begins(NameOf(o), ro)
    BY <1>1, <1>5, <1>6, <1>7, <2>1, BeginningOfBeginning
  <2>3. ~(Len(re) + 1 <= Len(ro))
    <3>1. SUFFICES ASSUME Len(re) + 1 <= Len(ro) PROVE FALSE
      OBVIOUS
    <3>2. Begins(ro, re \o d)
      BY <1>1, <1>5, <1>6, <2>1, <2>2, <3>1, TwoBeginnings
    <3>3. QED
      BY <1>3, <3>2
  <2>4. ~(Len(ro) + 1 <= Len(re))
    <3>1. SUFFICES ASSUME Len(ro) + 1 <= Len(re) PROVE FALSE
      OBVIOUS
    <3>2. Begins(re, ro \o d)
      BY <1>1, <1>5, <1>6, <2>2, <3>1, TwoBeginnings
    <3>3. QED
      BY <1>3, <3>2
  <2>5. Len(re) = Len(ro)
    BY <1>1, <2>3, <2>4
  <2>6. Begins(ro, re)
    BY <1>1, <1>6, <2>2, <2>5, TwoBeginnings
  <2>7. QED
    BY <1>1, <2>5, <2>6, SeqEqual, BeginsAt
<1>9. ASSUME re = ro
      PROVE  Begins(NameOf(o), NameOf(e)) <=> Begins(so, se)
  <2>1. Begins((re \o d) \o so, (re \o d) \o se) <=> Begins(so, se)
    BY <1>2, <1>5, SameFirstPart
  <2>2. QED
    BY <1>4, <1>9, <2>1
<1>10. Begins(NameOf(o), NameOf(e)) <=> re = ro /\ Begins(so, se)
  BY <1>8, <1>9
<1>11. QED
  BY <1>10 DEF re, ro, se, so
===============================================================================
