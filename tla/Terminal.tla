------------------------------- MODULE Terminal -------------------------------
(***************************************************************************)
(* TmuxSession as _run_sequence and _cleanup use it: a session per         *)
(* execution, a command and a handoff typed and entered in its pane, the   *)
(* session killed by name.  tmux itself is here as far as the argv of      *)
(* tmux_session.py depends on it: -t takes a name to mean the session of   *)
(* that name or, if there is none, the only one whose name begins with it. *)
(* Sessions end on their own, by Father's stop button, or with the unit.   *)
(***************************************************************************)
EXTENDS Naturals, Sequences, FiniteSets

CONSTANTS
  Executions,   \* execution ids, as Father names them
  NoExec,       \* "no execution"
  Characters,   \* what names are made of
  Dash,         \* "-"
  IdOf,         \* IdOf[e]: the characters of e's id
  RoleOf,       \* RoleOf[e]: those of its target role
  ShortLength,  \* 12: how much of an id its session name keeps
  HandoffLines, \* how many lines a handoff has
  MaxTakes,     \* bound on how often an execution is taken up
  MaxCrashes    \* bound on crashes

ASSUME TerminalAssumption ==
  /\ NoExec \notin Executions
  /\ Dash \in Characters
  /\ IdOf \in [Executions -> Seq(Characters)]
  /\ RoleOf \in [Executions -> Seq(Characters)]
  /\ ShortLength \in Nat \ {0}
  /\ HandoffLines \in Nat \ {0}
  /\ MaxTakes \in Nat
  /\ MaxCrashes \in Nat

-------------------------------------------------------------------------------
(* Names *)

(* lstrip("-") *)
Stripped(s) ==
  LET dashes == {i \in 1..Len(s) : \A j \in 1..i : s[j] = Dash}
  IN SubSeq(s, Cardinality(dashes) + 1, Len(s))

Short(id) ==
  IF Len(id) > ShortLength
  THEN Stripped(SubSeq(id, Len(id) - ShortLength + 1, Len(id)))
  ELSE id

(* session_name, without the "dpmtf-" all names share. *)
NameOf(e) == RoleOf[e] \o <<Dash>> \o Short(IdOf[e])

Names == {NameOf(e) : e \in Executions}

Begins(n, with) == Len(with) <= Len(n) /\ SubSeq(n, 1, Len(with)) = with

-------------------------------------------------------------------------------

VARIABLES
  pane,      \* pane[n]: the pane of session n, or NoPane
  at,        \* where the thread is, see Places
  exec,      \* the execution in hand
  taken,     \* taken[e]: how often e was taken up
  crashes,   \* number of crashes so far
  disturbed  \* executions whose session the worker did not get to kill

threadVars == <<exec, taken>>
vars == <<pane, at, threadVars, crashes, disturbed>>

Places ==
  {"idle", "down", "preparing", "exists", "new", "launch", "enterLaunch",
   "ready", "inject", "enterInject", "role", "kill"}

Texts == [by : Executions, take : Nat, what : {"command", "handoff"}, line : Nat]

(* typed: what stands in the input line; lines: the submissions so far.    *)
(* The client is not started, starting, at its prompt, or gone again.      *)
Panes ==
  [owner : Executions, take : Nat, typed : Seq(Texts), lines : Seq(Seq(Texts)),
   client : {"none", "starting", "ready", "gone", "failed"}]

NoPane == [owner |-> NoExec]

Live == {n \in Names : pane[n] # NoPane}

(* What tmux takes -t n for: at most one session. *)
Target(n) ==
  IF n \in Live THEN {n}
  ELSE LET longer == {m \in Live : Begins(m, n)}
       IN IF Cardinality(longer) = 1 THEN longer ELSE {}

Step(from, to) == at = from /\ at' = to

(* The lines of a text: a command is one line, a handoff several. *)
TextFor(e, take, what) ==
  [i \in 1..IF what = "command" THEN 1 ELSE HandoffLines |->
     [by |-> e, take |-> take, what |-> what, line |-> i]]

Text(what) == TextFor(exec, taken[exec], what)

-------------------------------------------------------------------------------
(* The worker's thread *)

TakeUp(e) ==
  /\ Step("idle", "preparing") /\ taken[e] < MaxTakes
  /\ exec' = e
  /\ taken' = [taken EXCEPT ![e] = @ + 1]
  /\ UNCHANGED <<pane, crashes, disturbed>>

Prepared ==
  /\ Step("preparing", "exists")
  /\ UNCHANGED <<pane, threadVars, crashes, disturbed>>

(* Mutant of NameIsFree: left to new-session, which knows exact names. *)
NameUnchecked ==
  /\ Step("exists", "new")
  /\ UNCHANGED <<pane, threadVars, crashes, disturbed>>

(* create: has-session first; a session that is there is never shared. *)
NameIsFree ==
  /\ Step("exists", "new") /\ Target(NameOf(exec)) = {}
  /\ UNCHANGED <<pane, threadVars, crashes, disturbed>>

NewSession ==
  /\ Step("new", "launch") /\ pane[NameOf(exec)] = NoPane
  /\ pane' = [pane EXCEPT ![NameOf(exec)] =
                [owner |-> exec, take |-> taken[exec], typed |-> <<>>,
                 lines |-> <<>>, client |-> "none"]]
  /\ UNCHANGED <<threadVars, crashes, disturbed>>

Woken(client) == IF client = "none" THEN "starting" ELSE client

(* What the literal newlines between the lines of a text do: they are part *)
(* of the input ...                                                        *)
AsText(p, text) == [p EXCEPT !.typed = p.typed \o text]

(* ... or each submits what stands before it, as Enter would.              *)
AsLines(p, text) ==
  LET pieces == [i \in 1..Len(text) |->
                   IF i = 1 THEN p.typed \o <<text[1]>> ELSE <<text[i]>>]
  IN [p EXCEPT !.lines = p.lines \o SubSeq(pieces, 1, Len(text) - 1),
               !.typed = pieces[Len(text)],
               !.client = Woken(p.client)]

(* send-keys -l.  Which of the two it is, is up to what runs in the pane.  *)
Typed(text) ==
  \E n \in Target(NameOf(exec)) :
    \/ pane' = [pane EXCEPT ![n] = AsText(pane[n], text)]
    \/ Len(text) > 1 /\ pane' = [pane EXCEPT ![n] = AsLines(pane[n], text)]

(* What stands in the input is submitted; to a shell, if it is a command.  *)
AfterEnter(p) ==
  [p EXCEPT !.lines = Append(p.lines, p.typed),
            !.typed = <<>>,
            !.client = Woken(p.client)]

(* send-keys Enter *)
Entered ==
  \E n \in Target(NameOf(exec)) :
    pane' = [pane EXCEPT ![n] = AfterEnter(pane[n])]

(* launch and inject: two calls each. *)
TypeCommand ==
  /\ Step("launch", "enterLaunch")
  /\ Typed(Text("command"))
  /\ UNCHANGED <<threadVars, crashes, disturbed>>

EnterCommand ==
  /\ Step("enterLaunch", "ready")
  /\ Entered
  /\ UNCHANGED <<threadVars, crashes, disturbed>>

(* Mutant of SeesMarker: the handoff goes in without waiting. *)
SeesMarkerAtOnce ==
  /\ Step("ready", "inject")
  /\ UNCHANGED <<pane, threadVars, crashes, disturbed>>

(* wait_ready: the marker is in the pane, or still in its last 200 lines. *)
SeesMarker ==
  /\ Step("ready", "inject")
  /\ \E n \in Target(NameOf(exec)) : pane[n].client \in {"ready", "gone"}
  /\ UNCHANGED <<pane, threadVars, crashes, disturbed>>

TypeHandoff ==
  /\ Step("inject", "enterInject")
  /\ Typed(Text("handoff"))
  /\ UNCHANGED <<threadVars, crashes, disturbed>>

EnterHandoff ==
  /\ Step("enterInject", "role")
  /\ Entered
  /\ UNCHANGED <<threadVars, crashes, disturbed>>

RoleEnds ==
  /\ Step("role", "kill")
  /\ UNCHANGED <<pane, threadVars, crashes, disturbed>>

(* An earlier step fails, the name is taken, tmux cannot be run or finds   *)
(* no session, the marker never shows: the failure is reported, the        *)
(* session killed.  Nothing is tried twice.                                *)
Fails ==
  /\ at \in {"preparing", "exists", "new", "launch", "enterLaunch", "ready",
             "inject", "enterInject"}
  /\ at' = "kill"
  /\ UNCHANGED <<pane, threadVars, crashes, disturbed>>

(* Mutant of Kill: every session of the worker goes. *)
KillAll ==
  /\ Step("kill", "idle")
  /\ pane' = [n \in Names |-> NoPane]
  /\ exec' = NoExec
  /\ UNCHANGED <<taken, crashes, disturbed>>

(* Mutant of Kill: only where a client came up. *)
KillClientOnly ==
  /\ Step("kill", "idle")
  /\ pane' = IF pane[NameOf(exec)] # NoPane /\ pane[NameOf(exec)].client = "ready"
             THEN [pane EXCEPT ![NameOf(exec)] = NoPane] ELSE pane
  /\ exec' = NoExec
  /\ UNCHANGED <<taken, crashes, disturbed>>

(* kill-session -t *)
Kill ==
  /\ Step("kill", "idle")
  /\ pane' = [n \in Names |-> IF n \in Target(NameOf(exec)) THEN NoPane ELSE pane[n]]
  /\ exec' = NoExec
  /\ UNCHANGED <<taken, crashes, disturbed>>

(* Mutant of KillFails: noted although there was no session to kill. *)
KillFailsBlindly ==
  /\ Step("kill", "idle")
  /\ exec' = NoExec
  /\ disturbed' = disturbed \cup {pane[n].owner : n \in {NameOf(exec)}}
  /\ UNCHANGED <<pane, taken, crashes>>

(* The kill fails, which is noted and no more, or the report before it     *)
(* raised and it never happens.                                            *)
KillFails ==
  /\ Step("kill", "idle")
  /\ exec' = NoExec
  /\ disturbed' = disturbed \cup {pane[n].owner : n \in Live \cap {NameOf(exec)}}
  /\ UNCHANGED <<pane, taken, crashes>>

-------------------------------------------------------------------------------
(* Around it *)

ClientComesUp(n) ==
  /\ n \in Live
  /\ \/ pane[n].client = "starting"
        /\ \E c \in {"ready", "failed"} : pane' = [pane EXCEPT ![n].client = c]
     \/ pane[n].client = "ready" /\ pane' = [pane EXCEPT ![n].client = "gone"]
  /\ UNCHANGED <<at, threadVars, crashes, disturbed>>

(* The shell exits, or somebody kills the session. *)
SessionEnds(n) ==
  /\ n \in Live
  /\ pane' = [pane EXCEPT ![n] = NoPane]
  /\ UNCHANGED <<at, threadVars, crashes, disturbed>>

(* The tmux server dies with the unit if the unit started it. *)
Crash ==
  /\ at # "down" /\ crashes < MaxCrashes
  /\ crashes' = crashes + 1
  /\ at' = "down"
  /\ exec' = NoExec
  /\ pane' \in {pane, [n \in Names |-> NoPane]}
  /\ disturbed' = disturbed \cup ({exec} \cap Executions)
  /\ UNCHANGED taken

Restart ==
  /\ Step("down", "idle")
  /\ UNCHANGED <<pane, threadVars, crashes, disturbed>>

Init ==
  /\ pane = [n \in Names |-> NoPane]
  /\ at = "idle"
  /\ exec = NoExec
  /\ taken = [e \in Executions |-> 0]
  /\ crashes = 0
  /\ disturbed = {}

WorkerStep ==
  \/ \E e \in Executions : TakeUp(e)
  \/ Prepared \/ NameIsFree \/ NewSession
  \/ TypeCommand \/ EnterCommand \/ SeesMarker \/ TypeHandoff \/ EnterHandoff
  \/ RoleEnds \/ Fails \/ Kill \/ KillFails \/ Restart

Next ==
  \/ WorkerStep
  \/ \E n \in Names : ClientComesUp(n) \/ SessionEnds(n)
  \/ Crash

Spec == Init /\ [][Next]_vars

-------------------------------------------------------------------------------
(* Properties *)

TypeOK ==
  /\ pane \in [Names -> Panes \cup {NoPane}]
  /\ at \in Places
  /\ exec \in Executions \cup {NoExec}
  /\ taken \in [Executions -> Nat]
  /\ crashes \in 0..MaxCrashes
  /\ disturbed \subseteq Executions

(* No other execution's session is taken for e's. *)
Apart(e) == \A o \in Executions \ {e} : ~Begins(NameOf(o), NameOf(e))

NamesApart == \A e \in Executions : Apart(e)

TextOf(p, what) == TextFor(p.owner, p.take, what)

(* The command, and then the first k lines of the handoff, one by one. *)
LineByLine(p, k) ==
  [i \in 1..k + 1 |-> IF i = 1 THEN TextOf(p, "command")
                                ELSE <<TextOf(p, "handoff")[i - 1]>>]

(* A pane is given what its own take-up enters and nothing else: one       *)
(* command, then one handoff, every line of it once and in its place,      *)
(* whatever failed half way, whoever's session was left over, and although *)
(* typing and entering are two calls.  It comes as one submission, or as   *)
(* one for each line where a newline submits.                              *)
OwnLinesInOrder ==
  \A n \in Live :
    pane[n].lines \in
      {<<>>,
       <<TextOf(pane[n], "command")>>,
       <<TextOf(pane[n], "command"), TextOf(pane[n], "handoff")>>,
       LineByLine(pane[n], HandoffLines - 1),
       LineByLine(pane[n], HandoffLines)}

(* The handoff is entered only in a pane whose client had come up: what is *)
(* typed at a client that does not listen yet is lost.                     *)
HandoffMeetsClient ==
  \A n \in Live :
    Len(pane[n].lines) > 1 => pane[n].client \in {"ready", "gone"}

(* The worker's own steps take down no session but that of the execution   *)
(* in hand, if no other one's name begins with its name.                   *)
ApartKillsOwn ==
  [][at = "kill" /\ at' = "idle" /\ Apart(exec) =>
       \A n \in Live : pane'[n] = NoPane => pane[n].owner = exec]_vars

(* "Terminate only the named session": the same, whatever the names. *)
KillsOwn ==
  [][at = "kill" /\ at' = "idle" =>
       \A n \in Live : pane'[n] = NoPane => pane[n].owner = exec]_vars

(* Between executions, every session there is belongs to one whose kill    *)
(* failed or was cut off.                                                  *)
LeftoversAreKnown ==
  at = "idle" => \A n \in Live : pane[n].owner \in disturbed

-------------------------------------------------------------------------------
(* Refinement of Holdings, as far as it is about sessions *)

Held == INSTANCE Holdings WITH
  holder <- exec,
  phase  <- IF at = "down" THEN "down"
            ELSE IF exec = NoExec THEN "none"
            ELSE IF at = "kill" THEN "removing" ELSE "using",
  dirs   <- {},
  live   <- {pane[n].owner : n \in Live}

(* Sessions come and go as Holdings has it, if no name begins another.     *)
ImplementsHoldings == Held!Spec

-------------------------------------------------------------------------------
(* The inductive invariant *)

HeldInHand == exec = NoExec <=> at \in {"idle", "down"}

(* Sessions go by their owners' names, and who owns one is in hand or has  *)
(* left it over.                                                           *)
OwnersKnown ==
  \A n \in Live :
    NameOf(pane[n].owner) = n /\ pane[n].owner \in disturbed \cup {exec}

OwnPaneHolds(typed, lines, clients) ==
  LET p == pane[NameOf(exec)]
  IN /\ p.owner = exec /\ p.take = taken[exec]
     /\ p.typed = typed /\ p.lines = lines /\ p.client \in clients

(* What stands in the pane of the execution in hand, at every place. *)
PaneInHand ==
  exec # NoExec /\ NameOf(exec) \in Live =>
    /\ at = "launch" => OwnPaneHolds(<<>>, <<>>, {"none"})
    /\ at = "enterLaunch" => OwnPaneHolds(Text("command"), <<>>, {"none"})
    /\ at = "ready" => OwnPaneHolds(<<>>, <<Text("command")>>,
                                    {"starting", "ready", "gone", "failed"})
    /\ at = "inject" => OwnPaneHolds(<<>>, <<Text("command")>>, {"ready", "gone"})
    /\ at = "enterInject" =>
         \/ OwnPaneHolds(Text("handoff"), <<Text("command")>>, {"ready", "gone"})
         \/ OwnPaneHolds(<<Text("handoff")[HandoffLines]>>,
                         LineByLine(pane[NameOf(exec)], HandoffLines - 1),
                         {"ready", "gone"})

TerminalInv ==
  /\ TypeOK
  /\ HeldInHand
  /\ OwnersKnown
  /\ PaneInHand
  /\ OwnLinesInOrder
  /\ HandoffMeetsClient
===============================================================================
