---------------------------- MODULE ClientConfig ----------------------------
(***************************************************************************)
(* The client configuration of one execution: rendered by the allocator    *)
(* into a temporary directory beside the target, merged over the           *)
(* operator's base configuration, validated, published by a rename.  A     *)
(* configuration is modelled as the set of its leaf paths with, for each,  *)
(* who supplied it: the base configuration or the allocator.               *)
(***************************************************************************)
EXTENDS Naturals, Sequences

CONSTANTS
  Renderings,   \* what the allocator may write: sets of leaf paths
  BaseConfigs,  \* what the base file may hold: sets of leaf paths
  BaseNamed     \* worker.yaml names a base configuration

Required == {"permission", "model", "provider"}

Blocks(paths) == {Head(p) : p \in paths}

ASSUME ClientConfigAssumption ==
  /\ \A paths \in Renderings \cup BaseConfigs :
       \A p \in paths : p \in Seq(STRING) /\ p # <<>>
  /\ BaseNamed \in BOOLEAN

VARIABLES
  target,  \* target[e]: the file <e>.json as published, or NoConfig
  draft    \* the configuration in the temporary directory, or NoConfig

configVars == <<target, draft>>

(* take: the take-up of the execution this was rendered for. *)
NoConfig == [take |-> 0, machine |-> {}, model |-> {}]
Config(n, machine, model) == [take |-> n, machine |-> machine, model |-> model]
Leaves(c) == c.machine \cup c.model

-------------------------------------------------------------------------------
(* Merging *)

IsPrefixOf(p, q) == Len(p) <= Len(q) /\ p = SubSeq(q, 1, Len(p))

Conflict(p, q) == IsPrefixOf(p, q) \/ IsPrefixOf(q, p)

(* Mutant of Surviving: whole top-level blocks are replaced. *)
SurvivingBlocks(base, over) == {p \in base : Head(p) \notin Blocks(over)}

(* The leaves of the base that a deep merge keeps: those no leaf of the    *)
(* override replaces, hides or stands under.                               *)
Surviving(base, over) == {p \in base : \A q \in over : ~Conflict(p, q)}

(* _deep_merge(base, over): the override wins every conflict. *)
Merged(n, base, over) == Config(n, Surviving(base, over), over)

-------------------------------------------------------------------------------
(* render_execution_config *)

(* mkdtemp, then the allocator writes into the directory: it may fail,     *)
(* write nothing usable, or write one of Renderings.                       *)
RenderFails ==
  /\ UNCHANGED configVars

Rendered(n) ==
  /\ \E over \in Renderings : draft' = Config(n, {}, over)
  /\ UNCHANGED target

Usable(c) == Required \subseteq Blocks(Leaves(c))

(* Mutant of BoundToBase: validated before the merge, not after. *)
BoundToBaseUnchecked ==
  /\ \E base \in (IF BaseNamed THEN BaseConfigs ELSE {{}}) :
       draft' = Merged(draft.take, base, draft.model)
  /\ UNCHANGED target

(* The base goes underneath, and what comes out passes validation. *)
BoundToBase ==
  /\ \E base \in (IF BaseNamed THEN BaseConfigs ELSE {{}}) :
       draft' = Merged(draft.take, base, draft.model)
  /\ Usable(draft')
  /\ UNCHANGED target

(* Mutant of Published: a file that is there already is left alone. *)
PublishedOnce(e) ==
  /\ target' = IF target[e] = NoConfig THEN [target EXCEPT ![e] = draft] ELSE target
  /\ draft' = NoConfig

(* os.replace.  The temporary directory is given up here and in Discarded: *)
(* whether rmtree, which ignores its errors, or a crash leaves it behind,  *)
(* mkdtemp never gives out its name again and nobody reads it.             *)
Published(e) ==
  /\ target' = [target EXCEPT ![e] = draft]
  /\ draft' = NoConfig

(* Any failure after mkdtemp: the target is untouched. *)
Discarded ==
  /\ draft' = NoConfig
  /\ UNCHANGED target
===============================================================================
