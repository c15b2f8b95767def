------------------------------- MODULE Machine -------------------------------
(***************************************************************************)
(* What one execution after another does to the worker's disk: the mirror, *)
(* the worktree, the exclude file, the client configuration, the result    *)
(* commit and the cleanup, composed from GitWorkspace and ClientConfig in  *)
(* the order of WorkerLoop._run_sequence and _cleanup.  Beside the         *)
(* worker's thread run the roles, which write files as long as their       *)
(* client lives, and the remote.  The process may die between any two      *)
(* steps; the sweep runs between executions.                               *)
(***************************************************************************)
EXTENDS GitWorkspace, ClientConfig

CONSTANTS
  NoExec,      \* "no execution"
  WritesOf,    \* WritesOf[e]: the files the role of e may write
  PatchMode,   \* executions whose result contract asks for a patch
  MaxTakes,    \* MaxTakes[e]: bound on how often e is taken up
  MaxCrashes   \* bound on crashes

ASSUME MachineAssumption ==
  /\ NoExec \notin Executions
  /\ WritesOf \in [Executions -> SUBSET Files]
  /\ PatchMode \subseteq Executions
  /\ MaxTakes \in [Executions -> Nat]
  /\ MaxCrashes \in Nat

VARIABLES
  at,        \* where the thread is, see Places
  exec,      \* the execution in hand
  taken,     \* taken[e]: how often e was taken up
  roles,     \* executions whose client lives
  crashes,   \* number of crashes so far
  known,     \* the commits published when the mirror was last ensured
  excluded,  \* the exclude file was written for the execution in hand
  due,       \* files the role had written when its result was staged
  patches,   \* the patch of the execution in hand, once made: a set of files
  disturbed  \* executions whose worktree the worker did not take down itself

threadVars  == <<at, exec, taken>>
historyVars == <<crashes, known, excluded, due, patches, disturbed>>
vars == <<gitVars, configVars, threadVars, roles, historyVars>>

Places ==
  {"idle", "down", "mirror", "cloning", "worktree", "exclude", "render",
   "merge", "publish", "role", "stage", "status", "commit", "diff",
   "remove", "rmtree", "prune", "kill"}

(* What is kept of the execution in hand ends with it. *)
Forget ==
  /\ exec' = NoExec
  /\ known' = {}
  /\ excluded' = FALSE
  /\ due' = {}
  /\ patches' = {}

Step(from, to) == at = from /\ at' = to

(* Nothing but git's state changes, nothing but the configuration's. *)
GitOnly    == UNCHANGED <<configVars, exec, taken, roles, historyVars>>
ConfigOnly == UNCHANGED <<gitVars, exec, taken, roles, historyVars>>

(* A step fails: the failure is reported elsewhere, cleanup is next. *)
Fails(from) == Step(from, "remove")

-------------------------------------------------------------------------------
(* Preparing *)

TakeUp(e) ==
  /\ Step("idle", "mirror") /\ taken[e] < MaxTakes[e]
  /\ exec' = e
  /\ taken' = [taken EXCEPT ![e] = @ + 1]
  /\ UNCHANGED <<gitVars, configVars, roles, historyVars>>

(* ensure_mirror: fetch into the directory if it is there ... *)
FetchMirror ==
  /\ Step("mirror", "worktree")
  /\ Fetched(ProjectOf[exec])
  /\ known' = published
  /\ UNCHANGED <<configVars, exec, taken, roles, crashes, excluded, due,
                 patches, disturbed>>

(* ... and clone if it is not. *)
StartClone ==
  /\ Step("mirror", "cloning")
  /\ mirror[ProjectOf[exec]] = "none"
  /\ UNCHANGED gitVars
  /\ GitOnly

FinishClone ==
  /\ Step("cloning", "worktree")
  /\ Cloned(ProjectOf[exec])
  /\ known' = published
  /\ UNCHANGED <<configVars, exec, taken, roles, crashes, excluded, due,
                 patches, disturbed>>

(* Mutant of MirrorFails: the execution is let go before its cleanup. *)
MirrorFailsLetsGo ==
  /\ Fails("mirror") \/ Fails("cloning")
  /\ Forget
  /\ UNCHANGED <<gitVars, configVars, taken, roles, crashes, disturbed>>

(* A failed fetch changes nothing, a failed clone removes its directory,   *)
(* and in a broken mirror every fetch fails.                               *)
MirrorFails ==
  /\ Fails("mirror") \/ Fails("cloning")
  /\ UNCHANGED <<gitVars, configVars, exec, taken, roles, historyVars>>

CreateWorktree ==
  /\ Step("worktree", "exclude")
  /\ HasBase(exec)
  /\ WorktreeAdded(exec)
  /\ GitOnly

(* No base commit, a directory in the way, or git will not. *)
CreateWorktreeFails ==
  /\ Fails("worktree")
  /\ UNCHANGED <<gitVars, configVars, exec, taken, roles, historyVars>>

(* exclude_from_status is best effort: both outcomes go on. *)
ExcludeFromStatus ==
  /\ Step("exclude", "render")
  /\ \/ Excluded(exec) /\ excluded' = TRUE
     \/ UNCHANGED <<gitVars, excluded>>
  /\ UNCHANGED <<configVars, exec, taken, roles, crashes, known, due,
                 patches, disturbed>>

RenderConfig ==
  /\ Step("render", "merge")
  /\ Rendered(taken[exec])
  /\ ConfigOnly

(* The allocator before (preflight, validate) or at the rendering. *)
RenderConfigFails ==
  /\ Fails("render")
  /\ RenderFails
  /\ UNCHANGED <<gitVars, exec, taken, roles, historyVars>>

MergeConfig ==
  /\ Step("merge", "publish")
  /\ BoundToBase
  /\ ConfigOnly

PublishConfig ==
  /\ Step("publish", "role")
  /\ Published(exec)
  /\ ConfigOnly

(* Unreadable, no JSON, a block missing, or the rename fails. *)
ConfigFails ==
  /\ Fails("merge") \/ Fails("publish")
  /\ Discarded
  /\ UNCHANGED <<gitVars, exec, taken, roles, historyVars>>

-------------------------------------------------------------------------------
(* The role *)

(* Runtime, session and client come up, the governance file is written     *)
(* (which may fail) and the handoff goes in.  A session that is still      *)
(* there is not shared.                                                    *)
StartRole ==
  /\ Step("role", "stage") /\ exec \notin roles
  /\ \/ Written(exec, Governance)
     \/ UNCHANGED gitVars
  /\ roles' = roles \cup {exec}
  /\ UNCHANGED <<configVars, exec, taken, historyVars>>

(* Anything from the runtime to the handoff fails, with the client up or   *)
(* not, or the role delivers nothing.                                      *)
RoleFails ==
  /\ \/ Fails("role") /\ roles' \in {roles, roles \cup {exec}}
     \/ Fails("stage") /\ UNCHANGED roles
  /\ UNCHANGED <<gitVars, configVars, exec, taken, historyVars>>

(* A live role writes a file, in hand or left over, before its result is   *)
(* collected, meanwhile, and after the worktree was removed.               *)
RoleWrites(e) ==
  /\ e \in roles
  /\ \E f \in WritesOf[e] \ changed[e] : Written(e, f)
  /\ UNCHANGED <<configVars, threadVars, roles, crashes, known, excluded, due,
                 patches>>
  /\ disturbed' = IF e \in directory THEN disturbed ELSE disturbed \cup {e}

(* The session ends on its own. *)
RoleEnds(e) ==
  /\ e \in roles
  /\ roles' = roles \ {e}
  /\ UNCHANGED <<gitVars, configVars, threadVars, historyVars>>

-------------------------------------------------------------------------------
(* Collecting *)

(* The deliverable is there: the role's, or one the base already had. *)
Delivered(e) == DeliverableOf[e] \in changed[e] \cup TrackedAt[BaseOf[e]]

(* commit_result, only in the patch modes: git add -A ... *)
StageResult ==
  /\ Step("stage", "status") /\ exec \in PatchMode
  /\ Delivered(exec)
  /\ Staged(exec)
  /\ due' = changed[exec]
  /\ UNCHANGED <<configVars, exec, taken, roles, crashes, known,
                 excluded, patches, disturbed>>

(* ... git status: nothing to commit, or something ... *)
ReadStatus ==
  /\ at = "status"
  /\ at' = IF Visible(exec) = {} THEN "diff" ELSE "commit"
  /\ UNCHANGED gitVars
  /\ GitOnly

(* ... git commit. *)
CommitResult ==
  /\ Step("commit", "diff")
  /\ Committed(exec)
  /\ GitOnly

SkipCommit ==
  /\ Step("stage", "diff") /\ exec \notin PatchMode
  /\ Delivered(exec)
  /\ UNCHANGED gitVars
  /\ GitOnly

(* generate_patch: git diff from the base to HEAD. *)
GeneratePatch ==
  /\ Step("diff", "remove")
  /\ patches' = {committed[exec]}
  /\ UNCHANGED <<gitVars, configVars, exec, taken, roles, crashes,
                 known, excluded, due, disturbed>>

CollectFails ==
  /\ Fails("status") \/ Fails("commit") \/ Fails("diff")
  /\ UNCHANGED <<gitVars, configVars, exec, taken, roles, historyVars>>

-------------------------------------------------------------------------------
(* _cleanup: git.cleanup, then tmux.kill *)

(* Nothing there: a no-op, whatever the mirror has registered. *)
NothingToRemove ==
  /\ Step("remove", "kill") /\ exec \notin directory
  /\ UNCHANGED gitVars
  /\ GitOnly

RemoveWorktree ==
  /\ Step("remove", "prune") /\ exec \in directory /\ Owned(exec)
  /\ WorktreeRemoved(exec)
  /\ GitOnly

(* git worktree remove fails: shutil.rmtree instead. *)
RemoveRefused ==
  /\ Step("remove", "rmtree") /\ exec \in directory /\ Owned(exec)
  /\ UNCHANGED gitVars
  /\ GitOnly

RemoveTree ==
  /\ Step("rmtree", "prune")
  /\ TreesRemoved({exec})
  /\ GitOnly

PruneMirror ==
  /\ Step("prune", "kill")
  /\ Pruned(ProjectOf[exec])
  /\ GitOnly

(* No mirror lists the path, or listing failed: rmtree, and no prune. *)
RemoveUnowned ==
  /\ Step("remove", "kill") /\ exec \in directory
  /\ TreesRemoved({exec})
  /\ disturbed' = disturbed \cup {exec}
  /\ UNCHANGED <<configVars, exec, taken, roles, crashes, known,
                 excluded, due, patches>>

(* rmtree or prune raises: noted in the event, and the session is next. *)
CleanupFails ==
  /\ \/ Step("remove", "kill") /\ exec \in directory
     \/ Step("rmtree", "kill")
     \/ Step("prune", "kill")
  /\ disturbed' = disturbed \cup {exec}
  /\ UNCHANGED <<gitVars, configVars, exec, taken, roles, crashes,
                 known, excluded, due, patches>>

(* The report before the cleanup raised, and the catch-all's report too:   *)
(* nothing is cleaned up.                                                  *)
Abandoned ==
  /\ Step("remove", "idle")
  /\ disturbed' = disturbed \cup {exec}
  /\ Forget
  /\ UNCHANGED <<gitVars, configVars, taken, roles, crashes>>

(* Mutant of KillSession: every session goes. *)
KillServer ==
  /\ Step("kill", "idle")
  /\ roles' = {}
  /\ Forget
  /\ UNCHANGED <<gitVars, configVars, taken, crashes, disturbed>>

(* The session goes last, and the role with it, unless the kill fails. *)
KillSession ==
  /\ Step("kill", "idle")
  /\ roles' \in {roles, roles \ {exec}}
  /\ Forget
  /\ UNCHANGED <<gitVars, configVars, taken, crashes, disturbed>>

-------------------------------------------------------------------------------
(* The process and its surroundings *)

(* Killed before the rename or after it: all or nothing is published. *)
ConfigCutShort ==
  \/ UNCHANGED target
  \/ at = "publish" /\ target' = [target EXCEPT ![exec] = draft]

Crash ==
  /\ at # "down" /\ crashes < MaxCrashes
  /\ crashes' = crashes + 1
  /\ at' = "down"
  /\ Forget
  /\ draft' = NoConfig
  /\ ConfigCutShort
  /\ \/ at = "cloning" /\ CloneCutShort(ProjectOf[exec])
     \/ at = "worktree" /\ HasBase(exec) /\ WorktreeAddCutShort(exec)
     \/ at = "worktree" /\ HasBase(exec) /\ WorktreeAdded(exec)
     \/ UNCHANGED gitVars
  /\ roles' \in {roles, {}}
  /\ disturbed' = IF exec = NoExec THEN disturbed ELSE disturbed \cup {exec}
  /\ UNCHANGED taken

(* The sweep before the first execution and between later ones. *)
Sweep ==
  /\ at \in {"idle", "down"}
  /\ at' = "idle"
  /\ \E old \in SUBSET directory :
       TreesRemoved(old) /\ disturbed' = disturbed \cup old
  /\ UNCHANGED <<configVars, exec, taken, roles, crashes, known,
                 excluded, due, patches>>

RemotePublishes ==
  /\ \E c \in Commits : Publish(c)
  /\ UNCHANGED <<configVars, threadVars, roles, historyVars>>

-------------------------------------------------------------------------------

Init ==
  /\ GitInit
  /\ target = [e \in Executions |-> NoConfig]
  /\ draft = NoConfig
  /\ at = "idle"
  /\ exec = NoExec
  /\ taken = [e \in Executions |-> 0]
  /\ roles = {}
  /\ crashes = 0
  /\ known = {}
  /\ excluded = FALSE
  /\ due = {}
  /\ patches = {}
  /\ disturbed = {}

WorkerStep ==
  \/ \E e \in Executions : TakeUp(e)
  \/ FetchMirror \/ StartClone \/ FinishClone \/ MirrorFails
  \/ CreateWorktree \/ CreateWorktreeFails
  \/ ExcludeFromStatus
  \/ RenderConfig \/ RenderConfigFails \/ MergeConfig \/ PublishConfig
  \/ ConfigFails
  \/ StartRole \/ RoleFails
  \/ StageResult \/ ReadStatus \/ CommitResult \/ SkipCommit \/ GeneratePatch
  \/ CollectFails
  \/ NothingToRemove \/ RemoveWorktree \/ RemoveRefused \/ RemoveTree
  \/ PruneMirror \/ RemoveUnowned \/ CleanupFails \/ Abandoned
  \/ KillSession
  \/ Sweep

Next ==
  \/ WorkerStep
  \/ \E e \in Executions : RoleWrites(e) \/ RoleEnds(e)
  \/ RemotePublishes
  \/ Crash

Spec == Init /\ [][Next]_vars

(* The new files that an execution's own two patterns hide from git, or    *)
(* the .gitignore of the commit it starts from.                            *)
HiddenByOwn(e) ==
  (Hides[DeliverableOf[e]] \cup Hides[Governance] \cup IgnoredAt[BaseOf[e]])
    \ TrackedAt[BaseOf[e]]

(* No execution writes a new file that another one's deliverable, read as  *)
(* a pattern, hides and its own does not.                                  *)
OwnPaths ==
  \A e, o \in Executions :
    o # e /\ ProjectOf[o] = ProjectOf[e] =>
      Hides[DeliverableOf[o]] \cap WritesOf[e]
        \subseteq TrackedAt[BaseOf[e]] \cup HiddenByOwn(e)

-------------------------------------------------------------------------------
(* Properties *)

Rendering == at \in {"merge", "publish"}

TypeOK ==
  /\ GitTypeOK
  /\ at \in Places
  /\ exec \in Executions \cup {NoExec}
  /\ taken \in [Executions -> Nat]
  /\ roles \subseteq Executions
  /\ crashes \in 0..MaxCrashes
  /\ known \subseteq Commits
  /\ excluded \in BOOLEAN
  /\ due \subseteq AllFiles
  /\ disturbed \subseteq Executions
  /\ DOMAIN target = Executions
  /\ patches \subseteq SUBSET AllFiles

(* What the role created or changed by the time its result was staged is   *)
(* in the patch, every change to a tracked file and every new file but     *)
(* those that this execution's own patterns or the repository's .gitignore *)
(* hide: what other executions had hidden in the same mirror is no matter. *)
PatchHasRolesWork ==
  \A patch \in patches :
    exec \in PatchMode => due \subseteq patch \cup HiddenByOwn(exec)

(* What worker.py says of the patch: "untracked files the role created are *)
(* captured", all but the deliverable and .lightworker/.                   *)
UntrackedAreCaptured ==
  \A patch \in patches :
    exec \in PatchMode =>
      due \subseteq patch \cup {DeliverableOf[exec], Governance}

(* ... and those two stay out of it, if the exclude file could be written  *)
(* and the base commit does not have the deliverable already.              *)
PatchLeavesOutBookkeeping ==
  \A patch \in patches :
    excluded =>
      /\ Governance \notin patch
      /\ DeliverableOf[exec] \notin patch \ TrackedAt[BaseOf[exec]]

(* A worktree can be made at every commit of the default branch that was   *)
(* published when the mirror was ensured, however old the mirror is.       *)
MirrorKnowsDefault ==
  at = "worktree" =>
    known \cap DefaultBranch \cap CommitsOf(ProjectOf[exec])
      \subseteq objects[ProjectOf[exec]]

(* No execution's step takes away what another one has: its directory, or  *)
(* the registration of a directory that is there.                          *)
OthersUndisturbed ==
  [][\A e \in Executions \ {exec} :
       at \notin {"idle", "down"} /\ e \in directory =>
         /\ e \in directory'
         /\ \A p \in Projects : e \in registered[p] => e \in registered'[p]]_vars

(* Between executions, directories and registrations match, except for     *)
(* executions whose worktree the worker did not take down in a cleanup     *)
(* that went through: swept, cut off by a crash, failed half way, or       *)
(* written to after the removal.                                           *)
RegistrationsMatch ==
  at \in {"idle", "down"} =>
    \A e \in Executions \ disturbed :
      e \notin directory /\ \A p \in Projects : e \notin registered[p]

(* Confined, with model and provider, and with every path that all base    *)
(* configurations have and no rendering contradicts.                       *)
UsableOver(c) ==
  /\ Usable(c)
  /\ BaseNamed => \A p \in UNION BaseConfigs :
       /\ \A base \in BaseConfigs : p \in base
       /\ \A q \in UNION Renderings : ~Conflict(p, q)
       => p \in Leaves(c)

(* Whatever is at an execution's configuration path, at every instant and  *)
(* after every crash, is usable: it confines the role (permission), names  *)
(* model and provider, and has all that every base configuration has and   *)
(* no rendering contradicts, the machine's provider endpoint among it.     *)
PublishedIsUsable ==
  \A e \in Executions : target[e] # NoConfig => UsableOver(target[e])

(* The client is started with the configuration of this take-up, never     *)
(* with one that an earlier attempt of the same execution left.            *)
ClientReadsOwnConfig ==
  at \in {"role", "stage"} => target[exec].take = taken[exec]

-------------------------------------------------------------------------------
(* Refinement of Holdings *)

Prepared == {"exclude", "render", "merge", "publish", "role", "stage",
             "status", "commit", "diff"}
Removing == {"remove", "rmtree", "prune", "kill"}

Held == INSTANCE Holdings WITH
  holder <- exec,
  phase  <- IF at = "down" THEN "down"
            ELSE IF exec = NoExec THEN "none"
            ELSE IF at \in Removing THEN "removing" ELSE "using",
  dirs   <- directory,
  live   <- roles

(* Directories and roles come and go as Holdings has it: the thread        *)
(* touches only what the execution in hand holds, takes its directory away *)
(* in the cleanup only, and sweeps with nothing in hand.                   *)
ImplementsHoldings == Held!Spec

-------------------------------------------------------------------------------
(* The inductive invariant *)

(* Files that stay out of the patch of the execution in hand. *)
Bookkeeping == {Governance} \cup ({DeliverableOf[exec]} \ TrackedAt[BaseOf[exec]])

HeldInHand == exec = NoExec <=> at \in {"idle", "down"}

(* What a directory that is gone held is gone too; who hides what; what    *)
(* may be written where.                                                   *)
DiskMakesSense ==
  /\ \A p \in Projects : \A e \in registered[p] : p = ProjectOf[e]
  /\ \A e \in Executions \ directory :
       changed[e] = {} /\ index[e] = {} /\ committed[e] = {}
  /\ \A p \in Projects : \A f \in hidden[p] :
       f = Governance \/ \E o \in Executions : ProjectOf[o] = p /\ f = DeliverableOf[o]
  /\ \A e \in Executions : changed[e] \subseteq WritesOf[e] \cup {Governance}

(* The work staged is on its way into the patch ... *)
WorkIsKept ==
  /\ at \in {"status", "commit"} =>
       due \subseteq changed[exec] /\ due \subseteq index[exec] \cup HiddenByOwn(exec)
  /\ at = "diff" /\ exec \in PatchMode =>
       due \subseteq committed[exec] \cup HiddenByOwn(exec)

(* ... and the bookkeeping is not. *)
BookkeepingIsHidden ==
  /\ at \in Prepared \ {"diff"} => committed[exec] = {}
  /\ patches # {} => at \in Removing
  /\ excluded => exec \in Executions /\ {Governance, DeliverableOf[exec]} \subseteq hidden[ProjectOf[exec]]
  /\ excluded /\ at \in {"status", "commit"} => index[exec] \cap Bookkeeping = {}
  /\ excluded /\ at = "diff" => committed[exec] \cap Bookkeeping = {}

(* Where the worktree of an undisturbed execution and its registration are. *)
TreesMatch ==
  \A e \in Executions \ disturbed :
    LET there  == e \in directory
        listed == e \in registered[ProjectOf[e]]
    IN /\ e # exec \/ at \in {"mirror", "cloning", "worktree", "kill"}
            => ~there /\ ~listed
       /\ e = exec /\ at \in Prepared => there /\ listed
       /\ e = exec /\ at = "remove" => (there <=> listed)
       /\ e = exec /\ at = "prune" => ~there

DraftIsOwn ==
  /\ Rendering => draft.take = taken[exec]
  /\ at = "merge" => draft.model \in Renderings
  /\ at = "publish" => UsableOver(draft)

(* All that keeps the machine's parts in step. *)
MachineInv ==
  /\ TypeOK
  /\ HeldInHand
  /\ DiskMakesSense
  /\ OwnPaths => WorkIsKept /\ PatchHasRolesWork
  /\ BookkeepingIsHidden /\ PatchLeavesOutBookkeeping
  /\ MirrorKnowsDefault
  /\ TreesMatch
  /\ DraftIsOwn /\ PublishedIsUsable /\ ClientReadsOwnConfig
===============================================================================
