---------------------------- MODULE GitWorkspace ----------------------------
(***************************************************************************)
(* What GitWorkspace does to the disk: one bare mirror per project, one    *)
(* worktree per execution, and what git keeps in the mirror for all of     *)
(* them, the registrations and the exclude file.  Each operator here is    *)
(* one git command or one file operation, with its guard; Machine puts     *)
(* them in the order the worker's thread runs them.                        *)
(***************************************************************************)
EXTENDS Naturals

CONSTANTS
  Executions,    \* execution ids
  Projects,      \* project keys
  Commits,       \* base commits Father may name
  Files,         \* files a role may write, its deliverable among them
  Governance,    \* the worker's own file, under .lightworker/
  ProjectOf,     \* ProjectOf[e]: the project of execution e
  BaseOf,        \* BaseOf[e]: its base commit
  DeliverableOf, \* DeliverableOf[e]: its expected_deliverable
  HomeOf,        \* HomeOf[c]: the project commit c belongs to
  DefaultBranch, \* the commits on their remote's default branch
  TrackedAt,     \* TrackedAt[c]: the files commit c already has
  IgnoredAt,     \* IgnoredAt[c]: the files the .gitignore of commit c hides
  Hides,         \* Hides[f]: the files hidden by the pattern written for f
  Canonical      \* git spells worktree_root as worker.yaml does

AllFiles == Files \cup {Governance}

ASSUME GitWorkspaceAssumption ==
  /\ ProjectOf \in [Executions -> Projects]
  /\ BaseOf \in [Executions -> Commits]
  /\ DeliverableOf \in [Executions -> Files]
  /\ HomeOf \in [Commits -> Projects]
  /\ \A e \in Executions : HomeOf[BaseOf[e]] = ProjectOf[e]
  /\ DefaultBranch \subseteq Commits
  /\ TrackedAt \in [Commits -> SUBSET Files]
  /\ Governance \notin Files
  /\ IgnoredAt \in [Commits -> SUBSET Files]
  /\ Hides \in [AllFiles -> SUBSET AllFiles]
  /\ \A f \in AllFiles : f \in Hides[f]
  /\ Canonical \in BOOLEAN

VARIABLES
  published,  \* the commits that are at their remote
  mirror,     \* mirror[p]: "none", "broken" (a directory git cannot use), "ready"
  objects,    \* objects[p]: the commits p's mirror holds
  registered, \* registered[p]: executions whose worktree p's mirror lists
  hidden,     \* hidden[p]: the paths p's info/exclude has a pattern for
  directory,  \* executions with a directory under worktree_root
  changed,    \* changed[e]: files written in e's worktree since the checkout
  index,      \* index[e]: files staged there
  committed   \* committed[e]: files in which HEAD differs from the base

mirrorVars == <<mirror, objects, registered, hidden>>
treeVars   == <<directory, changed, index, committed>>
gitVars    == <<published, mirrorVars, treeVars>>

CommitsOf(p) == {c \in Commits : HomeOf[c] = p}

-------------------------------------------------------------------------------
(* The remote *)

Publish(c) ==
  /\ c \notin published
  /\ published' = published \cup {c}
  /\ UNCHANGED <<mirrorVars, treeVars>>

-------------------------------------------------------------------------------
(* Mirrors *)

(* A bare clone has everything that is published. *)
Cloned(p) ==
  /\ mirror' = [mirror EXCEPT ![p] = "ready"]
  /\ objects' = [objects EXCEPT ![p] = published \cap CommitsOf(p)]
  /\ UNCHANGED <<published, registered, hidden, treeVars>>

(* A clone that dies half way leaves a directory: one git does not know as *)
(* a repository, or one that has its remote but no objects yet.            *)
CloneCutShort(p) ==
  /\ mirror' \in {[mirror EXCEPT ![p] = s] : s \in {"none", "broken", "ready"}}
  /\ UNCHANGED <<published, objects, registered, hidden, treeVars>>

(* Mutant of Fetched: nothing is fetched into a mirror that has objects. *)
FetchedOnce(p) ==
  /\ mirror[p] = "ready"
  /\ objects' = IF objects[p] # {} THEN objects
                ELSE [objects EXCEPT ![p] = published \cap CommitsOf(p)]
  /\ UNCHANGED <<published, mirror, registered, hidden, treeVars>>

(* git clone --bare writes no fetch refspec: fetching brings the remote's  *)
(* HEAD and nothing else.                                                  *)
Fetched(p) ==
  /\ mirror[p] = "ready"
  /\ objects' = [objects EXCEPT ![p] =
                   @ \cup (published \cap CommitsOf(p) \cap DefaultBranch)]
  /\ UNCHANGED <<published, mirror, registered, hidden, treeVars>>

-------------------------------------------------------------------------------
(* Worktrees *)

HasBase(e) == mirror[ProjectOf[e]] = "ready" /\ BaseOf[e] \in objects[ProjectOf[e]]

(* git refuses a path that is registered although its directory is gone. *)
CanAdd(e) == e \notin directory /\ e \notin registered[ProjectOf[e]]

Register(e) ==
  registered' = [registered EXCEPT ![ProjectOf[e]] = @ \cup {e}]

(* git worktree add --detach: a checkout of exactly the base commit. *)
WorktreeAdded(e) ==
  /\ CanAdd(e)
  /\ Register(e)
  /\ directory' = directory \cup {e}
  /\ UNCHANGED <<published, mirror, objects, hidden, changed, index, committed>>

(* The same, killed after the registration and before the checkout. *)
WorktreeAddCutShort(e) ==
  /\ CanAdd(e)
  /\ Register(e)
  /\ UNCHANGED <<published, mirror, objects, hidden, treeVars>>

(* Mutant of Excluded: the file is written afresh for this execution. *)
ExcludedAlone(e) ==
  /\ hidden' = [hidden EXCEPT ![ProjectOf[e]] = {DeliverableOf[e]}]
  /\ UNCHANGED <<published, mirror, objects, registered, treeVars>>

(* In a linked worktree, info/exclude is the mirror's: one file for all    *)
(* executions of the project, past and present, and it only grows.  What   *)
(* is appended are the directory .lightworker/ and the deliverable's path  *)
(* as it is, which git reads as patterns.                                  *)
Excluded(e) ==
  /\ hidden' = [hidden EXCEPT ![ProjectOf[e]] =
                  @ \cup {Governance, DeliverableOf[e]}]
  /\ UNCHANGED <<published, mirror, objects, registered, treeVars>>

(* A file is written in e's worktree.  Written under a directory that was  *)
(* removed, it brings the directory back.                                  *)
Written(e, f) ==
  /\ directory' = directory \cup {e}
  /\ changed' = [changed EXCEPT ![e] = @ \cup {f}]
  /\ UNCHANGED <<published, mirrorVars, index, committed>>

-------------------------------------------------------------------------------
(* Results *)

(* A pattern hides by name or glob, its own path and maybe more: result.md *)
(* hides every file of that name.  The repository's own .gitignore hides   *)
(* as well.                                                                *)
Ignored(e, f) ==
  f \in IgnoredAt[BaseOf[e]] \/ \E h \in hidden[ProjectOf[e]] : f \in Hides[h]

(* What git add -A and git status see: changes to tracked files, and       *)
(* untracked files that nothing hides.                                     *)
Visible(e) ==
  {f \in changed[e] : f \in TrackedAt[BaseOf[e]] \/ ~Ignored(e, f)}

(* Mutant of Staged: git add -u, which sees tracked files only. *)
StagedTracked(e) ==
  /\ index' = [index EXCEPT ![e] = changed[e] \cap TrackedAt[BaseOf[e]]]
  /\ UNCHANGED <<published, mirrorVars, directory, changed, committed>>

Staged(e) ==
  /\ index' = [index EXCEPT ![e] = Visible(e)]
  /\ UNCHANGED <<published, mirrorVars, directory, changed, committed>>

(* git commit fails when nothing is staged. *)
Committed(e) ==
  /\ index[e] # {}
  /\ committed' = [committed EXCEPT ![e] = index[e]]
  /\ UNCHANGED <<published, mirrorVars, directory, changed, index>>

-------------------------------------------------------------------------------
(* Removal *)

(* The mirror that lists the worktree under the path the worker builds. *)
Owned(e) == Canonical /\ e \in registered[ProjectOf[e]]

(* The directories of gone are no more, nor is what was in them. *)
TreesGone(gone) ==
  LET Emptied(f) == [e \in Executions |-> IF e \in gone THEN {} ELSE f[e]]
  IN /\ directory' = directory \ gone
     /\ changed' = Emptied(changed)
     /\ index' = Emptied(index)
     /\ committed' = Emptied(committed)

(* git worktree remove: refused while the tree is dirty. *)
WorktreeRemoved(e) ==
  /\ Visible(e) \subseteq committed[e]
  /\ TreesGone({e})
  /\ registered' = [registered EXCEPT ![ProjectOf[e]] = @ \ {e}]
  /\ UNCHANGED <<published, mirror, objects, hidden>>

(* shutil.rmtree, in the cleanup and in the sweep: no mirror hears of it. *)
TreesRemoved(gone) ==
  /\ TreesGone(gone)
  /\ UNCHANGED <<published, mirrorVars>>

(* Mutant of Pruned: the registration is left to git's own housekeeping. *)
PrunedLater(p) == UNCHANGED gitVars

(* Mutant of Pruned: every registration of the mirror goes. *)
PrunedAll(p) ==
  /\ registered' = [registered EXCEPT ![p] = {}]
  /\ UNCHANGED <<published, mirror, objects, hidden, treeVars>>

(* git worktree prune: registrations without a directory go. *)
Pruned(p) ==
  /\ registered' = [registered EXCEPT ![p] = @ \cap directory]
  /\ UNCHANGED <<published, mirror, objects, hidden, treeVars>>

GitInit ==
  /\ published \in SUBSET Commits
  /\ mirror = [p \in Projects |-> "none"]
  /\ objects = [p \in Projects |-> {}]
  /\ registered = [p \in Projects |-> {}]
  /\ hidden = [p \in Projects |-> {}]
  /\ directory = {}
  /\ changed = [e \in Executions |-> {}]
  /\ index = [e \in Executions |-> {}]
  /\ committed = [e \in Executions |-> {}]

GitTypeOK ==
  /\ published \subseteq Commits
  /\ mirror \in [Projects -> {"none", "broken", "ready"}]
  /\ objects \in [Projects -> SUBSET Commits]
  /\ registered \in [Projects -> SUBSET Executions]
  /\ hidden \in [Projects -> SUBSET AllFiles]
  /\ directory \subseteq Executions
  /\ changed \in [Executions -> SUBSET AllFiles]
  /\ index \in [Executions -> SUBSET AllFiles]
  /\ committed \in [Executions -> SUBSET AllFiles]
===============================================================================
