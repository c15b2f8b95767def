----------------------------- MODULE MachineProofs -----------------------------
(***************************************************************************)
(* Theorems about Machine, for every set of executions, projects, commits  *)
(* and files, every allocator and every base configuration.                *)
(***************************************************************************)
EXTENDS Machine, TLAPS


(* The thread has an execution in hand unless it is between two. *)
LEMMA HeldStep ==
  ASSUME TypeOK, HeldInHand, [Next]_vars
  PROVE  HeldInHand'
<1> USE DEF gitVars, mirrorVars, treeVars, configVars, threadVars, historyVars,
            Step, TypeOK, HeldInHand, Places
<1>1. CASE \E e \in Executions : TakeUp(e)
  BY <1>1, MachineAssumption DEF TakeUp, MachineAssumption
<1>2. CASE FetchMirror \/ StartClone \/ FinishClone \/ MirrorFails \/ CreateWorktree \/
           CreateWorktreeFails \/ ExcludeFromStatus
  BY <1>2 DEF FetchMirror, Fetched, StartClone, GitOnly, FinishClone, Cloned,
              MirrorFails, Fails, CreateWorktree, WorktreeAdded, CanAdd,
              Register, HasBase, CreateWorktreeFails, ExcludeFromStatus,
              Excluded
<1>3. CASE RenderConfig \/ RenderConfigFails \/ MergeConfig \/ PublishConfig \/
           ConfigFails \/ StartRole \/ RoleFails
  BY <1>3 DEF RenderConfig, Rendered, ConfigOnly, RenderConfigFails,
              RenderFails, Fails, MergeConfig, BoundToBase, PublishConfig,
              Published, ConfigFails, Discarded, StartRole, Written, RoleFails
<1>4. CASE StageResult \/ ReadStatus \/ CommitResult \/ SkipCommit \/ GeneratePatch \/
           CollectFails \/ NothingToRemove
  BY <1>4 DEF StageResult, Staged, Visible, ReadStatus, GitOnly, CommitResult,
              Committed, SkipCommit, GeneratePatch, CollectFails, Fails,
              NothingToRemove
<1>5. CASE RemoveWorktree \/ RemoveRefused \/ RemoveTree \/ PruneMirror \/
           RemoveUnowned \/ CleanupFails \/ Abandoned
  BY <1>5 DEF RemoveWorktree, WorktreeRemoved, TreesGone, GitOnly,
              RemoveRefused, RemoveTree, TreesRemoved, PruneMirror, Pruned,
              RemoveUnowned, CleanupFails, Abandoned, Forget
<1>6. CASE KillSession \/ Sweep \/ (\E e \in Executions : RoleWrites(e)) \/
           RemotePublishes \/ Crash
  BY <1>6 DEF KillSession, Forget, Sweep, TreesRemoved, TreesGone, RoleWrites,
              Written, RemotePublishes, Publish, Crash, ConfigCutShort,
              CloneCutShort, WorktreeAddCutShort, WorktreeAdded, CanAdd,
              Register, HasBase
<1>7. CASE UNCHANGED vars
  BY <1>7 DEF vars
<1>8. CASE \E e \in Executions : RoleEnds(e)
  BY <1>8 DEF RoleEnds
<1> HIDE DEF TypeOK, HeldInHand, Places
<1>9. QED
  BY <1>1, <1>2, <1>3, <1>4, <1>5, <1>6, <1>7, <1>8 DEF Next, WorkerStep


(* The types of git's state: one step per action that touches it. *)
LEMMA GitTypeStep ==
  ASSUME TypeOK, HeldInHand, [Next]_vars
  PROVE  GitTypeOK'
<1> USE MachineAssumption, GitWorkspaceAssumption
    DEF gitVars, mirrorVars, treeVars, configVars, threadVars, historyVars,
        Step, TypeOK, GitTypeOK, HeldInHand, AllFiles, MachineAssumption,
        GitWorkspaceAssumption
<1>1. CASE FetchMirror
  BY <1>1 DEF FetchMirror, Fetched
<1>2. CASE FinishClone
  BY <1>2 DEF FinishClone, Cloned
<1>3. CASE CreateWorktree
  BY <1>3 DEF CreateWorktree, WorktreeAdded, CanAdd, Register, HasBase, GitOnly
<1>4. CASE ExcludeFromStatus
  <2>1. hidden' \in [Projects -> SUBSET AllFiles]
    <3>1. CASE Excluded(exec)
      BY <1>4, <3>1 DEF ExcludeFromStatus, Excluded
    <3>2. CASE UNCHANGED gitVars
      BY <3>2
    <3>3. QED
      BY <1>4, <3>1, <3>2 DEF ExcludeFromStatus
  <2>2. QED
    BY <1>4, <2>1 DEF ExcludeFromStatus, Excluded
<1>5. CASE StartRole
  BY <1>5 DEF StartRole, Written
<1>6. CASE \E e \in Executions : RoleWrites(e)
  BY <1>6 DEF RoleWrites, Written
<1>7. CASE StageResult
  BY <1>7 DEF StageResult, Staged, Visible
<1>8. CASE CommitResult
  BY <1>8 DEF CommitResult, Committed, GitOnly
<1>9. CASE RemoveWorktree
  BY <1>9 DEF RemoveWorktree, WorktreeRemoved, TreesGone, GitOnly
<1>10. CASE RemoveTree
  BY <1>10 DEF RemoveTree, TreesRemoved, TreesGone, GitOnly
<1>11. CASE RemoveUnowned
  BY <1>11 DEF RemoveUnowned, TreesRemoved, TreesGone
<1>12. CASE PruneMirror
  BY <1>12 DEF PruneMirror, Pruned, GitOnly
<1>13. CASE Sweep
  BY <1>13 DEF Sweep, TreesRemoved, TreesGone
<1>14. CASE RemotePublishes
  BY <1>14 DEF RemotePublishes, Publish
<1>15. CASE Crash
  BY <1>15 DEF Crash, Forget, ConfigCutShort, CloneCutShort,
               WorktreeAddCutShort, WorktreeAdded, CanAdd, Register, HasBase
<1>16. CASE (\E e \in Executions : TakeUp(e)) \/ StartClone \/ MirrorFails \/
            CreateWorktreeFails \/ RenderConfig \/ RenderConfigFails \/ MergeConfig
  BY <1>16 DEF TakeUp, StartClone, GitOnly, MirrorFails, Fails,
               CreateWorktreeFails, RenderConfig, Rendered, ConfigOnly,
               RenderConfigFails, RenderFails, MergeConfig, BoundToBase
<1>17. CASE PublishConfig \/ ConfigFails \/ RoleFails \/ ReadStatus \/ SkipCommit \/
            GeneratePatch \/ CollectFails
  BY <1>17 DEF PublishConfig, Published, ConfigOnly, ConfigFails, Discarded,
               Fails, RoleFails, ReadStatus, GitOnly, SkipCommit,
               GeneratePatch, CollectFails
<1>18. CASE NothingToRemove \/ RemoveRefused \/ CleanupFails \/ Abandoned \/
            KillSession
  BY <1>18 DEF NothingToRemove, GitOnly, RemoveRefused, CleanupFails,
               Abandoned, Forget, KillSession
<1>19. CASE UNCHANGED vars
  BY <1>19 DEF vars
<1>20. CASE \E e \in Executions : RoleEnds(e)
  BY <1>20 DEF RoleEnds
<1> HIDE DEF TypeOK, GitTypeOK, HeldInHand, AllFiles
<1>21. QED
  BY <1>1, <1>2, <1>3, <1>4, <1>5, <1>6, <1>7, <1>8, <1>9, <1>10, <1>11, <1>12,
     <1>13, <1>14, <1>15, <1>16, <1>17, <1>18, <1>19, <1>20 DEF Next, WorkerStep


(* The types of the rest. *)
LEMMA OwnTypeStep ==
  ASSUME TypeOK, HeldInHand, [Next]_vars
  PROVE  TypeOK'
<1>0. GitTypeOK'
  BY GitTypeStep
<1> USE <1>0
<1> USE MachineAssumption
    DEF gitVars, mirrorVars, treeVars, configVars, threadVars, historyVars,
        Step, TypeOK, HeldInHand, Places, AllFiles, Rendering,
        MachineAssumption
<1>1. CASE \E e \in Executions : TakeUp(e)
  BY <1>1 DEF TakeUp
<1>2. CASE RenderConfig
  BY <1>2 DEF RenderConfig, Rendered, ConfigOnly
<1>3. CASE PublishConfig
  BY <1>3 DEF PublishConfig, Published, ConfigOnly
<1>4. CASE ConfigFails
  BY <1>4 DEF ConfigFails, Discarded, Fails
<1>5. CASE \E e \in Executions : RoleWrites(e)
  BY <1>5 DEF RoleWrites, Written
<1>6. CASE FetchMirror
  BY <1>6 DEF FetchMirror, GitTypeOK
<1>7. CASE FinishClone
  BY <1>7 DEF FinishClone, GitTypeOK
<1>8. CASE StageResult
  BY <1>8 DEF StageResult, GitTypeOK
<1>9. CASE GeneratePatch
  BY <1>9 DEF GeneratePatch, GitTypeOK
<1>10. CASE Sweep
  BY <1>10 DEF Sweep, GitTypeOK
<1>11. CASE Crash
  <2>1. crashes' \in 0..MaxCrashes
    BY <1>11 DEF Crash, ConfigCutShort
  <2>2. DOMAIN target' = Executions
    BY <1>11 DEF Crash, ConfigCutShort
  <2>3. disturbed' \subseteq Executions /\ roles' \subseteq Executions
    BY <1>11 DEF Crash
  <2>4. QED
    BY <1>11, <2>1, <2>2, <2>3 DEF Crash, Forget
<1>12. CASE StartClone \/ MirrorFails \/ CreateWorktree \/ CreateWorktreeFails \/
            ExcludeFromStatus \/ RenderConfigFails \/ MergeConfig
  BY <1>12 DEF StartClone, GitOnly, MirrorFails, Fails, CreateWorktree,
               WorktreeAdded, CanAdd, Register, HasBase, CreateWorktreeFails,
               ExcludeFromStatus, Excluded, RenderConfigFails, RenderFails,
               MergeConfig, BoundToBase, ConfigOnly
<1>13. CASE StartRole \/ RoleFails \/ ReadStatus \/ CommitResult \/ SkipCommit \/
            CollectFails \/ NothingToRemove
  BY <1>13 DEF StartRole, Written, RoleFails, Fails, ReadStatus, GitOnly,
               CommitResult, Committed, SkipCommit, CollectFails,
               NothingToRemove
<1>14. CASE RemoveWorktree \/ RemoveRefused \/ RemoveTree \/ PruneMirror \/
            RemoveUnowned \/ CleanupFails \/ Abandoned
  BY <1>14 DEF RemoveWorktree, WorktreeRemoved, TreesGone, GitOnly,
               RemoveRefused, RemoveTree, TreesRemoved, PruneMirror, Pruned,
               RemoveUnowned, CleanupFails, Abandoned, Forget
<1>15. CASE KillSession \/ RemotePublishes
  BY <1>15 DEF KillSession, Forget, RemotePublishes, Publish
<1>16. CASE UNCHANGED vars
  BY <1>16 DEF vars
<1>17. CASE \E e \in Executions : RoleEnds(e)
  BY <1>17 DEF RoleEnds
<1> HIDE DEF TypeOK, HeldInHand, Places, AllFiles, Rendering
<1>18. QED
  BY <1>1, <1>2, <1>3, <1>4, <1>5, <1>6, <1>7, <1>8, <1>9, <1>10, <1>11, <1>12,
     <1>13, <1>14, <1>15, <1>16, <1>17 DEF Next, WorkerStep


(* What lies on the disk is somebody's: a step per action that touches it. *)
LEMMA DiskStep ==
  ASSUME TypeOK, HeldInHand, DiskMakesSense, [Next]_vars
  PROVE  DiskMakesSense'
<1> USE MachineAssumption, GitWorkspaceAssumption
    DEF gitVars, mirrorVars, treeVars, configVars, threadVars, historyVars,
        Step, TypeOK, GitTypeOK, HeldInHand, DiskMakesSense, MachineAssumption,
        GitWorkspaceAssumption
<1>1. CASE CreateWorktree
  BY <1>1 DEF CreateWorktree, WorktreeAdded, CanAdd, Register, HasBase, GitOnly
<1>2. CASE ExcludeFromStatus
  BY <1>2 DEF ExcludeFromStatus, Excluded
<1>3. CASE StartRole
  BY <1>3 DEF StartRole, Written
<1>4. CASE \E e \in Executions : RoleWrites(e)
  BY <1>4 DEF RoleWrites, Written
<1>5. CASE StageResult
  BY <1>5 DEF StageResult, Staged, Visible
<1>6. CASE CommitResult
  BY <1>6 DEF CommitResult, Committed, GitOnly
<1>7. CASE RemoveWorktree
  BY <1>7 DEF RemoveWorktree, WorktreeRemoved, TreesGone, GitOnly
<1>8. CASE RemoveTree
  BY <1>8 DEF RemoveTree, TreesRemoved, TreesGone, GitOnly
<1>9. CASE RemoveUnowned
  BY <1>9 DEF RemoveUnowned, TreesRemoved, TreesGone
<1>10. CASE PruneMirror
  BY <1>10 DEF PruneMirror, Pruned, GitOnly
<1>11. CASE Sweep
  BY <1>11 DEF Sweep, TreesRemoved, TreesGone
<1>12. CASE Crash
  BY <1>12 DEF Crash, Forget, ConfigCutShort, CloneCutShort,
               WorktreeAddCutShort, WorktreeAdded, CanAdd, Register, HasBase
<1>13. CASE (\E e \in Executions : TakeUp(e)) \/ FetchMirror \/ StartClone \/
            FinishClone \/ MirrorFails \/ CreateWorktreeFails \/ RenderConfig
  BY <1>13 DEF TakeUp, FetchMirror, Fetched, StartClone, GitOnly, FinishClone,
               Cloned, MirrorFails, Fails, CreateWorktreeFails, RenderConfig,
               Rendered, ConfigOnly
<1>14. CASE RenderConfigFails \/ MergeConfig \/ PublishConfig \/ ConfigFails \/
            RoleFails \/ ReadStatus \/ SkipCommit
  BY <1>14 DEF RenderConfigFails, RenderFails, Fails, MergeConfig, BoundToBase,
               ConfigOnly, PublishConfig, Published, ConfigFails, Discarded,
               RoleFails, ReadStatus, GitOnly, SkipCommit
<1>15. CASE GeneratePatch \/ CollectFails \/ NothingToRemove \/ RemoveRefused \/
            CleanupFails \/ Abandoned \/ KillSession
  BY <1>15 DEF GeneratePatch, CollectFails, Fails, NothingToRemove, GitOnly,
               RemoveRefused, CleanupFails, Abandoned, Forget, KillSession
<1>16. CASE RemotePublishes
  BY <1>16 DEF RemotePublishes, Publish
<1>17. CASE UNCHANGED vars
  BY <1>17 DEF vars
<1>18. CASE \E e \in Executions : RoleEnds(e)
  BY <1>18 DEF RoleEnds
<1> HIDE DEF TypeOK, GitTypeOK, HeldInHand, DiskMakesSense
<1>19. QED
  BY <1>1, <1>2, <1>3, <1>4, <1>5, <1>6, <1>7, <1>8, <1>9, <1>10, <1>11, <1>12,
     <1>13, <1>14, <1>15, <1>16, <1>17, <1>18 DEF Next, WorkerStep


(* Where nobody writes what another one's report hides, what is hidden of  *)
(* an execution's changes is hidden by its own patterns.                   *)
LEMMA HiddenIsOwn ==
  ASSUME OwnPaths, TypeOK, DiskMakesSense, NEW e \in Executions
  PROVE  changed[e] \subseteq Visible(e) \cup HiddenByOwn(e)
<1>1. SUFFICES ASSUME NEW f \in changed[e], f \notin Visible(e)
               PROVE  f \in HiddenByOwn(e)
  OBVIOUS
<1>2. f \notin TrackedAt[BaseOf[e]] /\ Ignored(e, f) /\ f \in WritesOf[e] \cup {Governance}
  BY <1>1 DEF Visible, DiskMakesSense
<1>3. CASE f \in IgnoredAt[BaseOf[e]] \/ f = Governance
  BY <1>2, <1>3, GitWorkspaceAssumption
     DEF HiddenByOwn, GitWorkspaceAssumption, AllFiles
<1>4. CASE f \notin IgnoredAt[BaseOf[e]] /\ f # Governance
  <2>1. PICK h \in hidden[ProjectOf[e]] : f \in Hides[h]
    BY <1>2, <1>4 DEF Ignored
  <2>2. CASE h = Governance
    BY <1>2, <2>1, <2>2 DEF HiddenByOwn
  <2>3. CASE \E o \in Executions : ProjectOf[o] = ProjectOf[e] /\ h = DeliverableOf[o]
    BY <1>2, <1>4, <2>1, <2>3 DEF OwnPaths, HiddenByOwn
  <2>4. QED
    BY <2>2, <2>3, GitWorkspaceAssumption DEF DiskMakesSense, GitWorkspaceAssumption
<1>5. QED
  BY <1>3, <1>4


(* The work staged reaches the patch. *)
LEMMA WorkStep ==
  ASSUME OwnPaths, TypeOK, HeldInHand, DiskMakesSense,
         patches # {} => at \in Removing, WorkIsKept, PatchHasRolesWork, [Next]_vars
  PROVE  WorkIsKept' /\ PatchHasRolesWork'
<1> USE MachineAssumption, GitWorkspaceAssumption
    DEF gitVars, mirrorVars, treeVars, configVars, threadVars, historyVars,
        Step, TypeOK, GitTypeOK, HeldInHand, WorkIsKept, PatchHasRolesWork,
        Removing, MachineAssumption, GitWorkspaceAssumption
<1>1. CASE \E e \in Executions : RoleWrites(e)
  BY <1>1 DEF RoleWrites, Written
<1>2. CASE StageResult
  BY <1>2, HiddenIsOwn DEF StageResult, Staged
<1>3. CASE ReadStatus
  BY <1>3, HiddenIsOwn DEF ReadStatus, GitOnly
<1>4. CASE CommitResult
  BY <1>4 DEF CommitResult, Committed, GitOnly
<1>5. CASE GeneratePatch
  BY <1>5 DEF GeneratePatch
<1>6. CASE Crash
  BY <1>6 DEF Crash, Forget, ConfigCutShort, CloneCutShort,
              WorktreeAddCutShort, WorktreeAdded, CanAdd, Register, HasBase
<1>7. CASE (\E e \in Executions : TakeUp(e)) \/ FetchMirror \/ StartClone \/
           FinishClone \/ MirrorFails \/ CreateWorktree \/ CreateWorktreeFails
  BY <1>7 DEF TakeUp, FetchMirror, Fetched, StartClone, GitOnly, FinishClone,
              Cloned, MirrorFails, Fails, CreateWorktree, WorktreeAdded,
              CanAdd, Register, HasBase, CreateWorktreeFails
<1>8. CASE ExcludeFromStatus \/ RenderConfig \/ RenderConfigFails \/ MergeConfig \/
           PublishConfig \/ ConfigFails \/ StartRole
  BY <1>8 DEF ExcludeFromStatus, Excluded, RenderConfig, Rendered, ConfigOnly,
              RenderConfigFails, RenderFails, Fails, MergeConfig, BoundToBase,
              PublishConfig, Published, ConfigFails, Discarded, StartRole,
              Written
<1>9. CASE RoleFails \/ SkipCommit \/ CollectFails \/ NothingToRemove \/
           RemoveWorktree \/ RemoveRefused \/ RemoveTree
  BY <1>9 DEF RoleFails, Fails, SkipCommit, GitOnly, CollectFails,
              NothingToRemove, RemoveWorktree, WorktreeRemoved, TreesGone,
              RemoveRefused, RemoveTree, TreesRemoved
<1>10. CASE PruneMirror \/ RemoveUnowned \/ CleanupFails \/ Abandoned \/ KillSession \/
            Sweep \/ RemotePublishes
  BY <1>10 DEF PruneMirror, Pruned, GitOnly, RemoveUnowned, TreesRemoved,
               TreesGone, CleanupFails, Abandoned, Forget, KillSession, Sweep,
               RemotePublishes, Publish
<1>11. CASE UNCHANGED vars
  BY <1>11 DEF vars
<1>12. CASE \E e \in Executions : RoleEnds(e)
  BY <1>12 DEF RoleEnds
<1> HIDE DEF TypeOK, GitTypeOK, HeldInHand, WorkIsKept, PatchHasRolesWork,
             Removing
<1>13. QED
  BY <1>1, <1>2, <1>3, <1>4, <1>5, <1>6, <1>7, <1>8, <1>9, <1>10, <1>11, <1>12 DEF Next, WorkerStep


(* The bookkeeping stays out of it. *)
LEMMA BookkeepingStep ==
  ASSUME TypeOK, HeldInHand, DiskMakesSense, BookkeepingIsHidden,
         PatchLeavesOutBookkeeping, [Next]_vars
  PROVE  BookkeepingIsHidden' /\ PatchLeavesOutBookkeeping'
<1> USE MachineAssumption, GitWorkspaceAssumption
    DEF gitVars, mirrorVars, treeVars, configVars, threadVars, historyVars,
        Step, TypeOK, GitTypeOK, HeldInHand, BookkeepingIsHidden,
        PatchLeavesOutBookkeeping, Bookkeeping, Removing, Prepared,
        MachineAssumption, GitWorkspaceAssumption
<1>1. CASE CreateWorktree
  BY <1>1 DEF CreateWorktree, WorktreeAdded, CanAdd, GitOnly, DiskMakesSense
<1>2. CASE ExcludeFromStatus
  BY <1>2 DEF ExcludeFromStatus, Excluded
<1>3. CASE \E e \in Executions : RoleWrites(e)
  BY <1>3 DEF RoleWrites, Written
<1>4. CASE StageResult
  <2>1. \A f \in AllFiles : f \in Hides[f]
    OBVIOUS
  <2>2. Governance \in AllFiles /\ (exec \in Executions => DeliverableOf[exec] \in AllFiles)
    BY DEF AllFiles
  <2>3. excluded => Visible(exec) \cap Bookkeeping = {}
    BY <2>1, <2>2 DEF Visible, Ignored
  <2>4. QED
    BY <1>4, <2>3 DEF StageResult, Staged
<1>5. CASE CommitResult
  BY <1>5 DEF CommitResult, Committed, GitOnly
<1>6. CASE GeneratePatch
  BY <1>6 DEF GeneratePatch
<1>7. CASE KillSession
  BY <1>7 DEF KillSession, Forget
<1>8. CASE Sweep
  BY <1>8 DEF Sweep, TreesRemoved, TreesGone
<1>9. CASE Crash
  BY <1>9 DEF Crash, Forget, ConfigCutShort, CloneCutShort,
              WorktreeAddCutShort, WorktreeAdded, CanAdd, Register, HasBase
<1>10. CASE (\E e \in Executions : TakeUp(e)) \/ FetchMirror \/ StartClone \/
            FinishClone \/ MirrorFails \/ CreateWorktreeFails \/ RenderConfig
  BY <1>10 DEF TakeUp, FetchMirror, Fetched, StartClone, GitOnly, FinishClone,
               Cloned, MirrorFails, Fails, CreateWorktreeFails, RenderConfig,
               Rendered, ConfigOnly
<1>11. CASE RenderConfigFails \/ MergeConfig \/ PublishConfig \/ ConfigFails \/
            StartRole \/ RoleFails \/ ReadStatus
  BY <1>11 DEF RenderConfigFails, RenderFails, Fails, MergeConfig, BoundToBase,
               ConfigOnly, PublishConfig, Published, ConfigFails, Discarded,
               StartRole, Written, RoleFails, ReadStatus, GitOnly
<1>12. CASE SkipCommit \/ CollectFails \/ NothingToRemove \/ RemoveWorktree \/
            RemoveRefused \/ RemoveTree \/ PruneMirror
  BY <1>12 DEF SkipCommit, GitOnly, CollectFails, Fails, NothingToRemove,
               RemoveWorktree, WorktreeRemoved, TreesGone, RemoveRefused,
               RemoveTree, TreesRemoved, PruneMirror, Pruned
<1>13. CASE RemoveUnowned \/ CleanupFails \/ Abandoned \/ RemotePublishes
  BY <1>13 DEF RemoveUnowned, TreesRemoved, TreesGone, CleanupFails, Abandoned,
               Forget, RemotePublishes, Publish
<1>14. CASE UNCHANGED vars
  BY <1>14 DEF vars
<1>15. CASE \E e \in Executions : RoleEnds(e)
  BY <1>15 DEF RoleEnds
<1> HIDE DEF TypeOK, GitTypeOK, HeldInHand, BookkeepingIsHidden,
             PatchLeavesOutBookkeeping, Bookkeeping, Removing, Prepared
<1>16. QED
  BY <1>1, <1>2, <1>3, <1>4, <1>5, <1>6, <1>7, <1>8, <1>9, <1>10, <1>11, <1>12,
     <1>13, <1>14, <1>15 DEF Next, WorkerStep


(* A mirror just ensured has what was published. *)
LEMMA MirrorStep ==
  ASSUME TypeOK, HeldInHand, MirrorKnowsDefault, [Next]_vars
  PROVE  MirrorKnowsDefault'
<1> USE MachineAssumption, GitWorkspaceAssumption
    DEF gitVars, mirrorVars, treeVars, configVars, threadVars, historyVars,
        Step, TypeOK, GitTypeOK, HeldInHand, MirrorKnowsDefault, CommitsOf,
        MachineAssumption, GitWorkspaceAssumption
<1>1. CASE FetchMirror
  BY <1>1 DEF FetchMirror, Fetched
<1>2. CASE FinishClone
  BY <1>2 DEF FinishClone, Cloned
<1>3. CASE Crash
  BY <1>3 DEF Crash, Forget, ConfigCutShort, CloneCutShort,
              WorktreeAddCutShort, WorktreeAdded, CanAdd, Register, HasBase
<1>4. CASE (\E e \in Executions : TakeUp(e)) \/ StartClone \/ MirrorFails \/
           CreateWorktree \/ CreateWorktreeFails \/ ExcludeFromStatus \/ RenderConfig
  BY <1>4 DEF TakeUp, StartClone, GitOnly, MirrorFails, Fails, CreateWorktree,
              WorktreeAdded, CanAdd, Register, HasBase, CreateWorktreeFails,
              ExcludeFromStatus, Excluded, RenderConfig, Rendered, ConfigOnly
<1>5. CASE RenderConfigFails \/ MergeConfig \/ PublishConfig \/ ConfigFails \/
           StartRole \/ RoleFails \/ StageResult
  BY <1>5 DEF RenderConfigFails, RenderFails, Fails, MergeConfig, BoundToBase,
              ConfigOnly, PublishConfig, Published, ConfigFails, Discarded,
              StartRole, Written, RoleFails, StageResult, Staged, Visible
<1>6. CASE ReadStatus \/ CommitResult \/ SkipCommit \/ GeneratePatch \/ CollectFails \/
           NothingToRemove \/ RemoveWorktree
  BY <1>6 DEF ReadStatus, GitOnly, CommitResult, Committed, SkipCommit,
              GeneratePatch, CollectFails, Fails, NothingToRemove,
              RemoveWorktree, WorktreeRemoved, TreesGone
<1>7. CASE RemoveRefused \/ RemoveTree \/ PruneMirror \/ RemoveUnowned \/ CleanupFails \/
           Abandoned \/ KillSession
  BY <1>7 DEF RemoveRefused, GitOnly, RemoveTree, TreesRemoved, TreesGone,
              PruneMirror, Pruned, RemoveUnowned, CleanupFails, Abandoned,
              Forget, KillSession
<1>8. CASE Sweep \/ (\E e \in Executions : RoleWrites(e)) \/ RemotePublishes
  BY <1>8 DEF Sweep, TreesRemoved, TreesGone, RoleWrites, Written,
              RemotePublishes, Publish
<1>9. CASE UNCHANGED vars
  BY <1>9 DEF vars
<1>10. CASE \E e \in Executions : RoleEnds(e)
  BY <1>10 DEF RoleEnds
<1> HIDE DEF TypeOK, GitTypeOK, HeldInHand, MirrorKnowsDefault, CommitsOf
<1>11. QED
  BY <1>1, <1>2, <1>3, <1>4, <1>5, <1>6, <1>7, <1>8, <1>9, <1>10 DEF Next, WorkerStep


(* Directories and registrations go together. *)
LEMMA TreesStep ==
  ASSUME TypeOK, HeldInHand, DiskMakesSense, TreesMatch, [Next]_vars
  PROVE  TreesMatch'
<1> USE MachineAssumption, GitWorkspaceAssumption
    DEF gitVars, mirrorVars, treeVars, configVars, threadVars, historyVars,
        Step, TypeOK, GitTypeOK, HeldInHand, TreesMatch, Prepared,
        MachineAssumption, GitWorkspaceAssumption
<1>1. CASE \E e \in Executions : TakeUp(e)
  BY <1>1 DEF TakeUp
<1>2. CASE CreateWorktree
  BY <1>2 DEF CreateWorktree, WorktreeAdded, CanAdd, Register, HasBase, GitOnly
<1>3. CASE StartRole
  BY <1>3 DEF StartRole, Written
<1>4. CASE \E e \in Executions : RoleWrites(e)
  BY <1>4 DEF RoleWrites, Written
<1>5. CASE RemoveWorktree
  BY <1>5 DEF RemoveWorktree, WorktreeRemoved, TreesGone, GitOnly, DiskMakesSense
<1>6. CASE RemoveTree
  BY <1>6 DEF RemoveTree, TreesRemoved, TreesGone, GitOnly
<1>7. CASE PruneMirror
  BY <1>7 DEF PruneMirror, Pruned, GitOnly
<1>8. CASE RemoveUnowned
  BY <1>8 DEF RemoveUnowned, TreesRemoved, TreesGone
<1>9. CASE KillSession
  BY <1>9 DEF KillSession, Forget
<1>10. CASE Sweep
  BY <1>10 DEF Sweep, TreesRemoved, TreesGone
<1>11. CASE Crash
  BY <1>11 DEF Crash, Forget, ConfigCutShort, CloneCutShort,
               WorktreeAddCutShort, WorktreeAdded, CanAdd, Register, HasBase
<1>12. CASE FetchMirror \/ StartClone \/ FinishClone \/ MirrorFails \/
            CreateWorktreeFails \/ ExcludeFromStatus \/ RenderConfig
  BY <1>12 DEF FetchMirror, Fetched, StartClone, GitOnly, FinishClone, Cloned,
               MirrorFails, Fails, CreateWorktreeFails, ExcludeFromStatus,
               Excluded, RenderConfig, Rendered, ConfigOnly
<1>13. CASE RenderConfigFails \/ MergeConfig \/ PublishConfig \/ ConfigFails \/
            RoleFails \/ StageResult \/ ReadStatus
  BY <1>13 DEF RenderConfigFails, RenderFails, Fails, MergeConfig, BoundToBase,
               ConfigOnly, PublishConfig, Published, ConfigFails, Discarded,
               RoleFails, StageResult, Staged, Visible, ReadStatus, GitOnly
<1>14. CASE CommitResult \/ SkipCommit \/ GeneratePatch \/ CollectFails \/
            NothingToRemove \/ RemoveRefused \/ CleanupFails
  BY <1>14 DEF CommitResult, Committed, GitOnly, SkipCommit, GeneratePatch,
               CollectFails, Fails, NothingToRemove, RemoveRefused,
               CleanupFails
<1>15. CASE Abandoned \/ RemotePublishes
  BY <1>15 DEF Abandoned, Forget, RemotePublishes, Publish
<1>16. CASE UNCHANGED vars
  BY <1>16 DEF vars
<1>17. CASE \E e \in Executions : RoleEnds(e)
  BY <1>17 DEF RoleEnds
<1> HIDE DEF TypeOK, GitTypeOK, HeldInHand, TreesMatch, Prepared
<1>18. QED
  BY <1>1, <1>2, <1>3, <1>4, <1>5, <1>6, <1>7, <1>8, <1>9, <1>10, <1>11, <1>12,
     <1>13, <1>14, <1>15, <1>16, <1>17 DEF Next, WorkerStep


(* What goes over a base configuration keeps what the base holds of the    *)
(* machine.                                                                *)
LEMMA MergeKeeps ==
  ASSUME draft.model \in Renderings, BoundToBase
  PROVE  UsableOver(draft')
<1>1. PICK base \in (IF BaseNamed THEN BaseConfigs ELSE {{}}) :
        draft' = Merged(draft.take, base, draft.model)
  BY DEF BoundToBase
<1>2. Leaves(draft') = Surviving(base, draft.model) \cup draft.model
  BY <1>1 DEF Merged, Config, Leaves
<1>3. ASSUME BaseNamed, NEW p \in UNION BaseConfigs,
             \A b \in BaseConfigs : p \in b,
             \A q \in UNION Renderings : ~Conflict(p, q)
      PROVE  p \in Leaves(draft')
  <2>1. p \in base
    BY <1>1, <1>3
  <2>2. \A q \in draft.model : ~Conflict(p, q)
    BY <1>3
  <2>3. QED
    BY <1>2, <2>1, <2>2 DEF Surviving
<1>4. Usable(draft')
  BY DEF BoundToBase
<1>5. QED
  BY <1>3, <1>4 DEF UsableOver


(* What is rendered for an execution is what its client reads. *)
LEMMA ConfigStep ==
  ASSUME TypeOK, HeldInHand, DraftIsOwn, PublishedIsUsable,
         ClientReadsOwnConfig, [Next]_vars
  PROVE  /\ DraftIsOwn' /\ PublishedIsUsable'
         /\ ClientReadsOwnConfig'
<1> USE MachineAssumption
    DEF gitVars, mirrorVars, treeVars, configVars, threadVars, historyVars,
        Step, TypeOK, HeldInHand, DraftIsOwn, PublishedIsUsable,
        ClientReadsOwnConfig, Rendering, MachineAssumption
<1>1. CASE RenderConfig
  BY <1>1 DEF RenderConfig, Rendered, ConfigOnly, Config
<1>2. CASE MergeConfig
  <2>1. UsableOver(draft')
    BY <1>2, MergeKeeps DEF MergeConfig
  <2>2. draft'.take = draft.take
    BY <1>2 DEF MergeConfig, BoundToBase, Merged, Config
  <2>3. QED
    BY <1>2, <2>1, <2>2 DEF MergeConfig, BoundToBase, ConfigOnly
<1>3. CASE PublishConfig
  BY <1>3 DEF PublishConfig, Published, ConfigOnly
<1>4. CASE ConfigFails
  BY <1>4 DEF ConfigFails, Discarded, Fails
<1>5. CASE Crash
  <2>1. PublishedIsUsable'
    BY <1>5 DEF Crash, ConfigCutShort
  <2>2. QED
    BY <1>5, <2>1 DEF Crash
<1>6. CASE (\E e \in Executions : TakeUp(e)) \/ FetchMirror \/ StartClone \/
           FinishClone \/ MirrorFails \/ CreateWorktree \/ CreateWorktreeFails
  BY <1>6 DEF TakeUp, FetchMirror, Fetched, StartClone, GitOnly, FinishClone,
              Cloned, MirrorFails, Fails, CreateWorktree, WorktreeAdded,
              CanAdd, Register, HasBase, CreateWorktreeFails
<1>7. CASE ExcludeFromStatus \/ RenderConfigFails \/ StartRole \/ RoleFails \/
           StageResult \/ ReadStatus \/ CommitResult
  BY <1>7 DEF ExcludeFromStatus, Excluded, RenderConfigFails, RenderFails,
              Fails, StartRole, Written, RoleFails, StageResult, Staged,
              Visible, ReadStatus, GitOnly, CommitResult, Committed
<1>8. CASE SkipCommit \/ GeneratePatch \/ CollectFails \/ NothingToRemove \/
           RemoveWorktree \/ RemoveRefused \/ RemoveTree
  BY <1>8 DEF SkipCommit, GitOnly, GeneratePatch, CollectFails, Fails,
              NothingToRemove, RemoveWorktree, WorktreeRemoved, TreesGone,
              RemoveRefused, RemoveTree, TreesRemoved
<1>9. CASE PruneMirror \/ RemoveUnowned \/ CleanupFails \/ Abandoned \/ KillSession \/
           Sweep \/ (\E e \in Executions : RoleWrites(e))
  BY <1>9 DEF PruneMirror, Pruned, GitOnly, RemoveUnowned, TreesRemoved,
              TreesGone, CleanupFails, Abandoned, Forget, KillSession, Sweep,
              RoleWrites, Written
<1>10. CASE RemotePublishes
  BY <1>10 DEF RemotePublishes, Publish
<1>11. CASE UNCHANGED vars
  BY <1>11 DEF vars
<1>12. CASE \E e \in Executions : RoleEnds(e)
  BY <1>12 DEF RoleEnds
<1> HIDE DEF TypeOK, HeldInHand, DraftIsOwn, PublishedIsUsable,
             ClientReadsOwnConfig, Rendering
<1>13. QED
  BY <1>1, <1>2, <1>3, <1>4, <1>5, <1>6, <1>7, <1>8, <1>9, <1>10, <1>11, <1>12 DEF Next, WorkerStep


(* A step takes down no worktree but that of the execution in hand. *)
LEMMA OthersStep ==
  ASSUME TypeOK, HeldInHand, [Next]_vars
  PROVE  \A e \in Executions \ {exec} :
           at \notin {"idle", "down"} /\ e \in directory =>
             /\ e \in directory'
             /\ \A p \in Projects : e \in registered[p] => e \in registered'[p]
<1> USE MachineAssumption, GitWorkspaceAssumption
    DEF gitVars, mirrorVars, treeVars, configVars, threadVars, historyVars,
        Step, TypeOK, GitTypeOK, HeldInHand, MachineAssumption,
        GitWorkspaceAssumption
<1>1. CASE CreateWorktree
  BY <1>1 DEF CreateWorktree, WorktreeAdded, CanAdd, Register, HasBase, GitOnly
<1>2. CASE RemoveWorktree
  BY <1>2 DEF RemoveWorktree, WorktreeRemoved, TreesGone, GitOnly
<1>3. CASE RemoveTree
  BY <1>3 DEF RemoveTree, TreesRemoved, TreesGone, GitOnly
<1>4. CASE PruneMirror
  BY <1>4 DEF PruneMirror, Pruned, GitOnly
<1>5. CASE RemoveUnowned
  BY <1>5 DEF RemoveUnowned, TreesRemoved, TreesGone
<1>6. CASE Crash
  BY <1>6 DEF Crash, Forget, ConfigCutShort, CloneCutShort,
              WorktreeAddCutShort, WorktreeAdded, CanAdd, Register, HasBase
<1>7. CASE (\E e \in Executions : TakeUp(e)) \/ FetchMirror \/ StartClone \/
           FinishClone \/ MirrorFails \/ CreateWorktreeFails \/ ExcludeFromStatus
  BY <1>7 DEF TakeUp, FetchMirror, Fetched, StartClone, GitOnly, FinishClone,
              Cloned, MirrorFails, Fails, CreateWorktreeFails,
              ExcludeFromStatus, Excluded
<1>8. CASE RenderConfig \/ RenderConfigFails \/ MergeConfig \/ PublishConfig \/
           ConfigFails \/ StartRole \/ RoleFails
  BY <1>8 DEF RenderConfig, Rendered, ConfigOnly, RenderConfigFails,
              RenderFails, Fails, MergeConfig, BoundToBase, PublishConfig,
              Published, ConfigFails, Discarded, StartRole, Written, RoleFails
<1>9. CASE StageResult \/ ReadStatus \/ CommitResult \/ SkipCommit \/ GeneratePatch \/
           CollectFails \/ NothingToRemove
  BY <1>9 DEF StageResult, Staged, Visible, ReadStatus, GitOnly, CommitResult,
              Committed, SkipCommit, GeneratePatch, CollectFails, Fails,
              NothingToRemove
<1>10. CASE RemoveRefused \/ CleanupFails \/ Abandoned \/ KillSession \/ Sweep \/
            (\E e \in Executions : RoleWrites(e)) \/ RemotePublishes
  BY <1>10 DEF RemoveRefused, GitOnly, CleanupFails, Abandoned, Forget,
               KillSession, Sweep, TreesRemoved, TreesGone, RoleWrites,
               Written, RemotePublishes, Publish
<1>11. CASE UNCHANGED vars
  BY <1>11 DEF vars
<1>12. CASE \E e \in Executions : RoleEnds(e)
  BY <1>12 DEF RoleEnds
<1> HIDE DEF TypeOK, GitTypeOK, HeldInHand
<1>13. QED
  BY <1>1, <1>2, <1>3, <1>4, <1>5, <1>6, <1>7, <1>8, <1>9, <1>10, <1>11, <1>12 DEF Next, WorkerStep


LEMMA InitMachineInv == Init => MachineInv
<1> SUFFICES ASSUME Init PROVE MachineInv
  OBVIOUS
<1> USE MachineAssumption, GitWorkspaceAssumption
    DEF MachineAssumption, GitWorkspaceAssumption, Init, GitInit
<1>1. TypeOK
  <2>1. GitTypeOK
    BY DEF GitTypeOK, AllFiles
  <2>2. at \in Places /\ crashes \in 0..MaxCrashes
    BY DEF Places
  <2>3. taken \in [Executions -> Nat] /\ DOMAIN target = Executions
    OBVIOUS
  <2>4. QED
    BY <2>1, <2>2, <2>3 DEF TypeOK
<1>2. HeldInHand /\ DiskMakesSense /\ TreesMatch
  BY DEF HeldInHand, DiskMakesSense, TreesMatch, Prepared
<1>3. WorkIsKept /\ PatchHasRolesWork
  BY DEF WorkIsKept, PatchHasRolesWork
<1>4. BookkeepingIsHidden /\ PatchLeavesOutBookkeeping
  BY DEF BookkeepingIsHidden, PatchLeavesOutBookkeeping, Prepared
<1>5. MirrorKnowsDefault
  BY DEF MirrorKnowsDefault
<1>6. DraftIsOwn /\ PublishedIsUsable /\ ClientReadsOwnConfig
  BY DEF DraftIsOwn, PublishedIsUsable, ClientReadsOwnConfig, Rendering
<1>7. QED
  BY <1>1, <1>2, <1>3, <1>4, <1>5, <1>6 DEF MachineInv

LEMMA MachineInvStep == MachineInv /\ [Next]_vars => MachineInv'
<1> SUFFICES ASSUME MachineInv, [Next]_vars PROVE MachineInv'
  OBVIOUS
<1> USE DEF MachineInv
<1>1. HeldInHand'
  BY HeldStep
<1>2. TypeOK'
  BY OwnTypeStep
<1>3. DiskMakesSense'
  BY DiskStep
<1>4. (OwnPaths => WorkIsKept /\ PatchHasRolesWork)'
  BY WorkStep DEF BookkeepingIsHidden, OwnPaths
<1>5. BookkeepingIsHidden' /\ PatchLeavesOutBookkeeping'
  BY BookkeepingStep
<1>6. MirrorKnowsDefault'
  BY MirrorStep
<1>7. TreesMatch'
  BY TreesStep
<1>8. DraftIsOwn' /\ PublishedIsUsable' /\ ClientReadsOwnConfig'
  BY ConfigStep
<1>9. QED
  BY <1>1, <1>2, <1>3, <1>4, <1>5, <1>6, <1>7, <1>8

-------------------------------------------------------------------------------

(* The machine's parts stay in step whatever fails, dies or goes on        *)
(* writing: _run_sequence and _cleanup of worker.py.                       *)
THEOREM MachineInvariant == Spec => []MachineInv
BY InitMachineInv, MachineInvStep, PTL DEF Spec

(* The state of the disk and the thread keeps its types. *)
THEOREM TypeCorrect == Spec => []TypeOK
<1>1. MachineInv => TypeOK
  BY DEF MachineInv
<1>2. QED
  BY <1>1, MachineInvariant, PTL

(* commit_result and generate_patch lose nothing of the role's work but    *)
(* new files its own deliverable, read as a pattern, or the repository's   *)
(* .gitignore hides, if no new file of it is hidden by another's.          *)
THEOREM WorkIsInPatch == ASSUME OwnPaths PROVE Spec => []PatchHasRolesWork
<1>1. MachineInv => PatchHasRolesWork
  BY OwnPaths DEF MachineInv
<1>2. QED
  BY <1>1, MachineInvariant, PTL

(* Once exclude_from_status could write, neither the governance file nor   *)
(* an untracked deliverable reaches the patch.                             *)
THEOREM BookkeepingStaysOut == Spec => []PatchLeavesOutBookkeeping
<1>1. MachineInv => PatchLeavesOutBookkeeping
  BY DEF MachineInv
<1>2. QED
  BY <1>1, MachineInvariant, PTL

(* ensure_mirror: a mirror, cloned long ago or just now, has the default   *)
(* branch as it was published when the execution began.                    *)
THEOREM MirrorIsCurrent == Spec => []MirrorKnowsDefault
<1>1. MachineInv => MirrorKnowsDefault
  BY DEF MachineInv
<1>2. QED
  BY <1>1, MachineInvariant, PTL

(* Between executions nothing is left, on disk or in a mirror, of those    *)
(* whose cleanup went through: not cut off by a crash, abandoned, failed   *)
(* or unowned, not swept, and not written to by its role afterwards.       *)
THEOREM NothingLeftBehind == Spec => []RegistrationsMatch
<1>1. MachineInv => RegistrationsMatch
  <2> SUFFICES ASSUME MachineInv, at \in {"idle", "down"}, NEW e \in Executions \ disturbed
               PROVE  e \notin directory /\ \A p \in Projects : e \notin registered[p]
    BY DEF RegistrationsMatch
  <2>1. e # exec
    BY MachineAssumption DEF MachineInv, HeldInHand, MachineAssumption
  <2>2. QED
    BY <2>1 DEF MachineInv, TreesMatch, DiskMakesSense
<1>2. QED
  BY <1>1, MachineInvariant, PTL

(* render_execution_config: no reader ever finds an unusable configuration *)
(* at the published path.                                                  *)
THEOREM PublishedConfigIsUsable == Spec => []PublishedIsUsable
<1>1. MachineInv => PublishedIsUsable
  BY DEF MachineInv
<1>2. QED
  BY <1>1, MachineInvariant, PTL

(* The client reads what was rendered for this take-up. *)
THEOREM ConfigIsOwn == Spec => []ClientReadsOwnConfig
<1>1. MachineInv => ClientReadsOwnConfig
  BY DEF MachineInv
<1>2. QED
  BY <1>1, MachineInvariant, PTL

(* GitWorkspace.cleanup, git worktree prune included, leaves the worktrees *)
(* of other executions alone.                                              *)
THEOREM OthersKeepTheirs == Spec => OthersUndisturbed
<1>1. MachineInv => TypeOK /\ HeldInHand
  BY DEF MachineInv
<1>2. TypeOK /\ HeldInHand /\ [Next]_vars
        => [\A e \in Executions \ {exec} :
              at \notin {"idle", "down"} /\ e \in directory =>
                /\ e \in directory'
                /\ \A p \in Projects : e \in registered[p] => e \in registered'[p]]_vars
  BY OthersStep
<1>3. QED
  BY <1>1, <1>2, MachineInvariant, PTL DEF Spec, OthersUndisturbed

-------------------------------------------------------------------------------

(* From its making to the cleanup the worktree in hand is there. *)
DirectoryInHand == at \in Prepared => exec \in directory

LEMMA InHandStep ==
  ASSUME TypeOK, HeldInHand, DirectoryInHand, [Next]_vars
  PROVE  DirectoryInHand'
<1> USE MachineAssumption
    DEF gitVars, mirrorVars, treeVars, configVars, threadVars, historyVars,
        Step, DirectoryInHand, HeldInHand, Prepared, MachineAssumption
<1>1. CASE CreateWorktree
  BY <1>1 DEF CreateWorktree, WorktreeAdded, CanAdd, GitOnly
<1>2. CASE (\E e \in Executions : TakeUp(e)) \/ FetchMirror \/ StartClone \/
           FinishClone \/ MirrorFails \/ CreateWorktreeFails \/ ExcludeFromStatus
  BY <1>2 DEF TakeUp, FetchMirror, Fetched, StartClone, GitOnly, FinishClone,
              Cloned, MirrorFails, Fails, CreateWorktreeFails,
              ExcludeFromStatus, Excluded
<1>3. CASE RenderConfig \/ RenderConfigFails \/ MergeConfig \/ PublishConfig \/
           ConfigFails \/ StartRole \/ RoleFails
  BY <1>3 DEF RenderConfig, Rendered, ConfigOnly, RenderConfigFails,
              RenderFails, Fails, MergeConfig, BoundToBase, PublishConfig,
              Published, ConfigFails, Discarded, StartRole, Written, RoleFails
<1>4. CASE StageResult \/ ReadStatus \/ CommitResult \/ SkipCommit \/ GeneratePatch \/
           CollectFails \/ NothingToRemove
  BY <1>4 DEF StageResult, Staged, Visible, ReadStatus, GitOnly, CommitResult,
              Committed, SkipCommit, GeneratePatch, CollectFails, Fails,
              NothingToRemove
<1>5. CASE RemoveWorktree \/ RemoveRefused \/ RemoveTree \/ PruneMirror \/
           RemoveUnowned \/ CleanupFails \/ Abandoned
  BY <1>5 DEF RemoveWorktree, WorktreeRemoved, TreesGone, GitOnly,
              RemoveRefused, RemoveTree, TreesRemoved, PruneMirror, Pruned,
              RemoveUnowned, CleanupFails, Abandoned, Forget
<1>6. CASE KillSession \/ Sweep \/ RemotePublishes \/ Crash
  BY <1>6 DEF KillSession, Forget, Sweep, RemotePublishes, Publish, Crash
<1>7. CASE \E e \in Executions : RoleWrites(e) \/ RoleEnds(e)
  BY <1>7 DEF RoleWrites, Written, RoleEnds
<1>8. CASE UNCHANGED vars
  BY <1>8 DEF vars
<1> HIDE DEF DirectoryInHand, HeldInHand, Prepared
<1>9. QED
  BY <1>1, <1>2, <1>3, <1>4, <1>5, <1>6, <1>7, <1>8 DEF Next, WorkerStep

(* What Holdings calls phase. *)
PhaseNow == IF at = "down" THEN "down"
            ELSE IF exec = NoExec THEN "none"
            ELSE IF at \in Removing THEN "removing" ELSE "using"

LEMMA NothingHeldMoves ==
  ASSUME exec' = exec, PhaseNow' = PhaseNow, directory' = directory, roles' = roles
  PROVE  [Held!Next]_(Held!vars)
BY DEF Held!vars, PhaseNow

(* The cleanup begins, and that is all. *)
LEMMA BeginsRemoval ==
  ASSUME exec # NoExec, exec' = exec, at \notin Removing \cup {"down"}, at' \in Removing,
         directory' = directory, roles' = roles
  PROVE  [Held!Next]_(Held!vars)
<1>1. Held!BeginRemoval
  BY DEF Held!BeginRemoval, Removing
<1>2. QED
  BY <1>1 DEF Held!Next

(* The directory goes in the cleanup. *)
LEMMA RemovesDirectory ==
  ASSUME exec # NoExec, exec' = exec, at \in Removing, at' \in Removing,
         directory' = directory \ {exec}, roles' = roles
  PROVE  [Held!Next]_(Held!vars)
<1>1. Held!RemoveDirectory
  BY DEF Held!RemoveDirectory, Removing
<1>2. QED
  BY <1>1 DEF Held!Next

(* The session of the execution in hand opens. *)
LEMMA OpensSession ==
  ASSUME exec # NoExec, exec' = exec, at \notin Removing \cup {"down"}, at' # "down",
         exec \notin roles,
         directory' = directory, roles' = roles \cup {exec}
  PROVE  [Held!Next]_(Held!vars)
<1>1. Held!OpenSession
  BY DEF Held!OpenSession
<1>2. QED
  BY <1>1 DEF Held!Next

(* One step per action, or group of actions of a kind. *)
LEMMA StepHolds ==
  ASSUME TypeOK, HeldInHand, DirectoryInHand, [Next]_vars
  PROVE  [Held!Next]_(Held!vars)
<1> USE MachineAssumption
    DEF gitVars, mirrorVars, treeVars, configVars, threadVars, historyVars,
        Step, HeldInHand, PhaseNow, Removing, MachineAssumption
<1>1. ASSUME NEW e \in Executions, TakeUp(e) PROVE [Held!Next]_(Held!vars)
  <2>1. Held!Take(e)
    BY <1>1 DEF TakeUp, Held!Take
  <2>2. QED
    BY <2>1 DEF Held!Next
<1>2. CASE FetchMirror \/ StartClone \/ FinishClone \/ ExcludeFromStatus
  BY <1>2, NothingHeldMoves DEF FetchMirror, Fetched, StartClone, GitOnly, FinishClone,
              Cloned, ExcludeFromStatus, Excluded
<1>3. CASE MirrorFails \/ CreateWorktreeFails \/ RenderConfigFails \/ ConfigFails \/
           CollectFails \/ GeneratePatch
  BY <1>3, BeginsRemoval DEF MirrorFails, CreateWorktreeFails, RenderConfigFails,
              RenderFails, ConfigFails, Discarded, CollectFails, Fails, GeneratePatch
<1>4. CASE CreateWorktree
  <2>1. Held!MakeDirectory
    BY <1>4 DEF CreateWorktree, WorktreeAdded, CanAdd, GitOnly, Held!MakeDirectory
  <2>2. QED
    BY <2>1 DEF Held!Next
<1>5. CASE RenderConfig \/ MergeConfig \/ PublishConfig
  BY <1>5, NothingHeldMoves DEF RenderConfig, Rendered, ConfigOnly, MergeConfig,
              BoundToBase, PublishConfig, Published
<1>6. CASE StartRole
  <2>1. directory' = directory
    BY <1>6 DEF StartRole, Written, DirectoryInHand, Prepared
  <2>2. QED
    BY <1>6, <2>1, OpensSession DEF StartRole
<1>7. CASE RoleFails
  <2>1. CASE roles' = roles
    BY <1>7, <2>1, BeginsRemoval DEF RoleFails, Fails
  <2>2. CASE roles' = roles \cup {exec} /\ exec \notin roles
    BY <1>7, <2>2, OpensSession DEF RoleFails, Fails
  <2>3. QED
    BY <1>7, <2>1, <2>2 DEF RoleFails
<1>8. CASE StageResult \/ ReadStatus \/ CommitResult \/ SkipCommit
  BY <1>8, NothingHeldMoves DEF StageResult, Staged, ReadStatus, GitOnly, CommitResult,
              Committed, SkipCommit
<1>9. CASE NothingToRemove \/ RemoveRefused \/ PruneMirror \/ CleanupFails
  BY <1>9, NothingHeldMoves DEF NothingToRemove, GitOnly, RemoveRefused,
              PruneMirror, Pruned, CleanupFails
<1>10. CASE RemoveWorktree \/ RemoveTree \/ RemoveUnowned
  BY <1>10, RemovesDirectory DEF RemoveWorktree, WorktreeRemoved, TreesGone, GitOnly,
              RemoveTree, TreesRemoved, RemoveUnowned
<1>11. CASE Abandoned \/ KillSession
  <2>1. Held!PutDown
    BY <1>11 DEF Abandoned, KillSession, Forget, Held!PutDown
  <2>2. QED
    BY <2>1 DEF Held!Next
<1>12. CASE Sweep
  <2>1. Held!Sweep \/ Held!Restart
    BY <1>12 DEF Sweep, TreesRemoved, TreesGone, Held!Sweep, Held!Restart
  <2>2. QED
    BY <2>1 DEF Held!Next
<1>13. ASSUME NEW e \in Executions, RoleWrites(e) PROVE [Held!Next]_(Held!vars)
  <2>1. Held!Write(e)
    BY <1>13 DEF RoleWrites, Written, Held!Write
  <2>2. QED
    BY <2>1 DEF Held!Next
<1>14. ASSUME NEW e \in Executions, RoleEnds(e) PROVE [Held!Next]_(Held!vars)
  <2>1. Held!SessionEnds(e)
    BY <1>14 DEF RoleEnds, Held!SessionEnds
  <2>2. QED
    BY <2>1 DEF Held!Next
<1>15. CASE RemotePublishes
  BY <1>15, NothingHeldMoves DEF RemotePublishes, Publish
<1>16. CASE Crash
  <2>1. at # "down" /\ at' = "down" /\ exec' = NoExec /\ roles' \in {roles, {}}
    BY <1>16 DEF Crash, Forget
  <2>2. directory' = directory \/ (PhaseNow = "using" /\ directory' = directory \cup {exec})
    BY <1>16 DEF Crash, CloneCutShort, WorktreeAddCutShort, WorktreeAdded, CanAdd, Register
  <2>3. Held!Crash
    BY <2>1, <2>2 DEF Held!Crash
  <2>4. QED
    BY <2>3 DEF Held!Next
<1>17. CASE UNCHANGED vars
  BY <1>17, NothingHeldMoves DEF vars
<1> HIDE DEF HeldInHand, PhaseNow, Removing
<1>18. QED
  BY <1>1, <1>2, <1>3, <1>4, <1>5, <1>6, <1>7, <1>8, <1>9, <1>10, <1>11, <1>12,
     <1>13, <1>14, <1>15, <1>16, <1>17 DEF Next, WorkerStep

(* The worker's disk implements Holdings: the thread touches only what the *)
(* execution in hand holds, its directory outlives its use, and the sweep  *)
(* comes between executions, for every interleaving with the roles.        *)
THEOREM MachineHolds == Spec => ImplementsHoldings
<1>1. Init => Held!Init
  BY DEF Init, GitInit, Held!Init
<1>2. Init => DirectoryInHand
  BY DEF Init, DirectoryInHand, Prepared
<1>3. MachineInv => TypeOK /\ HeldInHand
  BY DEF MachineInv
<1>4. TypeOK /\ HeldInHand /\ DirectoryInHand /\ [Next]_vars => DirectoryInHand'
  BY InHandStep
<1>5. TypeOK /\ HeldInHand /\ DirectoryInHand /\ [Next]_vars
        => [Held!Next]_(Held!vars)
  BY StepHolds
<1>6. QED
  BY <1>1, <1>2, <1>3, <1>4, <1>5, MachineInvariant, PTL
     DEF Spec, ImplementsHoldings, Held!Spec

-------------------------------------------------------------------------------
(* What Holdings promises, kept here *)

Kept == INSTANCE HoldingsProofs WITH
  holder <- exec,
  phase  <- PhaseNow,
  dirs   <- directory,
  live   <- roles

LEMMA HeldIsKept == ImplementsHoldings => Kept!Spec
<1>1. Held!Init => Kept!Init
  BY DEF Held!Init, Kept!Init, PhaseNow
<1>2. [Held!Next]_(Held!vars) => [Kept!Next]_(Kept!vars)
  BY DEF Held!Next, Held!vars, Held!Take, Held!Write, Held!SessionEnds,
         Held!MakeDirectory, Held!OpenSession, Held!BeginRemoval,
         Held!RemoveDirectory, Held!PutDown, Held!Sweep, Held!Crash, Held!Restart,
         Kept!Next, Kept!vars, Kept!Take, Kept!Write, Kept!SessionEnds,
         Kept!MakeDirectory, Kept!OpenSession, Kept!BeginRemoval,
         Kept!RemoveDirectory, Kept!PutDown, Kept!Sweep, Kept!Crash,
         Kept!Restart, PhaseNow
<1>3. QED
  BY <1>1, <1>2, PTL DEF ImplementsHoldings, Held!Spec, Kept!Spec

(* On the disk: a directory comes and goes for its own execution, by its   *)
(* own role, or in a sweep that never finds anything in hand, whatever     *)
(* crashes and roles come between two commands of git.                     *)
THEOREM MachineKeepsApart == Spec => Kept!OnlyOwn
<1>1. Kept!Spec => Kept!OnlyOwn
  BY MachineAssumption, Kept!HoldingsApart DEF MachineAssumption
<1>2. QED
  BY <1>1, HeldIsKept, MachineHolds
===============================================================================
