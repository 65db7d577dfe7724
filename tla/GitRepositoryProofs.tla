------------------------ MODULE GitRepositoryProofs ------------------------
(***************************************************************************)
(* Proofs about the virtual GitRepository: its types, that it implements   *)
(* GitHistory, and that its working tree is HEAD's tree where nobody       *)
(* edited it.  Together they hold for any number of paths, contents,       *)
(* branches, tags, threads and commits.                                    *)
(***************************************************************************)
EXTENDS GitRepository, GitHistoryProofs

\* Strategy "callback": no conflict is left once each has a resolution.
LEMMA ResolvedIndexIsTree ==
    ASSUME NEW idx \in MergeIndex, NEW chosen \in [Conflicted(idx) -> Blobs]
    PROVE  [p \in Paths |-> IF p \in DOMAIN chosen THEN chosen[p] ELSE idx[p]] \in Tree
BY DEF MergeIndex, Conflicted, Tree, Content

\* Every commit has a tree.
LEMMA TreesOfCommits ==
    ASSUME HistoryTypeOK, NEW c \in CommitIds
    PROVE  commits[c].tree \in Tree
<1>1. commits[c] \in CommitRecord
  BY DEF HistoryTypeOK, CommitIds
<1>. QED
  BY <1>1 DEF CommitRecord

\* What the working tree holds after a refill.
LEMMA PopulateType ==
    ASSUME NEW tree \in Tree, Populate(tree) \/ PopulateCancelled(tree)
    PROVE  /\ vtree' \in Tree /\ edited' = {} /\ torn' \in BOOLEAN
           /\ ~torn' => vtree' = tree
<1>1. CASE Populate(tree)
  BY <1>1 DEF Populate
<1>2. CASE PopulateCancelled(tree)
  <2>1. PICK kept \in SUBSET {p \in Paths : tree[p] # Absent} :
           vtree' = [p \in Paths |-> IF p \in kept THEN tree[p] ELSE Absent]
    BY <1>2 DEF PopulateCancelled
  <2>. QED
    BY <1>2, <2>1 DEF PopulateCancelled, Tree, Content
<1>. QED
  BY <1>1, <1>2

\* createMergeCommit() is a step of the history, and the working tree becomes
\* the tree that was committed.
LEMMA MergeCommitStep ==
    ASSUME CommitsInv,
           NEW theirs \in CommitIds, NEW ours, NEW tree \in Tree,
           CreateMergeCommit(ours, theirs, tree)
    PROVE  /\ HistoryNext
           /\ vtree' \in Tree /\ edited' = {} /\ torn' \in BOOLEAN
           /\ ~torn' => vtree' = HeadTree'
<1>1. Grow(<<theirs>>, tree)
  BY DEF CreateMergeCommit
<1>2. <<theirs>> \in {<<>>} \cup {<<c>> : c \in CommitIds}
  OBVIOUS
<1>3. HistoryNext
  BY <1>1, <1>2 DEF HistoryNext
<1>4. /\ HistoryTypeOK'
      /\ HeadCommit' = Len(commits')
      /\ Len(commits') = Len(commits) + 1
      /\ commits'[HeadCommit'].tree = tree
  BY <1>1, <1>2, GrowStep
<1>5. HeadTree' = tree
  BY <1>4 DEF HeadTree, TreeAt, HistoryTypeOK, CommitsInv, NoCommit
<1>6. vtree' \in Tree /\ edited' = {} /\ torn' \in BOOLEAN /\ (~torn' => vtree' = tree)
  BY PopulateType DEF CreateMergeCommit
<1>. QED
  BY <1>3, <1>5, <1>6

-----------------------------------------------------------------------------
WorkTypeOK ==
    /\ vtree \in Tree
    /\ inMemory \in BOOLEAN
    /\ edited \in SUBSET Paths
    /\ torn \in BOOLEAN

\* A merge that waits for its resolver stays well-formed: the commits it found
\* do not go away.
LEMMA PendingMergesStay ==
    ASSUME KeepsHistory,
           merging' \in [Threads -> PendingMerge \cup {NoMerge}]
    PROVE  merging' \in [Threads -> PendingMerge' \cup {NoMerge}]
<1>1. CommitIds \subseteq CommitIds'
  BY DEF KeepsHistory
<1>2. PendingMerge \subseteq PendingMerge'
  BY <1>1 DEF PendingMerge
<1>. QED
  BY <1>2

\* migrateToDisk() copies references one by one; the ones it cannot write are
\* lost (OnDisk), commits and the other references stay.
LEMMA MigrationKeepsHistory ==
    ASSUME CommitsInv, MigrateToDisk
    PROVE  CommitsInv' /\ KeepsHistory
<1>1. HistoryTypeOK' /\ UNCHANGED commits
  <2>1. head' \in [branch : Branches \cup {NoBranch}, commit : CommitIds \cup {NoCommit}]
    BY RefAssumption DEF CommitsInv, HistoryTypeOK, MigrateToDisk, SymbolicTo
  <2>2. /\ OnDisk(branch) \in [Branches -> CommitIds \cup {NoCommit}]
        /\ OnDisk(tag) \in [TagNames -> CommitIds \cup {NoCommit}]
    BY DEF CommitsInv, HistoryTypeOK, OnDisk
  <2>. QED
    BY <2>1, <2>2 DEF CommitsInv, HistoryTypeOK, MigrateToDisk, CommitIds
<1>2. \A n \in Branches : branch'[n] \in {branch[n], NoCommit}
  BY DEF CommitsInv, HistoryTypeOK, MigrateToDisk, OnDisk
<1>. QED
  BY <1>1, <1>2, RefStep

\* An existing reference lies inside another.
Nested(refs) ==
    \E m, n \in DOMAIN refs :
        refs[m] # NoCommit /\ refs[n] # NoCommit /\ <<m, n>> \in Inside

\* What addRemote() needs of its callers to lose no reference: that the first
\* remote is added while no branch or tag lies inside another.
NoNestedReferences == ~Nested(branch) /\ ~Nested(tag)

\* Under that condition, migration only gives an empty repository a HEAD.
LEMMA MigrationStep ==
    ASSUME NoNestedReferences, HistoryTypeOK, MigrateToDisk
    PROVE  IF head = NoHead
           THEN SwitchHead(SymbolicTo(DefaultBranch)) ELSE UNCHANGED historyVars
<1>1. ASSUME NEW names, NEW refs \in [names -> CommitIds \cup {NoCommit}], ~Nested(refs)
      PROVE  OnDisk(refs) = refs
  BY <1>1 DEF Nested, OnDisk
<1>2. OnDisk(branch) = branch /\ OnDisk(tag) = tag
  BY <1>1 DEF NoNestedReferences, HistoryTypeOK
<1>. QED
  BY <1>2 DEF MigrateToDisk, SwitchHead, historyVars

\* The name a checkout is given resolves to a commit that exists.
LEMMA ResolveType ==
    ASSUME HistoryTypeOK, NEW n, Resolve(n) # NoCommit
    PROVE  Resolve(n) \in CommitIds
BY DEF HistoryTypeOK, Resolve

\* What a step does to the history: what GitHistory allows, a migration, or,
\* where a migration lost HEAD's branch, a branch created without a HEAD.
HistoryEffect ==
    \/ [HistoryNext]_historyVars
    \/ AddRemote
    \/ HeadCommit = NoCommit /\ \E n \in Branches, c \in CommitIds : AddBranch(n, c)

\* Every step of the repository has such an effect, and keeps the types of the
\* rest.
LEMMA RepositoryStep ==
    ASSUME TypeOK, CommitsInv, Next
    PROVE  /\ HistoryEffect
           /\ WorkTypeOK'
           /\ merging' \in [Threads -> PendingMerge \cup {NoMerge}]
<1>. DEFINE Goal == /\ HistoryEffect
                   /\ WorkTypeOK'
                   /\ merging' \in [Threads -> PendingMerge \cup {NoMerge}]
<1>1. /\ WorkTypeOK /\ HistoryTypeOK
      /\ merging \in [Threads -> PendingMerge \cup {NoMerge}]
      /\ HeadCommit \in CommitIds \cup {NoCommit}
      /\ \A c \in CommitIds : commits[c].tree \in Tree
  <2>1. /\ WorkTypeOK /\ HistoryTypeOK
        /\ merging \in [Threads -> PendingMerge \cup {NoMerge}]
    BY DEF TypeOK, WorkTypeOK
  <2>2. \A c \in CommitIds : commits[c].tree \in Tree
    BY <2>1, TreesOfCommits
  <2>. QED
    BY <2>1, <2>2, HeadCommitType
<1>2. HistoryNext \/ UNCHANGED historyVars => HistoryEffect
  BY DEF HistoryEffect
<1>3. ASSUME NEW p \in Paths,
             DeleteFile(p) \/ \E content \in Blobs : WriteFile(p, content)
      PROVE  Goal
  <2>1. vtree' \in Tree
    BY <1>1, <1>3 DEF WorkTypeOK, Tree, Content, DeleteFile, WriteFile
  <2>. QED
    BY <1>1, <1>2, <1>3, <2>1 DEF WorkTypeOK, DeleteFile, WriteFile
<1>4. CASE Commit
  <2>1. HistoryNext
    BY <1>1, <1>4 DEF Commit, HistoryNext, WorkTypeOK
  <2>. QED
    BY <1>1, <1>2, <1>4, <2>1 DEF Commit, WorkTypeOK
<1>5. ASSUME NEW n \in Branches,
             DeleteBranch(n) \/ \E c \in CommitIds : CreateBranch(n, c)
      PROVE  Goal
  <2>1. HistoryEffect
    BY <1>5 DEF HistoryEffect, HistoryNext, DeleteBranch, CreateBranch
  <2>. QED
    BY <1>1, <1>5, <2>1 DEF DeleteBranch, CreateBranch, WorkTypeOK, workVars
<1>6. ASSUME NEW n \in TagNames,
             DeleteTag(n) \/ \E c \in CommitIds : CreateTag(n, c)
      PROVE  Goal
  <2>1. HistoryNext
    BY <1>6 DEF HistoryNext, DeleteTag, CreateTag
  <2>. QED
    BY <1>1, <1>2, <1>6, <2>1 DEF DeleteTag, CreateTag, WorkTypeOK, workVars
<1>7. ASSUME NEW n \in Branches \cup TagNames, CheckoutName(n)
      PROVE  Goal
  <2>1. Resolve(n) \in CommitIds
    BY <1>1, <1>7, ResolveType DEF CheckoutName
  <2>2. HistoryNext
    BY <1>7, <2>1 DEF CheckoutName, HistoryNext
  <2>3. vtree' \in Tree /\ edited' = {} /\ torn' \in BOOLEAN
    BY <1>1, <1>7, <2>1, PopulateType DEF CheckoutName
  <2>. QED
    BY <1>1, <1>2, <1>7, <2>2, <2>3 DEF CheckoutName, WorkTypeOK
<1>8. ASSUME NEW c \in CommitIds,
             CheckoutCommit(c) \/ MergeFastForward(c)
      PROVE  Goal
  <2>1. HistoryNext
    BY <1>8 DEF CheckoutCommit, MergeFastForward, HistoryNext
  <2>2. vtree' \in Tree /\ edited' = {} /\ torn' \in BOOLEAN
    BY <1>1, <1>8, PopulateType DEF CheckoutCommit, MergeFastForward
  <2>. QED
    BY <1>1, <1>2, <1>8, <2>1, <2>2 DEF CheckoutCommit, MergeFastForward, WorkTypeOK
<1>9. ASSUME NEW c \in CommitIds,
             CheckoutCancelled(c) \/ MergeFastForwardCancelled(c)
      PROVE  Goal
  <2>1. vtree' \in Tree /\ edited' = {} /\ torn' \in BOOLEAN
    BY <1>1, <1>9, PopulateType DEF CheckoutCancelled, MergeFastForwardCancelled
  <2>. QED
    BY <1>1, <1>2, <1>9, <2>1 DEF CheckoutCancelled, MergeFastForwardCancelled, WorkTypeOK
<1>10. ASSUME NEW c \in CommitIds, MergeClean(c)
       PROVE  Goal
  <2>1. PICK idx \in MergeIndexes(commits, HeadCommit, c) :
           Conflicted(idx) = {} /\ CreateMergeCommit(HeadCommit, c, idx)
    BY <1>10 DEF MergeClean
  <2>2. idx \in Tree
    BY <2>1, CleanIndexIsTree DEF MergeIndexes
  <2>. QED
    BY <1>1, <1>2, <1>10, <2>1, <2>2, MergeCommitStep DEF MergeClean, WorkTypeOK
<1>11. ASSUME NEW c \in CommitIds, MergeFavor(c)
       PROVE  Goal
  <2>1. PICK idx \in MergeIndexes(commits, HeadCommit, c), side \in {HeadCommit, c} :
           CreateMergeCommit(HeadCommit, c, TakeSide(idx, commits[side].tree))
    BY <1>11 DEF MergeFavor
  <2>2. side \in CommitIds
    BY <1>1, <1>11, <2>1 DEF MergeFavor, HasDiverged
  <2>3. TakeSide(idx, commits[side].tree) \in Tree
    BY <1>1, <2>1, <2>2, TakeSideIsTree DEF MergeIndexes
  <2>. QED
    BY <1>1, <1>2, <1>11, <2>1, <2>3, MergeCommitStep DEF MergeFavor, WorkTypeOK
<1>12. ASSUME NEW c \in CommitIds, NEW thread \in Threads, MergeAsk(thread, c)
       PROVE  Goal
  <2>1. PICK idx \in MergeIndexes(commits, HeadCommit, c) :
           merging' = [merging EXCEPT ![thread] =
                [ours |-> HeadCommit, theirs |-> c, index |-> idx,
                 inMemory |-> inMemory, onto |-> head.branch]]
    BY <1>12 DEF MergeAsk
  <2>2. HeadCommit \in CommitIds
    BY <1>1, <1>12 DEF MergeAsk, HasDiverged
  <2>3. [ours |-> HeadCommit, theirs |-> c, index |-> idx,
         inMemory |-> inMemory, onto |-> head.branch] \in PendingMerge
    BY <1>1, <2>1, <2>2 DEF PendingMerge, MergeIndexes, WorkTypeOK, HistoryTypeOK
  <2>4. merging' \in [Threads -> PendingMerge \cup {NoMerge}]
    BY <1>1, <2>1, <2>3
  <2>. QED
    BY <1>1, <1>2, <1>12, <2>4 DEF MergeAsk, WorkTypeOK, workVars
<1>13. ASSUME NEW thread \in Threads, MergeResolved(thread)
       PROVE  Goal
  <2>. DEFINE m == merging[thread]
  <2>1. m \in PendingMerge
    BY <1>1, <1>13 DEF MergeResolved
  <2>2. m.theirs \in CommitIds /\ m.index \in MergeIndex
    BY <2>1 DEF PendingMerge
  <2>3. PICK chosen \in [Conflicted(m.index) -> Blobs] :
           CreateMergeCommit(m.ours, m.theirs,
               [p \in Paths |-> IF p \in DOMAIN chosen THEN chosen[p] ELSE m.index[p]])
    BY <1>13 DEF MergeResolved
  <2>4. [p \in Paths |-> IF p \in DOMAIN chosen THEN chosen[p] ELSE m.index[p]] \in Tree
    BY <2>2, ResolvedIndexIsTree
  <2>5. HistoryNext /\ vtree' \in Tree /\ edited' = {} /\ torn' \in BOOLEAN
    BY <2>2, <2>3, <2>4, MergeCommitStep
  <2>. QED
    BY <1>1, <1>2, <1>13, <2>5 DEF MergeResolved, WorkTypeOK
<1>14. ASSUME NEW thread \in Threads, MergeEnds(thread)
       PROVE  Goal
  BY <1>1, <1>2, <1>14 DEF MergeEnds, WorkTypeOK, workVars
<1>15. CASE AddRemote
  <2>1. HistoryEffect
    BY <1>15 DEF HistoryEffect
  <2>. QED
    BY <1>1, <1>15, <2>1 DEF AddRemote, MigrateToDisk, WorkTypeOK, workVars
<1>. QED
  BY <1>3, <1>4, <1>5, <1>6, <1>7, <1>8, <1>9, <1>10, <1>11, <1>12, <1>13, <1>14, <1>15
  DEF Next

\* createVirtual() makes a state of the invariant.
LEMMA RepositoryInit == Init => TypeOK /\ HistoryInit /\ HistoryInv
<1>1. Init => HistoryInit /\ HistoryInv
  BY HistoryInitInv DEF Init
<1>2. Init => vtree \in Tree /\ inMemory \in BOOLEAN /\ edited \in SUBSET Paths
              /\ torn \in BOOLEAN /\ merging \in [Threads -> PendingMerge \cup {NoMerge}]
  BY DEF Init, EmptyTree, Tree, Content
<1>. QED
  BY <1>1, <1>2 DEF TypeOK, HistoryInv

\* Whatever the effect, no commit and no tip that stays is lost.
LEMMA EffectKeepsHistory ==
    ASSUME CommitsInv, HistoryEffect
    PROVE  CommitsInv' /\ KeepsHistory
<1>1. ASSUME NEW n \in Branches, NEW c \in CommitIds, AddBranch(n, c)
      PROVE  CommitsInv' /\ KeepsHistory
  <2>1. HistoryTypeOK' /\ UNCHANGED commits
    BY <1>1 DEF CommitsInv, HistoryTypeOK, AddBranch, CommitIds
  <2>2. \A m \in Branches : branch[m] # NoCommit => branch'[m] = branch[m]
    BY <1>1 DEF CommitsInv, HistoryTypeOK, AddBranch
  <2>. QED
    BY <2>1, <2>2, RefStep
<1>. QED
  BY <1>1, CommitsStep, MigrationKeepsHistory DEF HistoryEffect, AddRemote

\* The invariant of the repository is inductive.
LEMMA RepositoryInvStep ==
    ASSUME TypeOK, CommitsInv, [Next]_vars
    PROVE  TypeOK' /\ CommitsInv' /\ KeepsHistory /\ HistoryEffect
<1>1. CASE Next
  <2>1. /\ HistoryEffect /\ WorkTypeOK'
        /\ merging' \in [Threads -> PendingMerge \cup {NoMerge}]
    BY <1>1, RepositoryStep
  <2>2. CommitsInv' /\ KeepsHistory
    BY <2>1, EffectKeepsHistory
  <2>3. merging' \in [Threads -> PendingMerge' \cup {NoMerge}]
    BY <2>1, <2>2, PendingMergesStay
  <2>. QED
    BY <2>1, <2>2, <2>3 DEF TypeOK, WorkTypeOK, CommitsInv
<1>2. CASE UNCHANGED vars
  <2>1. HistoryEffect
    BY <1>2 DEF vars, historyVars, HistoryEffect
  <2>2. CommitsInv' /\ KeepsHistory
    BY <2>1, EffectKeepsHistory
  <2>3. TypeOK'
    BY <1>2 DEF vars, TypeOK, HistoryTypeOK, CommitIds, PendingMerge
  <2>. QED
    BY <2>1, <2>2, <2>3
<1>. QED
  BY <1>1, <1>2

\* While HEAD leads to a commit and no migration loses a reference, a step of
\* the repository is one of GitHistory.
LEMMA RepositoryHistoryStep ==
    ASSUME TypeOK, HistoryInv, [Next]_vars, AddRemote => NoNestedReferences
    PROVE  [HistoryNext]_historyVars
<1>1. CommitsInv /\ HistoryTypeOK
  BY DEF HistoryInv, CommitsInv
<1>2. CASE AddRemote
  BY <1>1, <1>2, MigrationStep DEF AddRemote, HistoryNext
<1>3. CASE HeadCommit = NoCommit /\ \E n \in Branches, c \in CommitIds : AddBranch(n, c)
  BY <1>1, <1>3 DEF HistoryInv, HeadAlwaysResolves, HistoryTypeOK, CommitIds
<1>. QED
  BY <1>1, <1>2, <1>3, RepositoryInvStep DEF HistoryEffect

\* The state of the repository keeps its types: references and pending merges
\* name commits that exist, no conflict gets into a tree.
THEOREM RepositoryType == Spec => [](TypeOK /\ CommitsInv)
<1>1. Init => TypeOK /\ CommitsInv
  BY RepositoryInit DEF HistoryInv, CommitsInv
<1>2. TypeOK /\ CommitsInv /\ [Next]_vars => (TypeOK /\ CommitsInv)'
  BY RepositoryInvStep
<1>. QED
  BY <1>1, <1>2, PTL DEF Spec

\* No commit of a branch is lost, whichever merges run concurrently, and not
\* even by a migration: a branch it cannot write is gone, none has another tip.
THEOREM RepositoryKeepsHistory == Spec => TipsMoveForward
<1>1. TypeOK /\ CommitsInv /\ [Next]_vars => [KeepsHistory]_historyVars
  BY RepositoryInvStep
<1>. QED
  BY <1>1, RepositoryType, PTL DEF Spec, TipsMoveForward

\* When merge() of the virtual repository fast-forwards, HEAD gets the tree the
\* three-way merge would have given.
THEOREM RepositoryFastForwards == Spec => []FastForwardsAreMerges
<1>1. Init => GraphInv
  BY DEF Init, HistoryInit, GraphInv, Ancestry, Earlier
<1>2. TypeOK /\ CommitsInv /\ GraphInv /\ [Next]_vars => GraphInv'
  <2>. SUFFICES ASSUME TypeOK, CommitsInv, GraphInv, [Next]_vars PROVE GraphInv'
    OBVIOUS
  <2>1. UNCHANGED commits => GraphInv'
    BY DEF GraphInv, Ancestry, Earlier, Reaches
  <2>. QED
    BY <2>1, RepositoryInvStep, GraphStep
    DEF HistoryEffect, AddRemote, MigrateToDisk, AddBranch
<1>3. CommitsInv /\ GraphInv => FastForwardsAreMerges
  BY GraphGivesFastForwards
<1>. QED
  BY <1>1, <1>2, <1>3, RepositoryType, PTL DEF Spec

-----------------------------------------------------------------------------
\* HEAD's promises need that the migration finds no nested references.
MigrationsFit == [][AddRemote => NoNestedReferences]_vars

\* Under that condition HEAD does not come to lead nowhere.
LEMMA RepositoryHistoryInv == Spec /\ MigrationsFit => []HistoryInv
<1>1. Init => HistoryInv
  BY RepositoryInit
<1>2. TypeOK /\ HistoryInv /\ [Next]_vars /\ [AddRemote => NoNestedReferences]_vars
      => HistoryInv'
  BY RepositoryHistoryStep, HistoryStep DEF vars, historyVars
<1>. QED
  BY <1>1, <1>2, RepositoryType, PTL DEF Spec, MigrationsFit

\* The repository implements GitHistory: whatever the order of writes, commits,
\* checkouts and merges, each step is one the history allows or leaves it alone.
THEOREM RepositoryImplementsHistory == Spec /\ MigrationsFit => ImplementsHistory
<1>1. Init => HistoryInit
  BY RepositoryInit
<1>2. TypeOK /\ HistoryInv /\ [Next]_vars /\ [AddRemote => NoNestedReferences]_vars
      => [HistoryNext]_historyVars
  BY RepositoryHistoryStep DEF vars, historyVars
<1>. QED
  BY <1>1, <1>2, RepositoryType, RepositoryHistoryInv, PTL
  DEF Spec, MigrationsFit, HistorySpec, ImplementsHistory

\* HEAD of a repository that has commits leads to one.
THEOREM RepositoryHeadResolves == Spec /\ MigrationsFit => []HeadAlwaysResolves
BY RepositoryHistoryInv, PTL DEF HistoryInv

-----------------------------------------------------------------------------
\* checkout() looks a name up in two places, the tag first for the tree and the
\* branch for HEAD: they agree on a name that is not both, or if both have the
\* same commit.
OneMeaning(n) ==
    n \in Branches \cap TagNames /\ branch[n] # NoCommit /\ tag[n] # NoCommit
        => tag[n] = branch[n]

\* What checkout() needs of its callers.
CheckoutsAreClear ==
    [][\A n \in Branches \cup TagNames : CheckoutName(n) => OneMeaning(n)]_vars

\* Steps that leave the working tree alone and HEAD at the same commit.
LEMMA SameTreeStep ==
    ASSUME TypeOK, HistoryInv, WorkingTreeMatchesHead,
           UNCHANGED <<commits, workVars>>, HeadCommit' = HeadCommit
    PROVE  WorkingTreeMatchesHead'
<1>1. HeadTree' = HeadTree
  BY DEF HeadTree, TreeAt
<1>. QED
  BY <1>1 DEF WorkingTreeMatchesHead, workVars

\* Steps after which the working tree, if whole, is HEAD's tree.
LEMMA RefilledStep ==
    ASSUME TypeOK', ~torn' => vtree' = HeadTree'
    PROVE  WorkingTreeMatchesHead'
BY DEF WorkingTreeMatchesHead

\* The argument of RepositoryTree, action by action.
LEMMA WorkingTreeStep ==
    ASSUME TypeOK, HistoryInv, TypeOK', WorkingTreeMatchesHead, Next,
           AddRemote => NoNestedReferences,
           \A n \in Branches \cup TagNames : CheckoutName(n) => OneMeaning(n)
    PROVE  WorkingTreeMatchesHead'
<1>1. /\ HistoryTypeOK /\ HistoryTypeOK' /\ CommitsInv
      /\ HeadCommit \in CommitIds \cup {NoCommit}
      /\ \A c \in CommitIds : c # NoCommit /\ commits[c].tree \in Tree
  BY HeadCommitType, TreesOfCommits
  DEF TypeOK, CommitIds, NoCommit, HistoryTypeOK, HistoryInv, CommitsInv
<1>2. ASSUME NEW p \in Paths,
             DeleteFile(p) \/ \E content \in Blobs : WriteFile(p, content)
      PROVE  WorkingTreeMatchesHead'
  <2>1. HeadTree' = HeadTree
    BY <1>2 DEF HeadTree, TreeAt, HeadCommit, historyVars, DeleteFile, WriteFile
  <2>2. \A q \in Paths \ edited' : q \in Paths \ edited /\ q # p
    BY <1>2 DEF DeleteFile, WriteFile
  <2>. QED
    BY <1>2, <2>1, <2>2 DEF WorkingTreeMatchesHead, DeleteFile, WriteFile, TypeOK, Tree
<1>3. CASE Commit
  <2>1. /\ HistoryTypeOK'
        /\ HeadCommit' = Len(commits')
        /\ Len(commits') = Len(commits) + 1
        /\ commits'[HeadCommit'].tree = vtree
    BY <1>1, <1>3, FirstCommitStep, GrowStep DEF Commit, TypeOK
  <2>2. HeadTree' = vtree
    BY <1>1, <2>1 DEF HeadTree, TreeAt, HistoryTypeOK, NoCommit
  <2>. QED
    BY <1>3, <2>2, RefilledStep DEF Commit
<1>4. ASSUME NEW n \in Branches,
             DeleteBranch(n) \/ \E c \in CommitIds : CreateBranch(n, c)
      PROVE  WorkingTreeMatchesHead'
  <2>1. CASE DeleteBranch(n)
    <3>1. HeadCommit' = HeadCommit /\ UNCHANGED <<commits, workVars>>
      BY <1>1, <2>1 DEF HistoryTypeOK, DeleteBranch, DropBranch, HeadCommit, workVars
    <3>. QED
      BY <3>1, SameTreeStep
  <2>2. ASSUME NEW c \in CommitIds, CreateBranch(n, c)
        PROVE  WorkingTreeMatchesHead'
    <3>1. HeadCommit # NoCommit
      BY <1>1 DEF HistoryInv, HeadAlwaysResolves, HistoryTypeOK, CommitIds
    <3>2. HeadCommit' = HeadCommit /\ UNCHANGED <<commits, workVars>>
      BY <1>1, <2>2, <3>1 DEF HistoryTypeOK, CreateBranch, AddBranch, HeadCommit, workVars
    <3>. QED
      BY <3>2, SameTreeStep
  <2>. QED
    BY <1>4, <2>1, <2>2
<1>5. ASSUME NEW n \in TagNames,
             DeleteTag(n) \/ \E c \in CommitIds : CreateTag(n, c)
      PROVE  WorkingTreeMatchesHead'
  <2>1. HeadCommit' = HeadCommit /\ UNCHANGED <<commits, workVars>>
    BY <1>5 DEF DeleteTag, DropTag, CreateTag, AddTag, HeadCommit, workVars
  <2>. QED
    BY <2>1, SameTreeStep
<1>6. ASSUME NEW n \in Branches \cup TagNames, CheckoutName(n)
      PROVE  WorkingTreeMatchesHead'
  <2>. DEFINE c == Resolve(n)
  <2>1. c \in CommitIds /\ (n \in Branches /\ branch[n] # NoCommit => c = branch[n])
    BY <1>1, <1>6, ResolveType DEF CheckoutName, Resolve, OneMeaning
  <2>2. HeadCommit' = c /\ commits' = commits
    BY <1>6, <2>1, RefAssumption
    DEF CheckoutName, SwitchHead, SymbolicTo, DetachedAt, HeadCommit
  <2>3. HeadTree' = commits[c].tree
    BY <1>1, <2>1, <2>2 DEF HeadTree, TreeAt
  <2>. QED
    BY <1>6, <2>3, RefilledStep DEF CheckoutName, Populate
<1>7. ASSUME NEW c \in CommitIds, CheckoutCommit(c) \/ MergeFastForward(c)
      PROVE  WorkingTreeMatchesHead'
  <2>1. HeadCommit' = c /\ commits' = commits
    <3>1. CASE CheckoutCommit(c)
      BY <3>1 DEF CheckoutCommit, SwitchHead, DetachedAt, HeadCommit
    <3>2. CASE MergeFastForward(c)
      <4>1. CommitIds' = CommitIds
        BY <3>2 DEF MergeFastForward, FastForward, CommitIds
      <4>. QED
        BY <1>1, <3>2, <4>1, MoveHeadMoves DEF MergeFastForward, FastForward
    <3>. QED
      BY <1>7, <3>1, <3>2
  <2>2. HeadTree' = commits[c].tree
    BY <1>1, <2>1 DEF HeadTree, TreeAt
  <2>. QED
    BY <1>7, <2>2, RefilledStep DEF CheckoutCommit, MergeFastForward, Populate
<1>8. ASSUME NEW c \in CommitIds,
             CheckoutCancelled(c) \/ MergeFastForwardCancelled(c)
      PROVE  WorkingTreeMatchesHead'
  <2>1. torn' = TRUE
    BY <1>8 DEF CheckoutCancelled, MergeFastForwardCancelled, PopulateCancelled
  <2>. QED
    BY <2>1, RefilledStep
<1>9. ASSUME NEW c \in CommitIds, MergeClean(c)
      PROVE  WorkingTreeMatchesHead'
  <2>1. PICK idx \in MergeIndexes(commits, HeadCommit, c) :
           Conflicted(idx) = {} /\ CreateMergeCommit(HeadCommit, c, idx)
    BY <1>9 DEF MergeClean
  <2>2. idx \in Tree
    BY <2>1, CleanIndexIsTree DEF MergeIndexes
  <2>. QED
    BY <1>1, <2>1, <2>2, MergeCommitStep, RefilledStep
<1>10. ASSUME NEW c \in CommitIds, MergeFavor(c)
       PROVE  WorkingTreeMatchesHead'
  <2>1. PICK idx \in MergeIndexes(commits, HeadCommit, c), side \in {HeadCommit, c} :
           CreateMergeCommit(HeadCommit, c, TakeSide(idx, commits[side].tree))
    BY <1>10 DEF MergeFavor
  <2>2. side \in CommitIds
    BY <1>1, <1>10, <2>1 DEF MergeFavor, HasDiverged
  <2>3. TakeSide(idx, commits[side].tree) \in Tree
    BY <1>1, <2>1, <2>2, TakeSideIsTree DEF MergeIndexes
  <2>. QED
    BY <1>1, <2>1, <2>3, MergeCommitStep, RefilledStep
<1>11. ASSUME NEW thread \in Threads, MergeResolved(thread)
       PROVE  WorkingTreeMatchesHead'
  <2>. DEFINE m == merging[thread]
  <2>1. m.theirs \in CommitIds /\ m.index \in MergeIndex
    BY <1>11 DEF MergeResolved, TypeOK, PendingMerge
  <2>2. PICK chosen \in [Conflicted(m.index) -> Blobs] :
           CreateMergeCommit(m.ours, m.theirs,
               [p \in Paths |-> IF p \in DOMAIN chosen THEN chosen[p] ELSE m.index[p]])
    BY <1>11 DEF MergeResolved
  <2>3. [p \in Paths |-> IF p \in DOMAIN chosen THEN chosen[p] ELSE m.index[p]] \in Tree
    BY <2>1, ResolvedIndexIsTree
  <2>. QED
    BY <1>1, <2>1, <2>2, <2>3, MergeCommitStep, RefilledStep
<1>12. ASSUME NEW thread \in Threads,
              MergeEnds(thread) \/ \E c \in CommitIds : MergeAsk(thread, c)
       PROVE  WorkingTreeMatchesHead'
  <2>1. HeadCommit' = HeadCommit /\ UNCHANGED <<commits, workVars>>
    BY <1>12 DEF MergeEnds, MergeAsk, HeadCommit, historyVars, workVars
  <2>. QED
    BY <2>1, SameTreeStep
<1>13. CASE AddRemote
  <2>3. IF head = NoHead
        THEN SwitchHead(SymbolicTo(DefaultBranch)) ELSE UNCHANGED historyVars
    BY <1>1, <1>13, MigrationStep DEF AddRemote
  <2>1. CASE head = NoHead
    <3>1. commits = <<>>
      BY <2>1 DEF HistoryInv, HeadAlwaysResolves, HeadCommit, NoHead, DetachedAt
    <3>2. \A n \in Branches : branch[n] = NoCommit
      BY <1>1, <3>1 DEF HistoryTypeOK, CommitIds
    <3>3. HeadCommit' = HeadCommit
      BY <2>3, <2>1, <3>2, RefAssumption
      DEF SwitchHead, HeadCommit, SymbolicTo, NoHead, DetachedAt
    <3>. QED
      BY <1>13, <2>3, <2>1, <3>3, SameTreeStep DEF AddRemote, SwitchHead
  <2>2. CASE head # NoHead
    <3>1. HeadCommit' = HeadCommit /\ UNCHANGED <<commits, workVars>>
      BY <1>13, <2>3, <2>2 DEF AddRemote, HeadCommit, historyVars, workVars
    <3>. QED
      BY <3>1, SameTreeStep
  <2>. QED
    BY <2>1, <2>2
<1>. QED
  BY <1>2, <1>3, <1>4, <1>5, <1>6, <1>7, <1>8, <1>9, <1>10, <1>11, <1>12, <1>13 DEF Next

\* A commit never drops or reverts a file that nobody edited, whatever was
\* checked out and merged before, if no migration loses HEAD's branch and no
\* checkout is given the name of a tag and of a branch that differ.
THEOREM RepositoryTree ==
    Spec /\ MigrationsFit /\ CheckoutsAreClear => []WorkingTreeMatchesHead
<1>1. Init => WorkingTreeMatchesHead
  <2>1. Init => HeadCommit = NoCommit
    BY DEF Init, HistoryInit, HeadCommit, NoHead, DetachedAt
  <2>2. Init => vtree = HeadTree
    BY <2>1 DEF Init, HeadTree, TreeAt
  <2>. QED
    BY <2>2 DEF WorkingTreeMatchesHead
<1>2. /\ TypeOK /\ HistoryInv /\ (TypeOK /\ HistoryInv)' /\ WorkingTreeMatchesHead
      /\ [Next]_vars /\ [AddRemote => NoNestedReferences]_vars
      /\ [\A n \in Branches \cup TagNames : CheckoutName(n) => OneMeaning(n)]_vars
      => WorkingTreeMatchesHead'
  <2>. SUFFICES ASSUME TypeOK, HistoryInv, TypeOK', WorkingTreeMatchesHead, [Next]_vars,
                       [AddRemote => NoNestedReferences]_vars,
                       [\A n \in Branches \cup TagNames :
                           CheckoutName(n) => OneMeaning(n)]_vars
                PROVE  WorkingTreeMatchesHead'
    OBVIOUS
  <2>1. CASE Next /\ vars' # vars
    BY <2>1, WorkingTreeStep
  <2>2. CASE UNCHANGED vars
    <3>1. HeadCommit' = HeadCommit /\ UNCHANGED <<commits, workVars>>
      BY <2>2 DEF vars, HeadCommit, workVars
    <3>. QED
      BY <3>1, SameTreeStep
  <2>. QED
    BY <2>1, <2>2
<1>. QED
  BY <1>1, <1>2, RepositoryType, RepositoryHistoryInv, PTL
  DEF Spec, MigrationsFit, CheckoutsAreClear

-----------------------------------------------------------------------------
\* What merge() needs of its callers: nobody calls checkout() while a resolver
\* runs.  (With HEAD detached, a fast-forward leaves the state that a checkout() of
\* its commit does, and is excluded with it.)
NoCheckoutInMerges ==
    [][(\E thread \in Threads : merging[thread] # NoMerge)
          => /\ \A n \in Branches \cup TagNames : ~CheckoutName(n)
             /\ \A c \in CommitIds : ~CheckoutCommit(c)]_vars

\* Every pending merge that can still be committed was asked about the branch HEAD
\* is on, and HEAD leads to a commit, so that no first commit takes it to Main.  A
\* merge that was pending when addRemote() migrated the repository ends without.
OntoHead ==
    \A thread \in Threads : merging[thread] # NoMerge =>
        /\ inMemory => merging[thread].inMemory
        /\ merging[thread].inMemory = inMemory
              => merging[thread].onto = head.branch /\ HeadCommit # NoCommit

\* Of all methods, those of other threads included, only checkout() switches a HEAD
\* that leads to a commit: not a commit or a merge, and not the deletion of a
\* branch; addRemote() may leave it on a branch that is gone.
LEMMA OnlyCheckoutSwitches ==
    ASSUME TypeOK, Next, HeadCommit # NoCommit,
           \A n \in Branches \cup TagNames : ~CheckoutName(n),
           \A c \in CommitIds : ~CheckoutCommit(c)
    PROVE  \/ AddRemote
           \/ head'.branch = head.branch /\ HeadCommit' # NoCommit
<1> DEFINE Stays == head'.branch = head.branch /\ HeadCommit' # NoCommit
<1>1. HistoryTypeOK /\ NoBranch \notin Branches
  BY RefAssumption DEF TypeOK
<1>2. ASSUME UNCHANGED historyVars
      PROVE  Stays
  BY <1>2 DEF HeadCommit, historyVars
<1>3. ASSUME UNCHANGED <<branch, head>>
      PROVE  Stays
  BY <1>3 DEF HeadCommit
<1>4. ASSUME NEW c \in Nat \ {0}, MoveHead(c)
      PROVE  Stays
  <2>1. c # NoCommit
    BY <1>4 DEF NoCommit
  <2>2. CASE head.branch # NoBranch /\ head' = head
             /\ branch' = [branch EXCEPT ![head.branch] = c]
    <3>1. head.branch \in Branches
      BY <1>1, <2>2 DEF HistoryTypeOK
    <3>. QED
      BY <1>1, <2>1, <2>2, <3>1 DEF HeadCommit, HistoryTypeOK
  <2>3. CASE head.branch = NoBranch /\ head' = DetachedAt(c)
    BY <2>1, <2>3 DEF HeadCommit, DetachedAt
  <2>. QED
    BY <1>4, <2>2, <2>3 DEF MoveHead
<1>5. Len(commits) + 1 \in Nat \ {0} /\ CommitIds \subseteq Nat \ {0}
  BY <1>1 DEF HistoryTypeOK, CommitIds
<1>6. ASSUME NEW others, NEW tree, Grow(others, tree)
      PROVE  Stays
  BY <1>4, <1>5, <1>6 DEF Grow
<1>7. CASE Commit
  BY <1>6, <1>7 DEF Commit, FirstCommit
<1>8. ASSUME NEW n \in Branches, DeleteBranch(n)
      PROVE  Stays
  <2>1. n # head.branch /\ branch' = [branch EXCEPT ![n] = NoCommit] /\ head' = head
    BY <1>8 DEF DeleteBranch, DropBranch
  <2>. QED
    BY <1>1, <2>1 DEF HeadCommit, HistoryTypeOK
<1>9. ASSUME NEW n \in Branches, NEW c \in CommitIds, CreateBranch(n, c)
      PROVE  Stays
  <2>1. branch[n] = NoCommit /\ branch' = [branch EXCEPT ![n] = c] /\ head' = head
    BY <1>9 DEF CreateBranch, AddBranch
  <2>2. n # head.branch
    BY <1>1, <2>1 DEF HeadCommit
  <2>. QED
    BY <1>1, <2>1, <2>2 DEF HeadCommit, HistoryTypeOK
<1>10. ASSUME NEW n \in TagNames, DeleteTag(n) \/ \E c \in CommitIds : CreateTag(n, c)
       PROVE  Stays
  BY <1>3, <1>10 DEF DeleteTag, DropTag, CreateTag, AddTag
<1>11. ASSUME NEW c \in CommitIds, CheckoutCancelled(c) \/ MergeFastForwardCancelled(c)
                \/ \E thread \in Threads : MergeAsk(thread, c)
       PROVE  Stays
  BY <1>2, <1>11 DEF CheckoutCancelled, MergeFastForwardCancelled, MergeAsk
<1>12. ASSUME NEW c \in CommitIds, MergeFastForward(c)
       PROVE  Stays
  BY <1>4, <1>5, <1>12 DEF MergeFastForward, FastForward
<1>13. ASSUME NEW c \in CommitIds, MergeClean(c) \/ MergeFavor(c)
       PROVE  Stays
  BY <1>6, <1>13 DEF MergeClean, MergeFavor, CreateMergeCommit
<1>14. ASSUME NEW thread \in Threads, MergeResolved(thread)
       PROVE  Stays
  BY <1>6, <1>14 DEF MergeResolved, CreateMergeCommit
<1>15. ASSUME NEW thread \in Threads, MergeEnds(thread)
       PROVE  Stays
  BY <1>2, <1>15 DEF MergeEnds
<1>16. ASSUME NEW p \in Paths, DeleteFile(p) \/ \E content \in Blobs : WriteFile(p, content)
       PROVE  Stays
  BY <1>2, <1>16 DEF DeleteFile, WriteFile
<1>. QED
  BY <1>7, <1>8, <1>9, <1>10, <1>11, <1>12, <1>13, <1>14, <1>15, <1>16 DEF Next

LEMMA OnlyAddRemote ==
    ASSUME Next
    PROVE  AddRemote \/ UNCHANGED inMemory
<1>1. ASSUME NEW p \in Paths, DeleteFile(p) \/ \E content \in Blobs : WriteFile(p, content)
      PROVE  UNCHANGED inMemory
  BY <1>1 DEF DeleteFile, WriteFile
<1>2. ASSUME NEW n, DeleteBranch(n) \/ \E c \in CommitIds : CreateBranch(n, c)
      PROVE  UNCHANGED inMemory
  BY <1>2 DEF DeleteBranch, CreateBranch
<1>3. ASSUME NEW n, DeleteTag(n) \/ CheckoutName(n) \/ \E c \in CommitIds : CreateTag(n, c)
      PROVE  UNCHANGED inMemory
  BY <1>3 DEF DeleteTag, CreateTag, CheckoutName
<1>4. ASSUME NEW c \in CommitIds,
             \/ CheckoutCommit(c) \/ CheckoutCancelled(c) \/ MergeFastForward(c)
             \/ MergeFastForwardCancelled(c) \/ MergeClean(c) \/ MergeFavor(c)
             \/ \E thread \in Threads : MergeAsk(thread, c)
      PROVE  UNCHANGED inMemory
  BY <1>4 DEF CheckoutCommit, CheckoutCancelled, MergeFastForward,
              MergeFastForwardCancelled, MergeClean, MergeFavor, MergeAsk
<1>5. ASSUME NEW thread \in Threads, MergeResolved(thread) \/ MergeEnds(thread)
      PROVE  UNCHANGED inMemory
  BY <1>5 DEF MergeResolved, MergeEnds
<1>6. Commit => UNCHANGED inMemory
  BY DEF Commit
<1>. QED
  BY <1>1, <1>2, <1>3, <1>4, <1>5, <1>6 DEF Next

\* A pending merge was put there by this step or waited before it.
LEMMA PendingMerges ==
    ASSUME TypeOK, Next, NEW t \in Threads, merging'[t] # NoMerge
    PROVE  \/ merging'[t] = merging[t]
           \/ /\ merging'[t].onto = head.branch /\ merging'[t].inMemory = inMemory
              /\ HeadCommit # NoCommit /\ UNCHANGED <<historyVars, inMemory>>
<1>1. merging \in [Threads -> PendingMerge \cup {NoMerge}]
  BY DEF TypeOK
<1>2. ASSUME NEW thread \in Threads, MergeResolved(thread) \/ MergeEnds(thread)
      PROVE  merging'[t] = merging[t]
  BY <1>1, <1>2 DEF MergeResolved, MergeEnds
<1>3. ASSUME NEW thread \in Threads, NEW c \in CommitIds, MergeAsk(thread, c)
      PROVE  \/ merging'[t] = merging[t]
             \/ /\ merging'[t].onto = head.branch /\ merging'[t].inMemory = inMemory
                /\ HeadCommit # NoCommit /\ UNCHANGED <<historyVars, inMemory>>
  <2>1. PICK idx \in MergeIndexes(commits, HeadCommit, c) :
           merging' = [merging EXCEPT ![thread] =
                [ours |-> HeadCommit, theirs |-> c, index |-> idx,
                 inMemory |-> inMemory, onto |-> head.branch]]
    BY <1>3 DEF MergeAsk
  <2>2. HeadCommit # NoCommit /\ UNCHANGED <<historyVars, inMemory>>
    BY <1>3 DEF MergeAsk, HasDiverged
  <2>. QED
    BY <1>1, <2>1, <2>2
<1>4. ASSUME NEW c \in CommitIds,
             CheckoutCommit(c) \/ CheckoutCancelled(c) \/ MergeFastForward(c)
               \/ MergeFastForwardCancelled(c) \/ MergeClean(c) \/ MergeFavor(c)
      PROVE  UNCHANGED merging
  BY <1>4 DEF CheckoutCommit, CheckoutCancelled, MergeFastForward,
              MergeFastForwardCancelled, MergeClean, MergeFavor
<1>5. ASSUME NEW p \in Paths, DeleteFile(p) \/ \E content \in Blobs : WriteFile(p, content)
      PROVE  UNCHANGED merging
  BY <1>5 DEF DeleteFile, WriteFile
<1>6. ASSUME NEW n,
             \/ DeleteBranch(n) \/ \E c \in CommitIds : CreateBranch(n, c)
             \/ DeleteTag(n) \/ \E c \in CommitIds : CreateTag(n, c)
             \/ CheckoutName(n)
      PROVE  UNCHANGED merging
  BY <1>6 DEF DeleteBranch, CreateBranch, DeleteTag, CreateTag, CheckoutName
<1>7. Commit \/ AddRemote => UNCHANGED merging
  BY DEF Commit, AddRemote
<1>. QED
  BY <1>2, <1>3, <1>4, <1>5, <1>6, <1>7 DEF Next

\* A step keeps every pending merge on HEAD's branch, if no checkout() is called
\* while one is pending.
LEMMA OntoHeadStep ==
    ASSUME TypeOK, OntoHead, Next,
           (\E thread \in Threads : merging[thread] # NoMerge)
              => /\ \A n \in Branches \cup TagNames : ~CheckoutName(n)
                 /\ \A c \in CommitIds : ~CheckoutCommit(c)
    PROVE  OntoHead'
<1>. SUFFICES ASSUME NEW t \in Threads, merging'[t] # NoMerge
              PROVE  /\ inMemory' => merging'[t].inMemory
                     /\ merging'[t].inMemory = inMemory'
                           => merging'[t].onto = head'.branch /\ HeadCommit' # NoCommit
  BY DEF OntoHead
<1>1. CASE merging'[t] = merging[t]
  <2>1. /\ inMemory => merging[t].inMemory
        /\ merging[t].inMemory = inMemory
              => merging[t].onto = head.branch /\ HeadCommit # NoCommit
        /\ merging[t].inMemory \in BOOLEAN /\ inMemory \in BOOLEAN
    BY <1>1 DEF OntoHead, TypeOK, PendingMerge
  <2>2. CASE AddRemote
    BY <1>1, <2>1, <2>2 DEF AddRemote, MigrateToDisk
  <2>3. CASE inMemory' = inMemory /\ merging[t].inMemory # inMemory
    BY <1>1, <2>1, <2>3
  <2>4. CASE ~AddRemote /\ inMemory' = inMemory /\ merging[t].inMemory = inMemory
    BY <1>1, <2>1, <2>4, OnlyCheckoutSwitches
  <2>. QED
    BY <2>2, <2>3, <2>4, OnlyAddRemote
<1>2. CASE /\ merging'[t].onto = head.branch /\ merging'[t].inMemory = inMemory
           /\ HeadCommit # NoCommit /\ UNCHANGED <<historyVars, inMemory>>
  BY <1>2 DEF historyVars, HeadCommit
<1>. QED
  BY <1>1, <1>2, PendingMerges

\* If nobody calls checkout() while a resolver runs, the documentation is right: a
\* merge lands on the branch its resolver was asked about, whatever else other
\* threads do meanwhile - commit, merge, delete and create branches, add a remote.
THEOREM MergeLandsWithoutCheckout ==
    Spec /\ NoCheckoutInMerges => MergeLandsOnItsBranch
<1>1. Init => OntoHead
  BY DEF Init, OntoHead
<1>2. /\ TypeOK /\ OntoHead /\ [Next]_vars
      /\ [(\E thread \in Threads : merging[thread] # NoMerge)
             => /\ \A n \in Branches \cup TagNames : ~CheckoutName(n)
                /\ \A c \in CommitIds : ~CheckoutCommit(c)]_vars
      => OntoHead'
  <2>1. UNCHANGED vars /\ OntoHead => OntoHead'
    BY DEF vars, OntoHead, HeadCommit
  <2>. QED
    BY <2>1, OntoHeadStep
<1>3. OntoHead => [\A thread \in Threads : MergeResolved(thread)
                      => head.branch = merging[thread].onto]_vars
  BY DEF OntoHead, MergeResolved
<1>. QED
  BY <1>1, <1>2, <1>3, RepositoryType, PTL
  DEF Spec, NoCheckoutInMerges, MergeLandsOnItsBranch
=============================================================================
