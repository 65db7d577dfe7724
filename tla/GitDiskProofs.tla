---------------------------- MODULE GitDiskProofs ----------------------------
(***************************************************************************)
(* Proofs about the disk repository: its types, that files nobody touched  *)
(* are clean, that no edit is lost, that it implements GitHistory, and     *)
(* when a commit() keeps what was merged.                                  *)
(***************************************************************************)
EXTENDS GitDisk, GitHistoryProofs

\* Until the first commit HEAD leads to the branch libgit2 chose.
FreshHead == commits = <<>> => head = SymbolicTo(DefaultBranch)

\* The inductive invariant of everything below but UntouchedIsClean.
DiskInv == DiskTypeOK /\ HistoryInv /\ FreshHead

\* HEAD's tree is a tree, and so are those of all commits.
LEMMA TreesAreTrees ==
    ASSUME HistoryTypeOK
    PROVE  HeadTree \in Tree /\ \A c \in CommitIds : commits[c].tree \in Tree
<1>1. \A c \in CommitIds : commits[c].tree \in Tree
  <2>1. \A c \in CommitIds : commits[c] \in CommitRecord
    BY DEF HistoryTypeOK, CommitIds
  <2>. QED
    BY <2>1 DEF CommitRecord
<1>2. HeadCommit \in CommitIds \cup {NoCommit}
  BY HeadCommitType
<1>3. EmptyTree \in Tree
  BY DEF EmptyTree, Tree, Content
<1>. QED
  BY <1>1, <1>2, <1>3 DEF HeadTree, TreeAt

\* There is a commit exactly if HEAD leads to one.
LEMMA HeadOrNothing ==
    ASSUME DiskInv
    PROVE  /\ HeadCommit = NoCommit => commits = <<>> /\ Len(commits) = 0
           /\ commits = <<>> => HeadCommit = NoCommit /\ CommitIds = {}
           /\ CommitIds # {} => commits # <<>> /\ HeadCommit \in CommitIds
<1>1. commits \in Seq(CommitRecord) /\ HeadCommit \in CommitIds \cup {NoCommit}
  BY HeadCommitType DEF DiskInv, HistoryInv, HistoryTypeOK
<1>2. commits = <<>> <=> Len(commits) = 0
  BY <1>1
<1>3. commits = <<>> => CommitIds = {}
  BY <1>2 DEF CommitIds
<1>4. commits # <<>> => HeadCommit # NoCommit
  BY DEF DiskInv, HistoryInv, HeadAlwaysResolves
<1>. QED
  BY <1>1, <1>2, <1>3, <1>4

\* A checked out tree leaves index and working directory well-formed.
LEMMA CheckoutType ==
    ASSUME DiskTypeOK, NEW target \in Tree, CheckoutTree(target)
    PROVE  /\ index' \in MergeIndex /\ workdir' \in Tree
           /\ touched' \in SUBSET Paths
           /\ UNCHANGED <<vtree, stashes>>
<1>1. Tree \subseteq MergeIndex
  BY DEF Tree, MergeIndex
<1>2. \A p \in Paths : target[p] \in Content
  BY DEF Tree
<1>3. index' \in MergeIndex
  BY <1>2 DEF DiskTypeOK, CheckoutTree, MergeIndex
<1>4. workdir' \in Tree
  BY <1>2 DEF DiskTypeOK, CheckoutTree, Tree
<1>. QED
  BY <1>3, <1>4 DEF DiskTypeOK, CheckoutTree

-----------------------------------------------------------------------------
\* The first commit(): the branch HEAD leads to comes into being.
LEMMA FirstDiskCommit ==
    ASSUME DiskInv, Commit, commits = <<>>
    PROVE  /\ index \in Tree
           /\ commits' = Append(commits, NewCommit(commits, <<>>, index))
           /\ branch' = [branch EXCEPT ![DefaultBranch] = Len(commits) + 1]
           /\ UNCHANGED <<tag, head>>
           /\ head = SymbolicTo(DefaultBranch)
           /\ HeadCommit = NoCommit /\ branch[DefaultBranch] = NoCommit
<1>1. HeadCommit = NoCommit
  BY HeadOrNothing
<1>2. head = SymbolicTo(DefaultBranch)
  BY DEF DiskInv, FreshHead
<1>3. head.branch = DefaultBranch /\ DefaultBranch # NoBranch
  BY <1>2, RefAssumption DEF SymbolicTo
<1>4. branch[DefaultBranch] = NoCommit
  BY <1>1, <1>3 DEF HeadCommit
<1>5. index \in Tree
  BY CleanIndexIsTree DEF Commit, DiskInv, DiskTypeOK
<1>6. commits' = Append(commits, NewCommit(commits, <<>>, index))
  BY <1>1 DEF Commit
<1>7. branch' = [branch EXCEPT ![DefaultBranch] = Len(commits) + 1] /\ UNCHANGED <<tag, head>>
  BY <1>3 DEF Commit, MoveHead
<1>. QED
  BY <1>1, <1>2, <1>4, <1>5, <1>6, <1>7

\* What a commit() does to the history, the first one included.
LEMMA DiskCommitStep ==
    ASSUME DiskInv, Commit
    PROVE  /\ HistoryInv' /\ KeepsHistory
           /\ HeadCommit' = Len(commits') /\ Len(commits') = Len(commits) + 1
           /\ commits'[HeadCommit'].tree = index
           /\ commits # <<>> => Grow(<<>>, index)
<1>1. HistoryInv /\ CommitsInv /\ HistoryTypeOK /\ index \in Tree
  BY CleanIndexIsTree DEF Commit, DiskInv, DiskTypeOK, HistoryInv, CommitsInv
<1>2. CASE commits # <<>>
  <2>1. HeadCommit # NoCommit
    BY <1>2, HeadOrNothing
  <2>2. <<HeadCommit>> \o <<>> = <<HeadCommit>>
    OBVIOUS
  <2>3. Grow(<<>>, index)
    BY <2>1, <2>2 DEF Commit, Grow
  <2>4. [HistoryNext]_historyVars
    BY <1>1, <2>3 DEF HistoryNext
  <2>5. <<>> \in {<<>>} \cup {<<c>> : c \in CommitIds}
    OBVIOUS
  <2>6. /\ HeadCommit' = Len(commits') /\ Len(commits') = Len(commits) + 1
        /\ commits'[HeadCommit'].tree = index
    BY <1>1, <2>3, <2>5, GrowStep
  <2>. QED
    BY <1>1, <2>3, <2>4, <2>6, HistoryStep
<1>3. CASE commits = <<>>
  <2>. USE RefAssumption
  <2>1. /\ commits' = Append(commits, NewCommit(commits, <<>>, index))
        /\ branch' = [branch EXCEPT ![DefaultBranch] = Len(commits) + 1]
        /\ UNCHANGED <<tag, head>>
        /\ head = SymbolicTo(DefaultBranch)
        /\ branch[DefaultBranch] = NoCommit
    BY <1>3, FirstDiskCommit
  <2>2. commits \in Seq(CommitRecord) /\ <<>> \in Seq(1..Len(commits)) /\ Len(commits) \in Nat
    BY <1>1 DEF HistoryTypeOK
  <2>3. Extends(commits', commits, <<>>, index)
    BY <1>1, <2>1, <2>2, AppendCommit
  <2>4. /\ commits' \in Seq(CommitRecord)
        /\ Len(commits') = Len(commits) + 1
        /\ \A c \in 1..Len(commits) : c \in 1..Len(commits') /\ commits'[c] = commits[c]
        /\ commits'[Len(commits) + 1].tree = index
        /\ Reaches(commits', Len(commits) + 1, Len(commits) + 1)
    BY <2>3 DEF Extends
  <2>5. Len(commits) + 1 \in CommitIds' /\ CommitIds \subseteq CommitIds'
    BY <2>2, <2>4 DEF CommitIds
  <2>6. branch' \in [Branches -> CommitIds' \cup {NoCommit}]
    BY <1>1, <2>1, <2>5 DEF HistoryTypeOK
  <2>7. HistoryTypeOK'
    BY <1>1, <2>1, <2>4, <2>5, <2>6 DEF HistoryTypeOK
  <2>8. HeadCommit' = Len(commits) + 1
    BY <1>1, <2>1 DEF HeadCommit, SymbolicTo, HistoryTypeOK
  <2>9. \A n \in Branches : branch[n] # NoCommit => branch'[n] = branch[n]
    BY <1>1, <2>1 DEF HistoryTypeOK
  <2>10. \A c \in CommitIds : c \in CommitIds' /\ commits'[c] = commits[c]
    BY <2>4 DEF CommitIds
  <2>. QED
    BY <1>1, <1>3, <2>4, <2>7, <2>8, <2>9, <2>10, CommitStep
<1>. QED
  BY <1>2, <1>3

-----------------------------------------------------------------------------
\* A stash that is saved, and what is left of the stashes when one is popped.
LEMMA StashTypes ==
    ASSUME DiskInv
    PROVE  /\ Stash => stashes' \in Seq(StashRecord)
           /\ StashPop => stashes' \in Seq(StashRecord)
<1>1. /\ HeadTree \in Tree /\ workdir \in Tree /\ stashes \in Seq(StashRecord)
      /\ Absent \in Content
  BY TreesAreTrees DEF DiskInv, DiskTypeOK, Content
<1>2. ASSUME Stash PROVE stashes' \in Seq(StashRecord)
  <2>1. PICK left \in SUBSET {p \in Tracked : index[p] = Absent} :
           stashes' = <<[base |-> HeadTree,
                         work |-> [p \in Paths |->
                             IF p \in left THEN Absent
                             ELSE IF p \in Tracked THEN workdir[p] ELSE HeadTree[p]]]>>
                      \o stashes
    BY <1>2 DEF Stash
  <2> DEFINE work == [p \in Paths |->
                         IF p \in left THEN Absent
                         ELSE IF p \in Tracked THEN workdir[p] ELSE HeadTree[p]]
             s == [base |-> HeadTree, work |-> work]
  <2>2. work \in Tree
    BY <1>1 DEF Tree
  <2>3. s \in StashRecord
    <3> HIDE DEF work
    <3>. QED
      BY <1>1, <2>2 DEF StashRecord
  <2>4. stashes' = <<s>> \o stashes
    BY <2>1
  <2> HIDE DEF s
  <2>5. <<s>> \in Seq(StashRecord)
    BY <2>3
  <2>. QED
    BY <1>1, <2>4, <2>5, ConcatProperties
<1>3. ASSUME StashPop PROVE stashes' \in Seq(StashRecord)
  <2>1. stashes' = Tail(stashes) /\ stashes # <<>>
    BY <1>3 DEF StashPop
  <2>. QED
    BY <1>1, <2>1, HeadTailProperties
<1>. QED
  BY <1>2, <1>3

\* The index a stash is merged into: HEAD's tree, or the stash, or a conflict.
PoppedIndex ==
    [p \in Paths |-> MergedPath(stashes[1].base[p], HeadTree[p], stashes[1].work[p])]

\* What popping a stash does, with its LET definitions named.
LEMMA StashPopEffect ==
    ASSUME DiskInv, StashPop
    PROVE  /\ PoppedIndex \in MergeIndex
           /\ index = HeadTree
           /\ \A p \in Paths :
                 \/ /\ PoppedIndex[p] = HeadTree[p]
                    /\ workdir'[p] = workdir[p] /\ index'[p] = index[p]
                 \/ /\ PoppedIndex[p] # HeadTree[p] /\ p \in touched'
                    /\ workdir[p] \in {HeadTree[p], PoppedIndex[p]}
                    /\ index'[p] \in {index[p], PoppedIndex[p]}
                    /\ \/ workdir'[p] = PoppedIndex[p] /\ PoppedIndex[p] # Conflict
                       \/ workdir'[p] \in Blobs /\ PoppedIndex[p] = Conflict
           /\ index' \in MergeIndex /\ workdir' \in Tree
           /\ touched \subseteq touched' /\ touched' \in SUBSET Paths
           /\ UNCHANGED <<historyVars, vtree, behind>>
<1> DEFINE idx == PoppedIndex
           popped == {p \in Paths : idx[p] # HeadTree[p]}
<1>1. /\ HeadTree \in Tree /\ workdir \in Tree /\ stashes \in Seq(StashRecord)
      /\ index \in MergeIndex /\ touched \in SUBSET Paths
  BY TreesAreTrees DEF DiskInv, DiskTypeOK
<1>2. stashes # <<>> /\ index = HeadTree
  BY DEF StashPop
<1>3. stashes[1] \in StashRecord
  BY <1>1, <1>2, HeadTailProperties
<1>4. stashes[1].base \in Tree /\ stashes[1].work \in Tree
  BY <1>3 DEF StashRecord
<1>5. idx \in MergeIndex
  BY <1>1, <1>4 DEF PoppedIndex, MergeIndex, Tree, MergedPath
<1>6. PICK markers \in [Conflicted(idx) -> Blobs],
           staged \in SUBSET {p \in popped \ Conflicted(idx) : HeadTree[p] = Absent} :
           /\ workdir' = [p \in Paths |->
                  IF p \in DOMAIN markers THEN markers[p]
                  ELSE IF p \in popped THEN idx[p] ELSE workdir[p]]
           /\ index' = [p \in Paths |->
                  IF p \in staged \cup Conflicted(idx) THEN idx[p] ELSE index[p]]
  BY DEF StashPop, PoppedIndex
<1>7. /\ \A p \in popped : workdir[p] \in {HeadTree[p], idx[p]}
      /\ touched' = touched \cup popped
      /\ UNCHANGED <<historyVars, vtree, behind>>
  BY DEF StashPop, PoppedIndex
<1> HIDE DEF idx
<1>8. /\ Conflicted(idx) = {p \in Paths : idx[p] = Conflict}
      /\ \A p \in Paths : HeadTree[p] # Conflict /\ HeadTree[p] \in Content
  BY <1>1, ContentAssumption DEF Conflicted, Tree, Content
<1>9. Conflicted(idx) \subseteq popped
  BY <1>8
<1>10. index' \in MergeIndex
  BY <1>1, <1>5, <1>6 DEF MergeIndex
<1>11. workdir' \in Tree
  <2>1. \A p \in Paths \ Conflicted(idx) : idx[p] \in Content
    BY <1>5, <1>8 DEF MergeIndex
  <2>2. \A p \in Conflicted(idx) : markers[p] \in Content
    BY <1>6 DEF Content
  <2>3. \A p \in Paths : workdir[p] \in Content
    BY <1>1 DEF Tree
  <2>. QED
    BY <1>6, <2>1, <2>2, <2>3 DEF Tree
<1>12. ASSUME NEW p \in Paths
       PROVE  \/ /\ idx[p] = HeadTree[p]
                 /\ workdir'[p] = workdir[p] /\ index'[p] = index[p]
              \/ /\ idx[p] # HeadTree[p] /\ p \in touched'
                 /\ workdir[p] \in {HeadTree[p], idx[p]}
                 /\ index'[p] \in {index[p], idx[p]}
                 /\ \/ workdir'[p] = idx[p] /\ idx[p] # Conflict
                    \/ workdir'[p] \in Blobs /\ idx[p] = Conflict
  <2>1. CASE p \notin popped
    BY <1>6, <1>9, <2>1
  <2>2. CASE p \in Conflicted(idx)
    <3>1. workdir'[p] = markers[p] /\ markers[p] \in Blobs
      BY <1>6, <2>2
    <3>. QED
      BY <1>6, <1>7, <1>8, <1>9, <2>2, <3>1
  <2>3. CASE p \in popped \ Conflicted(idx)
    BY <1>6, <1>7, <1>8, <2>3
  <2>. QED
    BY <2>1, <2>2, <2>3
<1>. QED
  BY <1>1, <1>2, <1>5, <1>7, <1>10, <1>11, <1>12 DEF idx

-----------------------------------------------------------------------------
\* A tree of a merge commit: every conflict has been settled.
LEMMA SettledIsTree ==
    ASSUME NEW idx \in MergeIndex, NEW chosen \in [Conflicted(idx) -> Content]
    PROVE  [p \in Paths |-> IF p \in DOMAIN chosen THEN chosen[p] ELSE idx[p]] \in Tree
BY DEF MergeIndex, Conflicted, Tree

\* A merge commit is a step of the history.
LEMMA MergeCommitGrows ==
    ASSUME DiskInv, NEW t \in CommitIds, MergeCommit(t)
    PROVE  HistoryNext
<1>1. PICK idx \in MergeIndexes(commits, HeadCommit, t) :
           \E chosen \in [Conflicted(idx) -> Content] :
              Grow(<<t>>, [p \in Paths |-> IF p \in DOMAIN chosen THEN chosen[p] ELSE idx[p]])
  BY DEF MergeCommit
<1>2. PICK chosen \in [Conflicted(idx) -> Content] :
           Grow(<<t>>, [p \in Paths |-> IF p \in DOMAIN chosen THEN chosen[p] ELSE idx[p]])
  BY <1>1
<1>3. idx \in MergeIndex
  BY <1>1 DEF MergeIndexes
<1>4. [p \in Paths |-> IF p \in DOMAIN chosen THEN chosen[p] ELSE idx[p]] \in Tree
  BY <1>3, SettledIsTree
<1>5. <<t>> \in {<<>>} \cup {<<c>> : c \in CommitIds}
  OBVIOUS
<1>. QED
  BY <1>2, <1>4, <1>5 DEF HistoryNext

\* What a step is to the history: a commit(), nothing, or a step GitHistory
\* allows once there are commits.
LEMMA DiskHistoryStep ==
    ASSUME DiskInv, Next
    PROVE  Commit \/ UNCHANGED historyVars \/ (commits # <<>> /\ HistoryNext)
<1> DEFINE Goal == Commit \/ UNCHANGED historyVars \/ (commits # <<>> /\ HistoryNext)
<1>1. /\ HistoryTypeOK
      /\ CommitIds # {} => commits # <<>> /\ HeadCommit \in CommitIds
      /\ \A c \in CommitIds : c # NoCommit
  BY HeadOrNothing DEF DiskInv, HistoryInv, CommitIds, NoCommit
<1>2. \A n \in Branches : branch[n] # NoCommit => branch[n] \in CommitIds
  BY <1>1 DEF HistoryTypeOK
<1>3. ASSUME NEW p \in Paths,
             \/ AddToIndex(p) \/ RemoveFromIndex(p)
             \/ DeleteFile(p) \/ DeleteFileFails(p) \/ DeleteFileStays(p)
             \/ \E content \in Content : EditFile(p, content)
             \/ \E content \in Blobs : WriteFile(p, content) \/ WriteFileFails(p, content)
      PROVE  Goal
  BY <1>3 DEF AddToIndex, RemoveFromIndex, DeleteFile, DeleteFileFails,
              DeleteFileStays, EditFile, WriteFile, WriteFileFails
<1>4. ASSUME NEW n \in Branches, DeleteBranch(n)
      PROVE  Goal
  BY <1>1, <1>2, <1>4 DEF DeleteBranch, HistoryNext
<1>5. ASSUME NEW n \in Branches, Checkout(n)
      PROVE  Goal
  BY <1>1, <1>2, <1>5 DEF Checkout, HistoryNext
<1>6. ASSUME NEW n \in Branches, NEW c \in CommitIds, CreateBranch(n, c)
      PROVE  Goal
  BY <1>1, <1>6 DEF CreateBranch, HistoryNext
<1>7. ASSUME NEW c \in CommitIds, CheckoutCommit(c) \/ CheckoutHeadStays(c)
      PROVE  Goal
  BY <1>1, <1>7 DEF CheckoutCommit, CheckoutHeadStays, HistoryNext
<1>8. ASSUME NEW c \in CommitIds, MergeFastForward(c)
      PROVE  Goal
  BY <1>1, <1>8 DEF MergeFastForward, HistoryNext
<1>9. ASSUME NEW c \in CommitIds, MergeCommit(c)
      PROVE  Goal
  BY <1>1, <1>9, MergeCommitGrows
<1>10. CASE Stash \/ StashPop
  BY <1>10 DEF Stash, StashPop
<1>. QED
  BY <1>3, <1>4, <1>5, <1>6, <1>7, <1>8, <1>9, <1>10 DEF Next

\* Every step keeps the types of what GitHistory does not know of.
LEMMA DiskRestStep ==
    ASSUME DiskInv, Next
    PROVE  /\ index' \in MergeIndex /\ workdir' \in Tree /\ vtree' \in Tree
           /\ stashes' \in Seq(StashRecord)
           /\ touched' \in SUBSET Paths /\ behind' \in BOOLEAN
<1> DEFINE Goal == /\ index' \in MergeIndex /\ workdir' \in Tree /\ vtree' \in Tree
                   /\ stashes' \in Seq(StashRecord)
                   /\ touched' \in SUBSET Paths /\ behind' \in BOOLEAN
<1>1. /\ DiskTypeOK /\ HistoryTypeOK
      /\ index \in MergeIndex /\ workdir \in Tree /\ vtree \in Tree
      /\ stashes \in Seq(StashRecord) /\ touched \in SUBSET Paths /\ behind \in BOOLEAN
      /\ HeadTree \in Tree /\ \A c \in CommitIds : commits[c].tree \in Tree
  BY TreesAreTrees DEF DiskInv, DiskTypeOK
<1>2. Tree \subseteq MergeIndex /\ Absent \in Content /\ Blobs \subseteq Content
  BY DEF Tree, MergeIndex, Content
<1>3. \A n \in Branches : branch[n] # NoCommit => branch[n] \in CommitIds
  BY <1>1 DEF HistoryTypeOK
<1>4. ASSUME NEW p \in Paths, NEW content \in Content
      PROVE  /\ [workdir EXCEPT ![p] = content] \in Tree
             /\ [vtree EXCEPT ![p] = content] \in Tree
             /\ [index EXCEPT ![p] = content] \in MergeIndex
  BY <1>1 DEF Tree, MergeIndex
<1>5. ASSUME NEW p \in Paths,
             \/ AddToIndex(p) \/ RemoveFromIndex(p)
             \/ DeleteFile(p) \/ DeleteFileFails(p) \/ DeleteFileStays(p)
      PROVE  Goal
  <2>1. workdir[p] \in Content
    BY <1>1 DEF Tree
  <2>. QED
    BY <1>1, <1>2, <1>4, <1>5, <2>1
    DEF AddToIndex, RemoveFromIndex, DeleteFile, DeleteFileFails, DeleteFileStays
<1>6. ASSUME NEW p \in Paths, NEW content \in Content, EditFile(p, content)
      PROVE  Goal
  BY <1>1, <1>4, <1>6 DEF EditFile
<1>7. ASSUME NEW p \in Paths, NEW content \in Blobs, WriteFile(p, content)
      PROVE  Goal
  BY <1>1, <1>2, <1>4, <1>7 DEF WriteFile
<1>8. ASSUME NEW p \in Paths, NEW content \in Blobs, WriteFileFails(p, content)
      PROVE  Goal
  <2>1. PICK written \in Blobs \cup {workdir[p]} : workdir' = [workdir EXCEPT ![p] = written]
    BY <1>8 DEF WriteFileFails
  <2>2. workdir' \in Tree
    BY <1>1, <1>2, <1>4, <2>1 DEF Tree
  <2>. QED
    BY <1>1, <1>2, <1>4, <1>8, <2>2 DEF WriteFileFails
<1>9. CASE Commit
  BY <1>1, <1>9 DEF Commit
<1>10. ASSUME NEW n \in Branches,
              DeleteBranch(n) \/ \E c \in CommitIds : CreateBranch(n, c)
       PROVE  Goal
  BY <1>1, <1>10 DEF DeleteBranch, CreateBranch, diskVars
<1>11. ASSUME NEW n \in Branches, Checkout(n)
       PROVE  Goal
  <2>1. commits[branch[n]].tree \in Tree /\ CheckoutTree(commits[branch[n]].tree)
    BY <1>1, <1>3, <1>11 DEF Checkout
  <2>. QED
    BY <1>1, <1>11, <2>1, CheckoutType DEF Checkout
<1>12. ASSUME NEW c \in CommitIds,
              CheckoutCommit(c) \/ CheckoutHeadStays(c) \/ MergeFastForward(c)
       PROVE  Goal
  <2>1. commits[c].tree \in Tree /\ CheckoutTree(commits[c].tree) /\ behind' \in BOOLEAN
    BY <1>1, <1>12 DEF CheckoutCommit, CheckoutHeadStays, MergeFastForward
  <2>. QED
    BY <1>1, <2>1, CheckoutType
<1>13. ASSUME NEW c \in CommitIds, MergeCommit(c)
       PROVE  Goal
  BY <1>1, <1>13 DEF MergeCommit
<1>14. CASE Stash
  <2>1. workdir' \in Tree
    BY <1>1, <1>14 DEF Stash, Tree
  <2>. QED
    BY <1>1, <1>2, <1>14, <2>1, StashTypes DEF Stash
<1>15. CASE StashPop
  BY <1>1, <1>15, StashTypes, StashPopEffect
<1>. QED
  BY <1>5, <1>6, <1>7, <1>8, <1>9, <1>10, <1>11, <1>12, <1>13, <1>14, <1>15 DEF Next

\* DiskInv is inductive, and every step keeps the history.
LEMMA DiskStep ==
    ASSUME DiskInv, [Next]_vars
    PROVE  DiskInv' /\ KeepsHistory
<1>1. CASE Next
  <2>1. Commit => HistoryInv' /\ KeepsHistory /\ Len(commits') = Len(commits) + 1
    BY DiskCommitStep
  <2>2. UNCHANGED historyVars \/ HistoryNext => HistoryInv' /\ KeepsHistory
    BY HistoryStep DEF DiskInv
  <2>3. HistoryInv' /\ KeepsHistory
    BY <1>1, <2>1, <2>2, DiskHistoryStep
  <2>4. DiskTypeOK'
    BY <1>1, <2>3, DiskRestStep DEF DiskTypeOK, HistoryInv
  <2>5. FreshHead'
    <3>1. commits' = <<>> => Len(commits') = 0 /\ CommitIds' = {}
      BY DEF CommitIds
    <3>2. commits' = <<>> => CommitIds = {}
      BY <2>3, <3>1 DEF KeepsHistory
    <3>3. CommitIds = {} => commits = <<>>
      BY DEF DiskInv, HistoryInv, HistoryTypeOK, CommitIds
    <3>4. Len(commits) \in Nat
      BY DEF DiskInv, HistoryInv, HistoryTypeOK
    <3>5. commits' = <<>> => UNCHANGED historyVars
      BY <1>1, <2>1, <3>1, <3>2, <3>3, <3>4, DiskHistoryStep
    <3>. QED
      BY <3>2, <3>3, <3>5 DEF DiskInv, FreshHead, historyVars
  <2>. QED
    BY <2>3, <2>4, <2>5 DEF DiskInv
<1>2. CASE UNCHANGED vars
  <2>1. UNCHANGED historyVars /\ UNCHANGED diskVars
    BY <1>2 DEF vars
  <2>2. HistoryInv' /\ KeepsHistory
    BY <2>1, HistoryStep DEF DiskInv
  <2>. QED
    BY <2>1, <2>2 DEF DiskInv, DiskTypeOK, HistoryInv, FreshHead, historyVars, diskVars
<1>. QED
  BY <1>1, <1>2

\* GitRepository::init() makes a state of the invariant.
LEMMA DiskInit == Init => DiskInv
<1>. SUFFICES ASSUME Init PROVE DiskInv
  OBVIOUS
<1>1. EmptyTree \in Tree /\ EmptyTree \in MergeIndex
  BY DEF EmptyTree, Tree, MergeIndex, Content
<1>2. commits = <<>> /\ Len(commits) = 0 /\ CommitIds = {}
  BY DEF Init, CommitIds
<1>3. HistoryTypeOK
  <2>1. commits \in Seq(CommitRecord)
    BY DEF Init
  <2>2. head \in [branch : Branches \cup {NoBranch}, commit : CommitIds \cup {NoCommit}]
    BY RefAssumption DEF Init, SymbolicTo
  <2>. QED
    BY <2>1, <2>2 DEF Init, HistoryTypeOK
<1>4. DiskTypeOK
  <2>1. stashes \in Seq(StashRecord)
    BY DEF Init
  <2>2. index \in MergeIndex /\ workdir \in Tree /\ vtree \in Tree
    BY <1>1 DEF Init
  <2>3. touched \in SUBSET Paths /\ behind \in BOOLEAN
    BY DEF Init
  <2>. QED
    BY <1>3, <2>1, <2>2, <2>3 DEF DiskTypeOK
<1>. QED
  BY <1>2, <1>3, <1>4 DEF Init, DiskInv, HistoryInv, HeadAlwaysResolves, FreshHead

\* The disk repository's state stays well-formed: no commit and no working
\* directory takes a conflict of a popped stash, HEAD and the references lead
\* to commits that exist.
THEOREM DiskType == Spec => [](DiskTypeOK /\ HistoryInv)
<1>1. DiskInv /\ [Next]_vars => DiskInv'
  BY DiskStep
<1>2. DiskInv => DiskTypeOK /\ HistoryInv
  BY DEF DiskInv
<1>. QED
  BY <1>1, <1>2, DiskInit, PTL DEF Spec

-----------------------------------------------------------------------------
\* Where the history stays, HEAD's tree does.
LEMMA HeadTreeStays ==
    ASSUME UNCHANGED historyVars
    PROVE  HeadTree' = HeadTree
BY DEF historyVars, HeadTree, HeadCommit, TreeAt, NoCommit, EmptyTree

\* What a checkout does to one file.
LEMMA CheckedOut ==
    ASSUME NEW target, CheckoutTree(target), NEW p \in Paths
    PROVE  \/ /\ target[p] # HeadTree[p] /\ workdir[p] \in {HeadTree[p], target[p]}
              /\ index'[p] = target[p] /\ workdir'[p] = target[p]
           \/ /\ target[p] = HeadTree[p] /\ (p \in touched' <=> p \in touched)
              /\ index'[p] = index[p] /\ workdir'[p] = workdir[p]
BY DEF CheckoutTree, Changed

\* The steps that replace the working directory by a tree HEAD then leads to.
LEMMA HeadFollows ==
    ASSUME DiskInv, [Next]_vars
    PROVE  /\ \A n \in Branches : Checkout(n) => HeadTree' = commits[branch[n]].tree
           /\ \A c \in CommitIds :
                 CheckoutCommit(c) \/ MergeFastForward(c) => HeadTree' = commits[c].tree
<1>1. /\ HistoryTypeOK /\ HistoryTypeOK'
      /\ \A c \in CommitIds : c # NoCommit
  BY DiskStep DEF DiskInv, HistoryInv, CommitIds, NoCommit
<1>2. ASSUME NEW n \in Branches, Checkout(n)
      PROVE  HeadTree' = commits[branch[n]].tree
  <2>1. n # NoBranch
    BY RefAssumption
  <2>2. HeadCommit' = branch[n] /\ branch[n] # NoCommit /\ commits' = commits
    BY <1>2, <2>1 DEF Checkout, SwitchHead, SymbolicTo, HeadCommit
  <2>. QED
    BY <2>2 DEF HeadTree, TreeAt
<1>3. ASSUME NEW c \in CommitIds, CheckoutCommit(c)
      PROVE  HeadTree' = commits[c].tree
  <2>1. HeadCommit' = c /\ commits' = commits
    BY <1>3 DEF CheckoutCommit, SwitchHead, DetachedAt, HeadCommit
  <2>. QED
    BY <1>1, <2>1 DEF HeadTree, TreeAt
<1>4. ASSUME NEW c \in CommitIds, MergeFastForward(c)
      PROVE  HeadTree' = commits[c].tree
  <2>1. MoveHead(c) /\ commits' = commits
    BY <1>4 DEF MergeFastForward, FastForward
  <2>2. c \in CommitIds'
    BY <2>1 DEF CommitIds
  <2>3. HeadCommit' = c
    BY <1>1, <2>1, <2>2, MoveHeadMoves
  <2>. QED
    BY <1>1, <2>1, <2>3 DEF HeadTree, TreeAt
<1>. QED
  BY <1>2, <1>3, <1>4

\* UntouchedIsClean is inductive, given what a step does to the history.
LEMMA CleanStep ==
    ASSUME DiskInv, UntouchedIsClean, [Next]_vars
    PROVE  UntouchedIsClean'
<1>. SUFFICES ASSUME NEW p \in Paths, p \notin touched'
              PROVE  /\ workdir'[p] = index'[p]
                     /\ ~behind' => index'[p] = HeadTree'[p]
  BY DEF UntouchedIsClean, Status
<1> DEFINE Goal == /\ workdir'[p] = index'[p]
                   /\ ~behind' => index'[p] = HeadTree'[p]
<1>1. p \notin touched => /\ workdir[p] = index[p]
                          /\ ~behind => index[p] = HeadTree[p]
  BY DEF UntouchedIsClean, Status
<1>2. HistoryTypeOK /\ index \in MergeIndex /\ workdir \in Tree /\ touched \in SUBSET Paths
  BY DEF DiskInv, DiskTypeOK
<1>3. ASSUME NEW q \in Paths,
             \/ AddToIndex(q) \/ RemoveFromIndex(q)
             \/ DeleteFile(q) \/ DeleteFileFails(q) \/ DeleteFileStays(q)
             \/ \E content \in Content : EditFile(q, content)
             \/ \E content \in Blobs : WriteFile(q, content) \/ WriteFileFails(q, content)
      PROVE  Goal
  <2>1. HeadTree' = HeadTree
    BY <1>3, HeadTreeStays DEF AddToIndex, RemoveFromIndex, DeleteFile, DeleteFileFails,
                               DeleteFileStays, EditFile, WriteFile, WriteFileFails
  <2>2. /\ p \notin touched /\ behind' = behind
        /\ index'[p] = index[p] /\ workdir'[p] = workdir[p]
    BY <1>2, <1>3 DEF AddToIndex, RemoveFromIndex, DeleteFile, DeleteFileFails,
                      DeleteFileStays, EditFile, WriteFile, WriteFileFails, MergeIndex, Tree
  <2>. QED
    BY <1>1, <2>1, <2>2
<1>4. CASE Commit
  <2>1. HeadTree' = index
    <3>1. HeadCommit' = Len(commits) + 1 /\ commits'[HeadCommit'].tree = index
      BY <1>4, DiskCommitStep
    <3>2. HeadCommit' # NoCommit
      BY <1>2, <3>1 DEF NoCommit, HistoryTypeOK
    <3>. QED
      BY <3>1, <3>2 DEF HeadTree, TreeAt
  <2>. QED
    BY <1>1, <1>4, <2>1 DEF Commit
<1>5. ASSUME NEW n \in Branches,
             DeleteBranch(n) \/ \E c \in CommitIds : CreateBranch(n, c)
      PROVE  Goal
  <2>1. HeadCommit' = HeadCommit /\ commits' = commits
    <3>1. CASE DeleteBranch(n)
      BY <1>2, <3>1 DEF DeleteBranch, DropBranch, HeadCommit, HistoryTypeOK
    <3>2. ASSUME NEW c \in CommitIds, CreateBranch(n, c)
          PROVE  HeadCommit' = HeadCommit /\ commits' = commits
      <4>1. HeadCommit # NoCommit
        BY HeadOrNothing DEF CommitIds, NoCommit
      <4>. QED
        BY <1>2, <3>2, <4>1 DEF CreateBranch, AddBranch, HeadCommit, HistoryTypeOK
    <3>. QED
      BY <1>5, <3>1, <3>2
  <2>2. HeadTree' = HeadTree
    BY <2>1 DEF HeadTree, TreeAt
  <2>3. UNCHANGED diskVars
    BY <1>5 DEF DeleteBranch, CreateBranch
  <2>. QED
    BY <1>1, <2>2, <2>3 DEF diskVars
<1>6. ASSUME NEW target, CheckoutTree(target),
             behind' \/ (behind' = behind /\ HeadTree' = target)
      PROVE  Goal
  BY <1>1, <1>6, CheckedOut
<1>7. ASSUME NEW n \in Branches, Checkout(n)
      PROVE  Goal
  BY <1>6, <1>7, HeadFollows DEF Checkout
<1>8. ASSUME NEW c \in CommitIds,
             CheckoutCommit(c) \/ CheckoutHeadStays(c) \/ MergeFastForward(c)
      PROVE  Goal
  BY <1>6, <1>8, HeadFollows DEF CheckoutCommit, CheckoutHeadStays, MergeFastForward
<1>9. ASSUME NEW c \in CommitIds, MergeCommit(c)
      PROVE  Goal
  BY <1>1, <1>9 DEF MergeCommit
<1>10. CASE Stash
  <2>1. HeadTree' = HeadTree
    BY <1>10, HeadTreeStays DEF Stash
  <2>2. index'[p] = HeadTree[p]
    BY <1>10 DEF Stash
  <2>3. workdir'[p] = HeadTree[p]
    <3>1. CASE p \in Tracked
      BY <1>10, <3>1 DEF Stash
    <3>2. CASE p \notin Tracked
      <4>1. index[p] = HeadTree[p] /\ p \notin touched
        BY <1>10, <3>2 DEF Stash, Tracked
      <4>. QED
        BY <1>1, <1>10, <3>2, <4>1 DEF Stash
    <3>. QED
      BY <3>1, <3>2
  <2>. QED
    BY <2>1, <2>2, <2>3
<1>11. CASE StashPop
  <2>1. HeadTree' = HeadTree
    BY <1>11, HeadTreeStays, StashPopEffect
  <2>2. /\ p \notin touched /\ behind' = behind
        /\ index'[p] = index[p] /\ workdir'[p] = workdir[p]
    BY <1>11, StashPopEffect
  <2>. QED
    BY <1>1, <2>1, <2>2
<1>12. CASE UNCHANGED vars
  BY <1>1, <1>12, HeadTreeStays DEF vars, diskVars
<1>. QED
  BY <1>3, <1>4, <1>5, <1>7, <1>8, <1>9, <1>10, <1>11, <1>12 DEF Next

\* However the operations are mixed, checkouts, fast-forwards and stashes leave
\* a file nobody touched equal in HEAD, the index and the working directory.
THEOREM DiskUntouchedIsClean == Spec => []UntouchedIsClean
<1>1. Init => UntouchedIsClean
  <2>. SUFFICES ASSUME Init PROVE UntouchedIsClean
    OBVIOUS
  <2>1. HeadCommit = NoCommit
    BY RefAssumption DEF Init, HeadCommit, SymbolicTo
  <2>2. HeadTree = EmptyTree
    BY <2>1 DEF HeadTree, TreeAt
  <2>. QED
    BY <2>2 DEF Init, UntouchedIsClean, Status, EmptyTree
<1>2. DiskInv /\ UntouchedIsClean /\ [Next]_vars => DiskInv' /\ UntouchedIsClean'
  BY CleanStep, DiskStep
<1>. QED
  BY <1>1, <1>2, DiskInit, PTL DEF Spec

-----------------------------------------------------------------------------
\* What commit() needs of its callers to keep what was merged: HEAD has not moved
\* alone since the last commit() or stash() - merge() made no merge commit and no
\* checkout() failed to write HEAD.
CommitsWhenSettled == [][Commit => ~behind]_vars

\* These two are the only ways in which a commit() takes back a merge: after any
\* sequence of the other operations, fast-forwards, checkouts and popped stashes
\* included, it leaves every file that nobody touched as it is in HEAD.
THEOREM CommitKeepsMergedIfSettled ==
    Spec /\ CommitsWhenSettled => CommitKeepsMerged
<1>1. UntouchedIsClean /\ [Commit => ~behind]_vars
        => [Commit => \A p \in Paths \ touched : index[p] = HeadTree[p]]_vars
  BY DEF UntouchedIsClean, Status
<1>. QED
  BY <1>1, DiskUntouchedIsClean, PTL DEF CommitsWhenSettled, CommitKeepsMerged

-----------------------------------------------------------------------------
\* A file a checkout changes had what HEAD has.
LEMMA CheckoutKeepsEdits ==
    ASSUME NEW target, CheckoutTree(target), NEW p \in Paths, workdir'[p] # workdir[p]
    PROVE  workdir[p] = HeadTree[p]
BY CheckedOut

\* A file an operation of its caller changes is the one it was asked to.
LEMMA CallersKeepEdits ==
    ASSUME DiskInv, NEW q \in Paths,
           \/ AddToIndex(q) \/ RemoveFromIndex(q)
           \/ DeleteFile(q) \/ DeleteFileFails(q) \/ DeleteFileStays(q)
           \/ \E content \in Content : EditFile(q, content)
           \/ \E content \in Blobs : WriteFile(q, content) \/ WriteFileFails(q, content)
    PROVE  \A p \in Paths : workdir'[p] # workdir[p] => Edits(p)
<1>. SUFFICES ASSUME NEW p \in Paths, workdir'[p] # workdir[p] PROVE Edits(p)
  OBVIOUS
<1>1. workdir \in Tree
  BY DEF DiskInv, DiskTypeOK
<1>2. p = q
  BY <1>1 DEF AddToIndex, RemoveFromIndex, DeleteFile, DeleteFileFails,
              DeleteFileStays, EditFile, WriteFile, WriteFileFails, Tree
<1>3. ~AddToIndex(q) /\ ~RemoveFromIndex(q) /\ ~DeleteFileFails(q) /\ ~DeleteFileStays(q)
  BY DEF AddToIndex, RemoveFromIndex, DeleteFileFails, DeleteFileStays
<1>. QED
  BY <1>2, <1>3 DEF Edits

\* What stash() takes out of the working directory is in the stash.
LEMMA StashKeepsEdits ==
    ASSUME DiskInv, Stash, NEW p \in Paths, workdir'[p] # workdir[p]
    PROVE  \/ \E i \in DOMAIN stashes' : stashes'[i].work[p] = workdir[p]
           \/ index[p] = Absent /\ HeadTree[p] # Absent
<1>1. PICK left \in SUBSET {q \in Tracked : index[q] = Absent} :
         stashes' = <<[base |-> HeadTree,
                       work |-> [q \in Paths |->
                           IF q \in left THEN Absent
                           ELSE IF q \in Tracked THEN workdir[q] ELSE HeadTree[q]]]>>
                    \o stashes
  BY DEF Stash
<1> DEFINE s == [base |-> HeadTree,
                 work |-> [q \in Paths |->
                     IF q \in left THEN Absent
                     ELSE IF q \in Tracked THEN workdir[q] ELSE HeadTree[q]]]
<1>2. p \in Tracked
  BY DEF Stash
<1>3. CASE p \in left
  BY <1>2, <1>3 DEF Tracked
<1>4. CASE p \notin left
  <2>1. s.work[p] = workdir[p]
    BY <1>2, <1>4
  <2>2. stashes' = <<s>> \o stashes /\ stashes \in Seq(StashRecord)
    BY <1>1 DEF DiskInv, DiskTypeOK
  <2> HIDE DEF s
  <2>3. 1 \in DOMAIN stashes' /\ stashes'[1] = s
    BY <2>2
  <2>. QED
    BY <2>1, <2>3
<1>. QED
  BY <1>3, <1>4

\* What stashPop() replaces is in HEAD.
LEMMA PopKeepsEdits ==
    ASSUME DiskInv, StashPop, NEW p \in Paths, workdir'[p] # workdir[p]
    PROVE  workdir[p] = HeadTree[p]
<1>1. workdir[p] # Conflict
  BY ContentAssumption DEF DiskInv, DiskTypeOK, Tree, Content
<1>. QED
  BY <1>1, StashPopEffect

\* GIT_CHECKOUT_SAFE, for every repository: what checkout(), merge(), stash()
\* and stashPop() overwrite is in HEAD or in a stash.
THEOREM DiskNoEditIsLost == Spec => NoEditIsLost
<1>1. ASSUME DiskInv, [Next]_vars PROVE [KeepsEdits]_vars
  <2>1. ASSUME NEW q \in Paths,
               \/ AddToIndex(q) \/ RemoveFromIndex(q)
               \/ DeleteFile(q) \/ DeleteFileFails(q) \/ DeleteFileStays(q)
               \/ \E content \in Content : EditFile(q, content)
               \/ \E content \in Blobs : WriteFile(q, content) \/ WriteFileFails(q, content)
        PROVE  KeepsEdits
    BY <1>1, <2>1, CallersKeepEdits DEF KeepsEdits
  <2>2. ASSUME NEW target, CheckoutTree(target)
        PROVE  KeepsEdits
    BY <2>2, CheckoutKeepsEdits DEF KeepsEdits
  <2>3. ASSUME UNCHANGED workdir PROVE KeepsEdits
    BY <2>3 DEF KeepsEdits
  <2>4. CASE Commit
    BY <2>3, <2>4 DEF Commit
  <2>5. ASSUME NEW n \in Branches,
               \/ DeleteBranch(n) \/ Checkout(n)
               \/ \E c \in CommitIds : CreateBranch(n, c)
        PROVE  KeepsEdits
    BY <2>2, <2>3, <2>5 DEF DeleteBranch, Checkout, CreateBranch, diskVars
  <2>6. ASSUME NEW c \in CommitIds,
               \/ CheckoutCommit(c) \/ CheckoutHeadStays(c)
               \/ MergeFastForward(c) \/ MergeCommit(c)
        PROVE  KeepsEdits
    BY <2>2, <2>3, <2>6 DEF CheckoutCommit, CheckoutHeadStays, MergeFastForward, MergeCommit
  <2>7. CASE Stash
    BY <1>1, <2>7, StashKeepsEdits DEF KeepsEdits
  <2>8. CASE StashPop
    BY <1>1, <2>8, PopKeepsEdits DEF KeepsEdits
  <2>9. CASE UNCHANGED vars
    BY <2>9
  <2>. QED
    BY <1>1, <2>1, <2>4, <2>5, <2>6, <2>7, <2>8, <2>9 DEF Next
<1>2. DiskInv /\ [Next]_vars => DiskInv'
  BY DiskStep
<1>. QED
  BY <1>1, <1>2, DiskInit, PTL DEF Spec, NoEditIsLost

-----------------------------------------------------------------------------
\* HEAD as GitHistory sees it.
MappedHead == IF commits = <<>> THEN NoHead ELSE head

\* Once there are commits, and HEAD is seen as it is, the steps of GitHistory
\* are those of the history the mapping gives.
LEMMA SameHistory ==
    ASSUME HistoryNext, commits # <<>>, commits' # <<>>, HeadCommit # NoCommit
    PROVE  History!HistoryNext
<1>1. /\ MappedHead = head /\ MappedHead' = head'
      /\ History!CommitIds = CommitIds /\ History!Tree = Tree
      /\ History!HeadCommit = HeadCommit
  BY DEF MappedHead, History!CommitIds, CommitIds, History!Tree, Tree, History!Content,
         Content, History!HeadCommit, HeadCommit
<1>2. ASSUME NEW c PROVE MoveHead(c) => History!MoveHead(c)
  BY <1>1 DEF MoveHead, History!MoveHead, MappedHead, History!DetachedAt, DetachedAt,
              History!NoCommit, NoCommit
<1>3. ASSUME NEW tree PROVE ~FirstCommit(tree)
  BY DEF FirstCommit
<1>4. ASSUME NEW others, NEW tree, Grow(others, tree) PROVE History!Grow(others, tree)
  BY <1>1, <1>2, <1>4 DEF Grow, History!Grow, NewCommit, History!NewCommit,
                          History!NoCommit, NoCommit
<1>5. ASSUME NEW c, FastForward(c) PROVE History!FastForward(c)
  BY <1>1, <1>2, <1>5 DEF FastForward, History!FastForward, Reaches, History!Reaches,
                          History!NoCommit, NoCommit
<1>6. ASSUME NEW h, SwitchHead(h) PROVE History!SwitchHead(h)
  BY <1>1, <1>6 DEF SwitchHead, History!SwitchHead, MappedHead
<1>7. ASSUME NEW c
      PROVE  History!DetachedAt(c) = DetachedAt(c) /\ History!SymbolicTo(c) = SymbolicTo(c)
  BY DEF History!DetachedAt, DetachedAt, History!SymbolicTo, SymbolicTo, History!NoCommit,
         NoCommit
<1>8. head # NoHead
  BY DEF HeadCommit, NoHead, DetachedAt
<1>9. ASSUME NEW n, NEW c
      PROVE  /\ AddBranch(n, c) => History!AddBranch(n, c)
             /\ DropBranch(n) => History!DropBranch(n)
             /\ AddTag(n, c) => History!AddTag(n, c)
             /\ DropTag(n) => History!DropTag(n)
  BY <1>1 DEF AddBranch, History!AddBranch, DropBranch, History!DropBranch,
              AddTag, History!AddTag, DropTag, History!DropTag, MappedHead,
              History!NoCommit, NoCommit
<1>10. History!NoCommit = NoCommit
  BY DEF History!NoCommit, NoCommit
<1>. QED
  BY <1>1, <1>3, <1>4, <1>5, <1>6, <1>7, <1>8, <1>9, <1>10
  DEF HistoryNext, History!HistoryNext

\* The first commit() is the first commit of GitHistory, on the branch HEAD
\* led to all along.
LEMMA SameFirstCommit ==
    ASSUME DiskInv, Commit, commits = <<>>, commits' # <<>>
    PROVE  History!HistoryNext
<1>1. /\ index \in Tree
      /\ commits' = Append(commits, NewCommit(commits, <<>>, index))
      /\ branch' = [branch EXCEPT ![DefaultBranch] = Len(commits) + 1]
      /\ UNCHANGED <<tag, head>>
      /\ head = SymbolicTo(DefaultBranch)
      /\ branch[DefaultBranch] = NoCommit
  BY FirstDiskCommit
<1>2. MappedHead = NoHead /\ MappedHead' = SymbolicTo(DefaultBranch)
  BY <1>1 DEF MappedHead
<1>3. History!HeadCommit = NoCommit
  BY <1>2 DEF MappedHead, History!HeadCommit, NoHead, DetachedAt
<1>4. History!FirstCommit(index)
  BY <1>1, <1>2, <1>3 DEF MappedHead, History!FirstCommit, History!NewCommit, NewCommit,
                          History!SymbolicTo, SymbolicTo, History!NoCommit, NoCommit
<1>5. History!Tree = Tree
  BY DEF History!Tree, Tree, History!Content, Content
<1>. QED
  BY <1>1, <1>4, <1>5 DEF History!HistoryNext

\* The disk repository implements GitHistory, with HEAD seen through the
\* mapping: for every set of files, branches and commits.
THEOREM DiskImplementsHistory == Spec => KeepsHistoryPromises
<1>1. Init => History!HistoryInit
  BY DEF Init, History!HistoryInit, History!NoHead, History!DetachedAt, NoHead, DetachedAt,
         History!NoCommit, NoCommit
<1>2. ASSUME DiskInv, [Next]_vars PROVE [History!HistoryNext]_(History!historyVars)
  <2>1. CASE UNCHANGED historyVars
    BY <2>1 DEF historyVars, History!historyVars, NoHead, DetachedAt, NoCommit
  <2>2. CASE Commit /\ commits = <<>>
    <3>1. Len(commits') = Len(commits) + 1 /\ Len(commits) = 0
      BY <1>2, <2>2, DiskCommitStep
    <3>. QED
      BY <1>2, <2>2, <3>1, SameFirstCommit
  <2>3. CASE commits # <<>> /\ ~UNCHANGED historyVars
    <3>1. HistoryNext
      <4>1. Commit => Grow(<<>>, index) /\ index \in Tree
        BY <1>2, <2>3, DiskCommitStep, CleanIndexIsTree
        DEF Commit, DiskInv, DiskTypeOK
      <4>2. Commit => HistoryNext
        BY <4>1 DEF HistoryNext
      <4>. QED
        BY <1>2, <2>3, <4>2, DiskHistoryStep DEF vars
    <3>2. CommitIds # {}
      <4>1. HeadCommit \in CommitIds \cup {NoCommit}
        BY <1>2, HeadCommitType DEF DiskInv, DiskTypeOK
      <4>. QED
        BY <1>2, <2>3, <4>1, HeadOrNothing
    <3>3. CommitIds' # {}
      BY <1>2, <3>2, DiskStep DEF KeepsHistory
    <3>4. commits' # <<>>
      BY <3>3 DEF CommitIds
    <3>5. HeadCommit # NoCommit
      BY <1>2, <2>3, HeadOrNothing
    <3>. QED
      BY <2>3, <3>1, <3>4, <3>5, SameHistory
  <2>. QED
    BY <1>2, <2>1, <2>2, <2>3, DiskHistoryStep DEF vars
<1>3. DiskInv /\ [Next]_vars => DiskInv'
  BY DiskStep
<1>. QED
  BY <1>1, <1>2, <1>3, DiskInit, PTL DEF Spec, KeepsHistoryPromises, History!HistorySpec
=============================================================================
