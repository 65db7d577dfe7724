--------------------------- MODULE GitMergeProofs ---------------------------
(***************************************************************************)
(* Proof that no merge commit of a virtual GitRepository loses a change of *)
(* one of its parents, for any number of threads inside merge().           *)
(*                                                                         *)
(* The invariant adds two facts to those of GitRepositoryProofs: what a    *)
(* pending merge computed in phase 1 is still the merge of its two commits *)
(* when phase 3 commits it, and ancestry stays inside the history.         *)
(***************************************************************************)
EXTENDS GitRepositoryProofs

\* A tree that follows the merge index wherever the index is settled.
Follows(tree, idx) == \A p \in Paths \ Conflicted(idx) : tree[p] = idx[p]

\* With one merge base, the index has the merge of its content with the two sides'.
LEMMA OneMergeBase ==
    ASSUME NEW cs, NEW o, NEW t, NEW b, NEW p \in Paths,
           cs[o].tree \in Tree, cs[t].tree \in Tree,
           NEW idx \in MergeIndexes(cs, o, t), MergeBases(cs, o, t) = {b}
    PROVE  idx[p] = MergedPath(cs[b].tree[p], cs[o].tree[p], cs[t].tree[p])
<1> DEFINE v == cs[b].tree[p]
           held == {cs[d].tree[p] : d \in MergeBases(cs, o, t)}
<1>1. held = {v}
  OBVIOUS
<1>2. BaseContents(cs, o, t, p) = {v}
  <2>1. held # {} /\ \E w \in held : held = {w}
    BY <1>1
  <2>2. BaseContents(cs, o, t, p) = held
    BY <2>1 DEF BaseContents
  <2>. QED
    BY <1>1, <2>2
<1>. QED
  BY <1>2 DEF MergeIndexes

\* Clean merges, the strategies "ours" and "theirs", and resolutions: whatever
\* is put where the index is in conflict.
LEMMA FollowingTakesBothSides ==
    ASSUME NEW cs, NEW o, NEW t,
           cs[o].tree \in Tree, cs[t].tree \in Tree,
           NEW idx \in MergeIndexes(cs, o, t), NEW tree, Follows(tree, idx)
    PROVE  TakesBothSides(cs, o, t, tree)
<1>. SUFFICES ASSUME NEW b \in MergeBases(cs, o, t), NEW p \in Paths,
                     MergeBases(cs, o, t) = {b}
              PROVE  /\ cs[o].tree[p] = cs[b].tree[p] => tree[p] = cs[t].tree[p]
                     /\ cs[t].tree[p] = cs[b].tree[p] => tree[p] = cs[o].tree[p]
  BY DEF TakesBothSides
<1>1. idx[p] = MergedPath(cs[b].tree[p], cs[o].tree[p], cs[t].tree[p])
  BY OneMergeBase
<1>2. cs[o].tree[p] # Conflict /\ cs[t].tree[p] # Conflict
  BY ContentAssumption DEF Tree, Content
<1>. QED
  BY <1>1, <1>2 DEF MergedPath, Follows, Conflicted

-----------------------------------------------------------------------------
\* Commits that are added leave the ancestry of the others alone.
Closed(cs) == \A c \in 1..Len(cs) :
    /\ cs[c].reach \subseteq 1..Len(cs)
    /\ \A i \in DOMAIN cs[c].parents : cs[c].parents[i] \in 1..Len(cs)

Keeps(ds, cs) == \A c \in 1..Len(cs) : ds[c] = cs[c]

\* The merge of two commits is the same after others were added.
LEMMA MergeOfOldCommits ==
    ASSUME NEW cs, NEW ds, Closed(cs), Keeps(ds, cs),
           NEW o \in 1..Len(cs), NEW t \in 1..Len(cs)
    PROVE  /\ MergeBases(ds, o, t) = MergeBases(cs, o, t)
           /\ MergeBases(cs, o, t) \subseteq 1..Len(cs)
           /\ MergeIndexes(ds, o, t) = MergeIndexes(cs, o, t)
           /\ \A tree : TakesBothSides(cs, o, t, tree) => TakesBothSides(ds, o, t, tree)
<1>1. MergeBases(cs, o, t) \subseteq 1..Len(cs)
  BY DEF MergeBases, Closed
<1>2. MergeBases(ds, o, t) = MergeBases(cs, o, t)
  <2>1. ds[o].reach = cs[o].reach /\ ds[t].reach = cs[t].reach
    BY DEF Keeps
  <2>2. \A c \in cs[o].reach : ds[c] = cs[c]
    BY DEF Closed, Keeps
  <2>. QED
    BY <2>1, <2>2 DEF MergeBases, Reaches
<1>3. \A b \in MergeBases(cs, o, t) : ds[b] = cs[b]
  BY <1>1 DEF Keeps
<1>4. ds[o] = cs[o] /\ ds[t] = cs[t]
  BY DEF Keeps
<1>5. \A p \in Paths : BaseContents(ds, o, t, p) = BaseContents(cs, o, t, p)
  <2>. SUFFICES ASSUME NEW p \in Paths
                PROVE  BaseContents(ds, o, t, p) = BaseContents(cs, o, t, p)
    OBVIOUS
  <2>1. {ds[b].tree[p] : b \in MergeBases(ds, o, t)}
           = {cs[b].tree[p] : b \in MergeBases(cs, o, t)}
    BY <1>2, <1>3
  <2>. QED
    BY <2>1 DEF BaseContents
<1>6. MergeIndexes(ds, o, t) = MergeIndexes(cs, o, t)
  BY <1>4, <1>5 DEF MergeIndexes
<1>7. \A tree : TakesBothSides(cs, o, t, tree) => TakesBothSides(ds, o, t, tree)
  BY <1>2, <1>3, <1>4 DEF TakesBothSides
<1>. QED
  BY <1>1, <1>2, <1>6, <1>7

\* Pending merges hold an index that is a merge of their commits.
PendingInv ==
    \A t \in Threads : merging[t] # NoMerge =>
        merging[t].index \in MergeIndexes(commits, merging[t].ours, merging[t].theirs)

MergeInv == Closed(commits) /\ PendingInv /\ MergeKeepsBothSides

\* A new commit has the parents it was given, and ancestry stays closed.
LEMMA AppendClosed ==
    ASSUME NEW cs \in Seq(CommitRecord), Closed(cs),
           NEW ps \in Seq(1..Len(cs)), NEW tree \in Tree
    PROVE  LET ds == Append(cs, NewCommit(cs, ps, tree))
           IN  /\ Closed(ds) /\ Keeps(ds, cs) /\ Len(ds) = Len(cs) + 1
               /\ ds[Len(ds)].parents = ps /\ ds[Len(ds)].tree = tree
<1> DEFINE new == NewCommit(cs, ps, tree)
           ds == Append(cs, new)
<1>1. /\ new.parents = ps /\ new.tree = tree
      /\ new.reach = {Len(cs) + 1} \cup UNION {cs[ps[i]].reach : i \in DOMAIN ps}
  BY DEF NewCommit
<1>2. \A i \in DOMAIN ps : ps[i] \in 1..Len(cs)
  OBVIOUS
<1>3. new.reach \subseteq 1..(Len(cs) + 1)
  <2>1. \A i \in DOMAIN ps : cs[ps[i]].reach \subseteq 1..Len(cs)
    BY <1>2 DEF Closed
  <2>. QED
    BY <1>1, <2>1
<1>4. /\ Len(ds) = Len(cs) + 1
      /\ \A c \in 1..Len(cs) : ds[c] = cs[c]
      /\ ds[Len(cs) + 1] = new
  <2> HIDE DEF new
  <2>. QED
    OBVIOUS
<1>5. Closed(ds)
  <2> HIDE DEF ds, new
  <2>1. ASSUME NEW c \in 1..Len(cs)
        PROVE  /\ ds[c].reach \subseteq 1..Len(ds)
               /\ \A i \in DOMAIN ds[c].parents : ds[c].parents[i] \in 1..Len(ds)
    <3>1. 1..Len(cs) \subseteq 1..Len(ds)
      BY <1>4
    <3>. QED
      BY <1>4, <3>1 DEF Closed
  <2>2. /\ new.reach \subseteq 1..Len(ds)
        /\ \A i \in DOMAIN new.parents : new.parents[i] \in 1..Len(ds)
    BY <1>1, <1>2, <1>3, <1>4
  <2>3. \A c \in 1..Len(ds) : c \in 1..Len(cs) \/ ds[c] = new
    BY <1>4
  <2>. QED
    BY <2>1, <2>2, <2>3 DEF Closed
<1>. QED
  BY <1>1, <1>4, <1>5 DEF Keeps

\* The commits of a repository are records with a sequence of parents.
LEMMA ParentsType ==
    ASSUME HistoryTypeOK, NEW c \in CommitIds
    PROVE  commits[c].parents \in Seq(Nat)
<1>1. commits[c] \in CommitRecord
  BY DEF HistoryTypeOK, CommitIds
<1>. QED
  BY <1>1 DEF CommitRecord

\* Adding a commit keeps the merges of the others, and is a merge that keeps
\* both sides if its tree is one.
LEMMA AppendKeepsMerges ==
    ASSUME HistoryTypeOK, Closed(commits), MergeKeepsBothSides,
           NEW ps \in Seq(CommitIds), NEW tree \in Tree,
           commits' = Append(commits, NewCommit(commits, ps, tree)),
           Len(ps) = 2 => TakesBothSides(commits, ps[1], ps[2], tree)
    PROVE  /\ Closed(commits)' /\ Keeps(commits', commits)
           /\ MergeKeepsBothSides'
<1>1. /\ Closed(commits') /\ Keeps(commits', commits)
      /\ Len(commits') = Len(commits) + 1
      /\ commits'[Len(commits')].parents = ps /\ commits'[Len(commits')].tree = tree
  BY AppendClosed DEF HistoryTypeOK, CommitIds
<1>2. Len(commits) \in Nat
  BY DEF HistoryTypeOK
<1>3. ASSUME NEW c \in CommitIds, Len(commits'[c].parents) = 2
      PROVE  TakesBothSides(commits', commits'[c].parents[1], commits'[c].parents[2],
                            commits'[c].tree)
  <2>1. commits'[c] = commits[c]
    BY <1>1 DEF Keeps, CommitIds
  <2>2. commits[c].parents[1] \in CommitIds /\ commits[c].parents[2] \in CommitIds
    <3>1. 1 \in DOMAIN commits[c].parents /\ 2 \in DOMAIN commits[c].parents
      BY <1>3, <2>1, ParentsType
    <3>. QED
      BY <3>1 DEF Closed, CommitIds
  <2>3. TakesBothSides(commits, commits[c].parents[1], commits[c].parents[2],
                       commits[c].tree)
    BY <1>3, <2>1 DEF MergeKeepsBothSides
  <2>. QED
    BY <1>1, <2>1, <2>2, <2>3, MergeOfOldCommits DEF CommitIds
<1>4. ASSUME Len(ps) = 2
      PROVE  TakesBothSides(commits', ps[1], ps[2], tree)
  <2>1. ps[1] \in CommitIds /\ ps[2] \in CommitIds
    <3>1. 1 \in DOMAIN ps /\ 2 \in DOMAIN ps
      BY <1>4
    <3>. QED
      BY <3>1
  <2>. QED
    BY <1>1, <1>4, <2>1, MergeOfOldCommits DEF CommitIds
<1>5. \A c \in CommitIds' : c \in CommitIds \/ c = Len(commits')
  BY <1>1, <1>2 DEF CommitIds
<1>. QED
  BY <1>1, <1>3, <1>4, <1>5 DEF MergeKeepsBothSides

\* The commits of a step of the repository: as they were, or one more.
LEMMA GrowKeepsMerges ==
    ASSUME CommitsInv, Closed(commits), MergeKeepsBothSides,
           NEW others \in {<<>>} \cup {<<c>> : c \in CommitIds},
           NEW tree \in Tree, Grow(others, tree),
           \A t \in CommitIds : others = <<t>>
               => TakesBothSides(commits, HeadCommit, t, tree)
    PROVE  /\ Closed(commits)' /\ Keeps(commits', commits)
           /\ MergeKeepsBothSides'
<1> DEFINE ps == <<HeadCommit>> \o others
<1>1. HistoryTypeOK /\ HeadCommit \in CommitIds
  BY HeadCommitType DEF CommitsInv, Grow
<1>2. ps \in Seq(CommitIds)
  BY <1>1, FirstOfParents
<1>3. Len(ps) = 2 => TakesBothSides(commits, ps[1], ps[2], tree)
  <2>1. CASE others = <<>>
    <3>1. Len(ps) = 1
      BY <2>1
    <3>. QED
      BY <3>1
  <2>2. ASSUME NEW t \in CommitIds, others = <<t>>
        PROVE  TakesBothSides(commits, ps[1], ps[2], tree)
    <3>1. ps[1] = HeadCommit /\ ps[2] = t
      BY <2>2
    <3>. QED
      BY <2>2, <3>1
  <2>. QED
    BY <2>1, <2>2
<1>4. commits' = Append(commits, NewCommit(commits, ps, tree))
  BY DEF Grow
<1>. QED
  <2> HIDE DEF ps
  <2>. QED
    BY <1>1, <1>2, <1>3, <1>4, AppendKeepsMerges

-----------------------------------------------------------------------------
\* A merge commit whose tree follows a merge index of HEAD's commit and theirs.
LEMMA MergeCommitKeepsMerges ==
    ASSUME CommitsInv, MergeInv, NEW theirs \in CommitIds,
           NEW idx \in MergeIndexes(commits, HeadCommit, theirs),
           NEW tree \in Tree, Follows(tree, idx),
           CreateMergeCommit(HeadCommit, theirs, tree)
    PROVE  Closed(commits)' /\ Keeps(commits', commits) /\ MergeKeepsBothSides'
<1>1. Grow(<<theirs>>, tree)
  BY DEF CreateMergeCommit
<1>2. HeadCommit \in CommitIds /\ \A c \in CommitIds : commits[c].tree \in Tree
  BY <1>1, HeadCommitType, TreesOfCommits DEF Grow, CommitsInv
<1>3. TakesBothSides(commits, HeadCommit, theirs, tree)
  BY <1>2, FollowingTakesBothSides
<1>4. \A t \in CommitIds : <<theirs>> = <<t>> => t = theirs
  OBVIOUS
<1>. QED
  BY <1>1, <1>3, <1>4, GrowKeepsMerges DEF MergeInv

\* A step keeps the pending merges it does not start.
LEMMA PendingMergesKeep ==
    ASSUME TypeOK, Closed(commits), PendingInv, Keeps(commits', commits),
           \A t \in Threads : merging'[t] = merging[t] \/ merging'[t] = NoMerge
    PROVE  PendingInv'
<1>. SUFFICES ASSUME NEW t \in Threads, merging'[t] # NoMerge
              PROVE  merging'[t].index
                       \in MergeIndexes(commits', merging'[t].ours, merging'[t].theirs)
  BY DEF PendingInv, MergeIndexes
<1>1. merging'[t] = merging[t] /\ merging[t] \in PendingMerge
  BY DEF TypeOK
<1>2. merging[t].ours \in 1..Len(commits) /\ merging[t].theirs \in 1..Len(commits)
  BY <1>1 DEF PendingMerge, CommitIds
<1>3. merging[t].index \in MergeIndexes(commits, merging[t].ours, merging[t].theirs)
  BY <1>1 DEF PendingInv
<1>4. MergeIndexes(commits', merging[t].ours, merging[t].theirs)
         = MergeIndexes(commits, merging[t].ours, merging[t].theirs)
  BY <1>2, MergeOfOldCommits
<1>. QED
  BY <1>1, <1>3, <1>4

\* What is known of the commits alone holds while they stay.
LEMMA SameCommits ==
    ASSUME MergeInv, UNCHANGED commits
    PROVE  Closed(commits)' /\ MergeKeepsBothSides'
<1>1. MergeKeepsBothSides'
  BY DEF MergeInv, MergeKeepsBothSides, CommitIds
<1>. QED
  BY <1>1 DEF MergeInv, Closed

\* The steps that create no commit and start no merge.
LEMMA SameCommitsKeepMerges ==
    ASSUME TypeOK, MergeInv, UNCHANGED commits,
           \A t \in Threads : merging'[t] = merging[t] \/ merging'[t] = NoMerge
    PROVE  MergeInv'
<1>1. Closed(commits)' /\ MergeKeepsBothSides'
  BY SameCommits
<1>2. Keeps(commits', commits)
  BY DEF Keeps
<1>. QED
  BY <1>1, <1>2, PendingMergesKeep DEF MergeInv

\* The argument of MergesKeepBothSides, action by action.
LEMMA MergeStep ==
    ASSUME TypeOK, CommitsInv, MergeInv, Next
    PROVE  MergeInv'
<1>1. /\ HistoryTypeOK
      /\ HeadCommit \in CommitIds \cup {NoCommit}
      /\ \A c \in CommitIds : c # NoCommit /\ commits[c].tree \in Tree
  BY HeadCommitType, TreesOfCommits DEF TypeOK, CommitIds, NoCommit
<1>2. CASE Commit
  <2>1. vtree \in Tree /\ UNCHANGED merging
    BY <1>2 DEF Commit, TypeOK
  <2>2. CASE FirstCommit(vtree)
    <3>1. /\ <<>> \in Seq(CommitIds) /\ Len(<<>>) # 2
          /\ commits' = Append(commits, NewCommit(commits, <<>>, vtree))
      BY <2>2 DEF FirstCommit
    <3>2. Closed(commits)' /\ Keeps(commits', commits) /\ MergeKeepsBothSides'
      BY <1>1, <2>1, <3>1, AppendKeepsMerges DEF MergeInv
    <3>. QED
      BY <2>1, <3>2, PendingMergesKeep DEF MergeInv
  <2>3. CASE Grow(<<>>, vtree)
    <3>1. \A t \in CommitIds : <<>> # <<t>>
      OBVIOUS
    <3>2. Closed(commits)' /\ Keeps(commits', commits) /\ MergeKeepsBothSides'
      BY <2>1, <2>3, <3>1, GrowKeepsMerges DEF MergeInv
    <3>. QED
      BY <2>1, <3>2, PendingMergesKeep DEF MergeInv
  <2>. QED
    BY <1>2, <2>2, <2>3 DEF Commit
<1>3. ASSUME NEW c \in CommitIds, MergeClean(c)
      PROVE  MergeInv'
  <2>1. PICK idx \in MergeIndexes(commits, HeadCommit, c) :
           Conflicted(idx) = {} /\ CreateMergeCommit(HeadCommit, c, idx)
    BY <1>3 DEF MergeClean
  <2>2. idx \in Tree
    BY <2>1, CleanIndexIsTree DEF MergeIndexes
  <2>3. Closed(commits)' /\ Keeps(commits', commits) /\ MergeKeepsBothSides'
    BY <2>1, <2>2, MergeCommitKeepsMerges DEF Follows
  <2>. QED
    BY <1>3, <2>3, PendingMergesKeep DEF MergeClean, MergeInv
<1>4. ASSUME NEW c \in CommitIds, MergeFavor(c)
      PROVE  MergeInv'
  <2>1. PICK idx \in MergeIndexes(commits, HeadCommit, c), side \in {HeadCommit, c} :
           CreateMergeCommit(HeadCommit, c, TakeSide(idx, commits[side].tree))
    BY <1>4 DEF MergeFavor
  <2>2. side \in CommitIds
    BY <1>1, <1>4, <2>1 DEF MergeFavor, HasDiverged
  <2>3. TakeSide(idx, commits[side].tree) \in Tree
    BY <1>1, <2>1, <2>2, TakeSideIsTree DEF MergeIndexes
  <2>4. Follows(TakeSide(idx, commits[side].tree), idx)
    BY DEF Follows, TakeSide, Conflicted
  <2>5. Closed(commits)' /\ Keeps(commits', commits) /\ MergeKeepsBothSides'
    BY <2>1, <2>3, <2>4, MergeCommitKeepsMerges
  <2>. QED
    BY <1>4, <2>5, PendingMergesKeep DEF MergeFavor, MergeInv
<1>5. ASSUME NEW thread \in Threads, MergeResolved(thread)
      PROVE  MergeInv'
  <2>. DEFINE m == merging[thread]
  <2>1. m.theirs \in CommitIds /\ m.index \in MergeIndex
    BY <1>5 DEF MergeResolved, TypeOK, PendingMerge
  <2>2. PICK chosen \in [Conflicted(m.index) -> Blobs] :
           CreateMergeCommit(m.ours, m.theirs,
               [p \in Paths |-> IF p \in DOMAIN chosen THEN chosen[p] ELSE m.index[p]])
    BY <1>5 DEF MergeResolved
  <2>. DEFINE tree ==
           [p \in Paths |-> IF p \in DOMAIN chosen THEN chosen[p] ELSE m.index[p]]
  <2>3. tree \in Tree
    BY <2>1, ResolvedIndexIsTree
  <2>4. Follows(tree, m.index)
    BY DEF Follows
  <2>5. m.ours = HeadCommit /\ m.index \in MergeIndexes(commits, HeadCommit, m.theirs)
    BY <1>5, <2>2 DEF CreateMergeCommit, MergeInv, PendingInv, MergeResolved
  <2>6. CreateMergeCommit(HeadCommit, m.theirs, tree)
    BY <2>2, <2>5
  <2>7. Closed(commits)' /\ Keeps(commits', commits) /\ MergeKeepsBothSides'
    <3>. HIDE DEF tree, m
    <3>. QED
      BY <2>1, <2>3, <2>4, <2>5, <2>6, MergeCommitKeepsMerges
  <2>. QED
    BY <1>5, <2>7, PendingMergesKeep DEF MergeResolved, MergeInv, TypeOK
<1>6. ASSUME NEW c \in CommitIds, NEW thread \in Threads, MergeAsk(thread, c)
      PROVE  MergeInv'
  <2>1. PICK idx \in MergeIndexes(commits, HeadCommit, c) :
           merging' = [merging EXCEPT ![thread] =
                [ours |-> HeadCommit, theirs |-> c, index |-> idx,
                 inMemory |-> inMemory, onto |-> head.branch]]
    BY <1>6 DEF MergeAsk
  <2>2. UNCHANGED commits
    BY <1>6 DEF MergeAsk, historyVars
  <2>3. \A t \in Threads : merging'[t] # NoMerge =>
           merging'[t].index \in MergeIndexes(commits, merging'[t].ours, merging'[t].theirs)
    <3>1. ASSUME NEW t \in Threads, t # thread
          PROVE  merging'[t] = merging[t]
      BY <2>1, <3>1 DEF TypeOK
    <3>2. /\ merging'[thread].ours = HeadCommit /\ merging'[thread].theirs = c
          /\ merging'[thread].index = idx
      BY <2>1 DEF TypeOK
    <3>. QED
      BY <3>1, <3>2 DEF MergeInv, PendingInv
  <2>5. PendingInv'
    BY <2>2, <2>3, Zenon DEF PendingInv
  <2>4. Closed(commits)' /\ MergeKeepsBothSides'
    BY <2>2, SameCommits
  <2>. QED
    BY <2>4, <2>5 DEF MergeInv
<1>7. ASSUME NEW thread \in Threads, MergeEnds(thread)
      PROVE  MergeInv'
  BY <1>7, SameCommitsKeepMerges DEF MergeEnds, TypeOK, historyVars
<1>8. ASSUME UNCHANGED <<commits, merging>>
      PROVE  MergeInv'
  BY <1>8, SameCommitsKeepMerges
<1>9. \/ Commit
      \/ \E c \in CommitIds : MergeClean(c) \/ MergeFavor(c)
      \/ \E c \in CommitIds, thread \in Threads : MergeAsk(thread, c)
      \/ \E thread \in Threads : MergeResolved(thread) \/ MergeEnds(thread)
      \/ UNCHANGED <<commits, merging>>
  BY DEF Next, DeleteFile, WriteFile, historyVars, DeleteBranch, DropBranch,
         CreateBranch, AddBranch, DeleteTag, DropTag, CreateTag, AddTag, CheckoutName,
         CheckoutCommit, SwitchHead, CheckoutCancelled, MergeFastForward, FastForward,
         MergeFastForwardCancelled, AddRemote, MigrateToDisk
<1>. QED
  BY <1>2, <1>3, <1>4, <1>5, <1>6, <1>7, <1>8, <1>9

\* No merge loses a change: a file that one side changed and the other did not
\* is in the merge commit as the first side left it, although other threads
\* write, check out, commit and merge while the resolver runs.
THEOREM MergesKeepBothSides == Spec => []MergeKeepsBothSides
<1>1. Init => MergeInv
  BY DEF Init, HistoryInit, MergeInv, Closed, PendingInv, MergeKeepsBothSides, CommitIds
<1>2. TypeOK /\ CommitsInv /\ MergeInv /\ [Next]_vars => MergeInv'
  <2>. SUFFICES ASSUME TypeOK, CommitsInv, MergeInv, [Next]_vars
                PROVE  MergeInv'
    OBVIOUS
  <2>1. CASE Next
    BY <2>1, MergeStep
  <2>2. CASE UNCHANGED vars
    BY <2>2, SameCommitsKeepMerges DEF vars
  <2>. QED
    BY <2>1, <2>2
<1>3. MergeInv => MergeKeepsBothSides
  BY DEF MergeInv
<1>. QED
  BY <1>1, <1>2, <1>3, RepositoryType, PTL DEF Spec
=============================================================================
