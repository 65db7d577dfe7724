-------------------------- MODULE GitHistoryProofs --------------------------
(***************************************************************************)
(* Proofs about GitHistory: its inductive invariant, and that branch tips  *)
(* only move forward.                                                      *)
(***************************************************************************)
EXTENDS GitHistory, CommitGraphProofs

\* What holds of the commits even where HEAD leads nowhere: references lead to
\* commits that exist, and a commit reaches itself.
CommitsInv ==
    /\ HistoryTypeOK
    /\ \A c \in CommitIds : Reaches(commits, c, c)

\* HEAD leads to a commit or to none.
LEMMA HeadCommitType ==
    ASSUME HistoryTypeOK
    PROVE  HeadCommit \in CommitIds \cup {NoCommit}
BY DEF HistoryTypeOK, HeadCommit

\* MoveHead is where commits and merges put their result: HEAD leads to c, and
\* a branch has c or what it had.
LEMMA MoveHeadMoves ==
    ASSUME HistoryTypeOK, HistoryTypeOK',
           NEW c, c \in CommitIds', MoveHead(c)
    PROVE  /\ HeadCommit' = c
           /\ \A n \in Branches : branch'[n] = branch[n]
                                  \/ (branch'[n] = c /\ branch[n] = HeadCommit)
BY RefAssumption DEF HistoryTypeOK, MoveHead, HeadCommit, DetachedAt, NoCommit

\* A step that appends a commit: what the two lemmas above give together.
LEMMA GrowStep ==
    ASSUME CommitsInv,
           NEW others \in {<<>>} \cup {<<c>> : c \in CommitIds},
           NEW tree \in Tree, Grow(others, tree)
    PROVE  /\ HistoryTypeOK'
           /\ Len(commits') = Len(commits) + 1
           /\ \A c \in CommitIds : c \in CommitIds' /\ commits'[c] = commits[c]
           /\ HeadCommit' = Len(commits')
           /\ commits'[HeadCommit'].tree = tree
           /\ Reaches(commits', HeadCommit', HeadCommit')
           /\ Reaches(commits', HeadCommit', HeadCommit)
           /\ \A n \in Branches : branch'[n] = branch[n]
                \/ (branch'[n] = HeadCommit' /\ branch[n] = HeadCommit)
<1> DEFINE ps == <<HeadCommit>> \o others
<1>1. /\ HistoryTypeOK
      /\ commits \in Seq(CommitRecord) /\ Len(commits) \in Nat
      /\ HeadCommit \in CommitIds
  BY HeadCommitType DEF CommitsInv, HistoryTypeOK, Grow
<1>2. ps \in Seq(1..Len(commits)) /\ 1 \in DOMAIN ps /\ ps[1] = HeadCommit
  BY <1>1, FirstOfParents DEF CommitIds
<1>3. commits' = Append(commits, NewCommit(commits, ps, tree))
  BY DEF Grow
<1>4. /\ commits' \in Seq(CommitRecord)
      /\ Len(commits') = Len(commits) + 1
      /\ \A c \in 1..Len(commits) : c \in 1..Len(commits') /\ commits'[c] = commits[c]
      /\ commits'[Len(commits) + 1].tree = tree
      /\ Reaches(commits', Len(commits) + 1, Len(commits) + 1)
      /\ commits[ps[1]].reach \subseteq commits'[Len(commits) + 1].reach
  <2> HIDE DEF ps
  <2>1. Extends(commits', commits, ps, tree)
    BY <1>1, <1>2, <1>3, AppendCommit
  <2>. QED
    BY <1>2, <2>1 DEF Extends
<1>5. Len(commits) + 1 \in CommitIds' /\ CommitIds \subseteq CommitIds'
  BY <1>1, <1>4 DEF CommitIds
<1>6. HistoryTypeOK'
  BY <1>1, <1>4, <1>5 DEF HistoryTypeOK, Grow, MoveHead, DetachedAt
<1>7. Reaches(commits', Len(commits) + 1, HeadCommit)
  BY <1>1, <1>2, <1>4 DEF CommitsInv, Reaches
<1>8. /\ HeadCommit' = Len(commits) + 1
      /\ \A n \in Branches : branch'[n] = branch[n]
            \/ (branch'[n] = Len(commits) + 1 /\ branch[n] = HeadCommit)
  BY <1>1, <1>5, <1>6, MoveHeadMoves DEF Grow
<1>. QED
  BY <1>4, <1>5, <1>6, <1>7, <1>8 DEF CommitIds

\* The first commit of the repository, on Main.
LEMMA FirstCommitStep ==
    ASSUME CommitsInv, NEW tree \in Tree, FirstCommit(tree)
    PROVE  /\ HistoryTypeOK'
           /\ Len(commits') = Len(commits) + 1
           /\ \A c \in CommitIds : c \in CommitIds' /\ commits'[c] = commits[c]
           /\ HeadCommit' = Len(commits')
           /\ commits'[HeadCommit'].tree = tree
           /\ Reaches(commits', HeadCommit', HeadCommit')
           /\ \A n \in Branches : branch'[n] = branch[n] \/ branch[n] = NoCommit
<1>1. /\ HistoryTypeOK
      /\ commits \in Seq(CommitRecord) /\ Len(commits) \in Nat
  BY DEF CommitsInv, HistoryTypeOK
<1>2. /\ commits' \in Seq(CommitRecord)
      /\ Len(commits') = Len(commits) + 1
      /\ \A c \in 1..Len(commits) : c \in 1..Len(commits') /\ commits'[c] = commits[c]
      /\ commits'[Len(commits) + 1].tree = tree
      /\ Reaches(commits', Len(commits) + 1, Len(commits) + 1)
  <2>1. <<>> \in Seq(1..Len(commits))
    OBVIOUS
  <2>2. commits' = Append(commits, NewCommit(commits, <<>>, tree))
    BY DEF FirstCommit
  <2>3. Extends(commits', commits, <<>>, tree)
    BY <1>1, <2>1, <2>2, AppendCommit
  <2>. QED
    BY <2>3 DEF Extends
<1>3. Len(commits) + 1 \in CommitIds' /\ CommitIds \subseteq CommitIds'
  BY <1>1, <1>2 DEF CommitIds
<1>4. HistoryTypeOK'
  <2>1. head' \in [branch : Branches \cup {NoBranch}, commit : CommitIds' \cup {NoCommit}]
    BY RefAssumption DEF FirstCommit, SymbolicTo
  <2>2. branch' \in [Branches -> CommitIds' \cup {NoCommit}]
    BY <1>1, <1>3 DEF FirstCommit, HistoryTypeOK
  <2>3. tag' \in [TagNames -> CommitIds' \cup {NoCommit}]
    BY <1>1, <1>3 DEF FirstCommit, HistoryTypeOK
  <2>. QED
    BY <1>2, <2>1, <2>2, <2>3 DEF HistoryTypeOK
<1>5. HeadCommit' = Len(commits) + 1
  BY <1>1, RefAssumption DEF HeadCommit, FirstCommit, SymbolicTo, HistoryTypeOK
<1>. QED
  BY <1>1, <1>2, <1>3, <1>4, <1>5 DEF CommitIds, FirstCommit, HistoryTypeOK

-----------------------------------------------------------------------------
\* The steps that create no commit.  All the commits and their ancestry stay,
\* so the invariant is about the references alone.
LEMMA RefStep ==
    ASSUME CommitsInv, HistoryTypeOK', UNCHANGED commits,
           \A n \in Branches : branch[n] # NoCommit /\ branch'[n] # NoCommit
               => \/ branch'[n] = branch[n]
                  \/ Reaches(commits, branch'[n], branch[n])
    PROVE  CommitsInv' /\ KeepsHistory
<1>1. CommitIds' = CommitIds
  BY DEF CommitIds
<1>2. CommitsInv'
  BY <1>1 DEF CommitsInv, Reaches
<1>3. \A n \in Branches : branch[n] # NoCommit => Reaches(commits, branch[n], branch[n])
  BY DEF CommitsInv, HistoryTypeOK
<1>4. KeepsHistory
  BY <1>1, <1>3 DEF KeepsHistory, Reaches
<1>. QED
  BY <1>2, <1>4

\* The steps that create a commit, which HEAD then designates.
LEMMA CommitStep ==
    ASSUME CommitsInv, HistoryTypeOK',
           Len(commits') = Len(commits) + 1,
           \A c \in CommitIds : c \in CommitIds' /\ commits'[c] = commits[c],
           HeadCommit' = Len(commits'),
           Reaches(commits', HeadCommit', HeadCommit'),
           \A n \in Branches : branch[n] # NoCommit =>
               \/ branch'[n] = branch[n]
               \/ /\ branch'[n] = HeadCommit'
                  /\ Reaches(commits', HeadCommit', branch[n])
    PROVE  CommitsInv' /\ HistoryInv' /\ KeepsHistory
<1>1. /\ Len(commits) \in Nat /\ Len(commits') \in Nat
      /\ \A n \in Branches : branch[n] \in CommitIds \cup {NoCommit}
      /\ \A c \in CommitIds : Reaches(commits, c, c)
  BY DEF CommitsInv, HistoryTypeOK
<1>2. \A c \in CommitIds' : c \in CommitIds \/ c = HeadCommit'
  BY <1>1 DEF CommitIds
<1>3. \A c \in CommitIds : Reaches(commits', c, c)
  BY <1>1 DEF Reaches
<1>4. \A c \in CommitIds' : Reaches(commits', c, c)
  BY <1>2, <1>3
<1>5. HeadAlwaysResolves'
  BY <1>1 DEF HeadAlwaysResolves, NoCommit
<1>6. (\A c \in CommitIds : Reaches(commits, c, c))'
  BY <1>4 DEF Reaches
<1>7. KeepsHistory
  BY <1>1, <1>3 DEF KeepsHistory
<1>. QED
  BY <1>5, <1>6, <1>7 DEF HistoryInv, CommitsInv

\* No step loses history, wherever HEAD leads.
LEMMA CommitsStep ==
    ASSUME CommitsInv, [HistoryNext]_historyVars
    PROVE  CommitsInv' /\ KeepsHistory
<1>. USE RefAssumption
<1>1. /\ HistoryTypeOK
      /\ \A c \in CommitIds : c # NoCommit
      /\ HeadCommit \in CommitIds \cup {NoCommit}
  BY HeadCommitType DEF CommitsInv, CommitIds, NoCommit
<1>2. ASSUME NEW tree \in Tree, FirstCommit(tree)
      PROVE  CommitsInv' /\ KeepsHistory
  <2>1. /\ HistoryTypeOK'
        /\ \A c \in CommitIds : c \in CommitIds' /\ commits'[c] = commits[c]
        /\ HeadCommit' = Len(commits')
        /\ Reaches(commits', HeadCommit', HeadCommit')
        /\ Len(commits') = Len(commits) + 1
        /\ \A n \in Branches : branch'[n] = branch[n] \/ branch[n] = NoCommit
    BY <1>2, FirstCommitStep
  <2>. QED
    BY <2>1, CommitStep
<1>3. ASSUME NEW others \in {<<>>} \cup {<<c>> : c \in CommitIds},
             NEW tree \in Tree, Grow(others, tree)
      PROVE  CommitsInv' /\ KeepsHistory
  <2>1. /\ HistoryTypeOK'
        /\ \A c \in CommitIds : c \in CommitIds' /\ commits'[c] = commits[c]
        /\ HeadCommit' = Len(commits')
        /\ Reaches(commits', HeadCommit', HeadCommit')
        /\ Reaches(commits', HeadCommit', HeadCommit)
        /\ Len(commits') = Len(commits) + 1
        /\ \A n \in Branches : branch'[n] = branch[n]
              \/ (branch'[n] = HeadCommit' /\ branch[n] = HeadCommit)
    BY <1>3, GrowStep
  <2>. QED
    BY <2>1, CommitStep
<1>4. ASSUME NEW c \in CommitIds, FastForward(c)
      PROVE  CommitsInv' /\ KeepsHistory
  <2>1. HistoryTypeOK' /\ CommitIds' = CommitIds /\ UNCHANGED commits
    BY <1>1, <1>4 DEF HistoryTypeOK, FastForward, MoveHead, DetachedAt, CommitIds
  <2>2. \A n \in Branches : branch'[n] = branch[n]
              \/ (branch'[n] = c /\ branch[n] = HeadCommit)
    BY <1>1, <1>4, <2>1, MoveHeadMoves DEF FastForward
  <2>3. Reaches(commits, c, HeadCommit)
    BY <1>4 DEF FastForward
  <2>. QED
    BY <2>1, <2>2, <2>3, RefStep
<1>5. ASSUME NEW h, SwitchHead(h),
             \/ \E c \in CommitIds : h = DetachedAt(c)
             \/ \E n \in Branches : h = SymbolicTo(n)
      PROVE  CommitsInv' /\ KeepsHistory
  <2>1. HistoryTypeOK'
    BY <1>1, <1>5 DEF HistoryTypeOK, SwitchHead, DetachedAt, SymbolicTo, CommitIds
  <2>. QED
    BY <1>5, <2>1, RefStep DEF SwitchHead
<1>6. ASSUME NEW n \in Branches,
             DropBranch(n) \/ \E c \in CommitIds : AddBranch(n, c)
      PROVE  CommitsInv' /\ KeepsHistory
  <2>1. HistoryTypeOK' /\ UNCHANGED commits
    BY <1>1, <1>6 DEF HistoryTypeOK, DropBranch, AddBranch, CommitIds
  <2>2. \A m \in Branches : branch[m] # NoCommit /\ branch'[m] # NoCommit
                             => branch'[m] = branch[m]
    BY <1>1, <1>6 DEF HistoryTypeOK, DropBranch, AddBranch
  <2>. QED
    BY <2>1, <2>2, RefStep
<1>7. ASSUME NEW n \in TagNames,
             DropTag(n) \/ \E c \in CommitIds : AddTag(n, c)
      PROVE  CommitsInv' /\ KeepsHistory
  <2>1. HistoryTypeOK' /\ UNCHANGED <<commits, branch>>
    BY <1>1, <1>7 DEF HistoryTypeOK, DropTag, AddTag, CommitIds
  <2>. QED
    BY <2>1, RefStep
<1>8. CASE UNCHANGED historyVars
  <2>1. HistoryTypeOK' /\ UNCHANGED <<commits, branch>>
    BY <1>1, <1>8 DEF historyVars, HistoryTypeOK, CommitIds
  <2>. QED
    BY <2>1, RefStep
<1>. QED
  BY <1>2, <1>3, <1>4, <1>5, <1>6, <1>7, <1>8 DEF HistoryNext

\* HEAD does not come to lead nowhere.
LEMMA HeadStep ==
    ASSUME HistoryInv, [HistoryNext]_historyVars
    PROVE  HeadAlwaysResolves'
<1>. USE RefAssumption
<1>1. /\ HistoryTypeOK /\ CommitsInv
      /\ commits # <<>> => HeadCommit # NoCommit
      /\ \A c \in CommitIds : c # NoCommit
  BY DEF HistoryInv, CommitsInv, HeadAlwaysResolves, CommitIds, NoCommit
<1>2. ASSUME HeadCommit' = Len(commits'), Len(commits') = Len(commits) + 1
      PROVE  HeadAlwaysResolves'
  BY <1>1, <1>2 DEF HeadAlwaysResolves, HistoryTypeOK, NoCommit
<1>3. ASSUME NEW tree \in Tree, FirstCommit(tree)
      PROVE  HeadAlwaysResolves'
  BY <1>1, <1>2, <1>3, FirstCommitStep
<1>4. ASSUME NEW others \in {<<>>} \cup {<<c>> : c \in CommitIds},
             NEW tree \in Tree, Grow(others, tree)
      PROVE  HeadAlwaysResolves'
  BY <1>1, <1>2, <1>4, GrowStep
<1>5. ASSUME NEW c \in CommitIds, FastForward(c)
      PROVE  HeadAlwaysResolves'
  BY <1>1, <1>5 DEF HistoryTypeOK, FastForward, MoveHead, DetachedAt, HeadCommit,
                    HeadAlwaysResolves
<1>6. ASSUME NEW h, SwitchHead(h),
             \/ \E c \in CommitIds : h = DetachedAt(c)
             \/ \E n \in Branches : branch[n] # NoCommit /\ h = SymbolicTo(n)
             \/ head = NoHead /\ h = SymbolicTo(DefaultBranch)
      PROVE  HeadAlwaysResolves'
  <2>1. head = NoHead => commits = <<>>
    BY <1>1 DEF NoHead, DetachedAt, HeadCommit
  <2>. QED
    BY <1>1, <1>6, <2>1
    DEF SwitchHead, DetachedAt, SymbolicTo, HeadCommit, HeadAlwaysResolves
<1>7. ASSUME UNCHANGED commits, HeadCommit' = HeadCommit
      PROVE  HeadAlwaysResolves'
  BY <1>1, <1>7 DEF HeadAlwaysResolves
<1>8. ASSUME NEW n \in Branches,
             \/ DropBranch(n)
             \/ \E c \in CommitIds : HeadCommit # NoCommit /\ AddBranch(n, c)
      PROVE  HeadAlwaysResolves'
  <2>1. UNCHANGED commits /\ HeadCommit' = HeadCommit
    BY <1>1, <1>8 DEF HistoryTypeOK, DropBranch, AddBranch, HeadCommit
  <2>. QED
    BY <1>7, <2>1
<1>9. ASSUME NEW n \in TagNames,
             DropTag(n) \/ \E c \in CommitIds : AddTag(n, c)
      PROVE  HeadAlwaysResolves'
  BY <1>7, <1>9 DEF DropTag, AddTag, HeadCommit
<1>10. CASE UNCHANGED historyVars
  BY <1>7, <1>10 DEF historyVars, HeadCommit
<1>. QED
  BY <1>3, <1>4, <1>5, <1>6, <1>8, <1>9, <1>10 DEF HistoryNext

\* HistoryInv is inductive, and no step loses history.
LEMMA HistoryStep ==
    ASSUME HistoryInv, [HistoryNext]_historyVars
    PROVE  HistoryInv' /\ KeepsHistory
BY CommitsStep, HeadStep DEF HistoryInv, CommitsInv

\* A repository without commits satisfies the invariant.
LEMMA HistoryInitInv == HistoryInit => HistoryInv
BY RefAssumption DEF HistoryInit, HistoryInv, HistoryTypeOK, HeadAlwaysResolves,
                     CommitIds, NoHead, DetachedAt

\* The references of a repository lead to commits it has, HEAD among them.
THEOREM HistoryInvariant == HistorySpec => []HistoryInv
<1>1. HistoryInit => HistoryInv
  BY HistoryInitInv
<1>2. HistoryInv /\ [HistoryNext]_historyVars => HistoryInv'
  BY HistoryStep
<1>. QED
  BY <1>1, <1>2, PTL DEF HistorySpec

\* Every implementation of GitHistory keeps the commits its branches had.
THEOREM HistoryKept == HistorySpec => TipsMoveForward
<1>1. HistoryInv /\ [HistoryNext]_historyVars => [KeepsHistory]_historyVars
  BY HistoryStep
<1>. QED
  BY <1>1, HistoryInvariant, PTL DEF HistorySpec, TipsMoveForward

\* Every implementation of GitHistory has a HEAD that leads to a commit.
THEOREM HistoryHeadResolves == HistorySpec => []HeadAlwaysResolves
BY HistoryInvariant, PTL DEF HistoryInv

-----------------------------------------------------------------------------
\* The commits form a graph without cycles: a commit reaches what its parents
\* reach and nothing younger than itself.
GraphInv == Ancestry(commits) /\ Earlier(commits)

\* merge() fast-forwards when HEAD's commit is an ancestor of the other: the
\* three-way merge of the two would have given the same tree, no conflict in it.
FastForwardsAreMerges ==
    \A o, t \in CommitIds :
        Reaches(commits, t, o) => MergeIndexes(commits, o, t) = {commits[t].tree}

LEMMA GraphStep ==
    ASSUME CommitsInv, GraphInv, [HistoryNext]_historyVars
    PROVE  GraphInv'
<1>1. commits \in Seq(CommitRecord) /\ HeadCommit \in CommitIds \cup {NoCommit}
  BY HeadCommitType DEF CommitsInv, HistoryTypeOK
<1>2. ASSUME NEW ps \in Seq(CommitIds), NEW tree \in Tree,
             commits' = Append(commits, NewCommit(commits, ps, tree))
      PROVE  GraphInv'
  BY <1>1, <1>2, AppendAncestry, AppendEarlier DEF GraphInv, CommitIds
<1>3. ASSUME NEW tree \in Tree, FirstCommit(tree)
      PROVE  GraphInv'
  <2>1. <<>> \in Seq(CommitIds)
    OBVIOUS
  <2>. QED
    BY <1>2, <1>3, <2>1 DEF FirstCommit
<1>4. ASSUME NEW others \in {<<>>} \cup {<<c>> : c \in CommitIds},
             NEW tree \in Tree, Grow(others, tree)
      PROVE  GraphInv'
  <2>1. <<HeadCommit>> \o others \in Seq(CommitIds)
    BY <1>1, <1>4, FirstOfParents DEF Grow
  <2>. QED
    BY <1>2, <1>4, <2>1 DEF Grow
<1>5. ASSUME UNCHANGED commits
      PROVE  GraphInv'
  BY <1>5 DEF GraphInv, Ancestry, Earlier, Reaches
<1>. QED
  BY <1>3, <1>4, <1>5
  DEF HistoryNext, historyVars, FastForward, SwitchHead, AddBranch, DropBranch, AddTag, DropTag

LEMMA GraphGivesFastForwards ==
    ASSUME CommitsInv, GraphInv
    PROVE  FastForwardsAreMerges
BY EarlierIsAcyclic, FastForwardIsMerge
DEF CommitsInv, HistoryTypeOK, GraphInv, FastForwardsAreMerges, CommitIds

\* Whatever was committed and merged before, a fast-forward gives the tree that
\* the merge it replaces would have given.
THEOREM HistoryFastForwards == HistorySpec => []FastForwardsAreMerges
<1>1. HistoryInit => GraphInv
  BY DEF HistoryInit, GraphInv, Ancestry, Earlier
<1>2. HistoryInv /\ GraphInv /\ [HistoryNext]_historyVars => GraphInv'
  BY GraphStep DEF HistoryInv, CommitsInv
<1>3. HistoryInv /\ GraphInv => FastForwardsAreMerges
  BY GraphGivesFastForwards DEF HistoryInv, CommitsInv
<1>. QED
  BY <1>1, <1>2, <1>3, HistoryInvariant, PTL DEF HistorySpec
=============================================================================
