-------------------------- MODULE CommitGraphProofs --------------------------
(***************************************************************************)
(* Lemmas about CommitGraph: what a new commit adds to the commits, and    *)
(* that settled merge indexes are trees.                                   *)
(***************************************************************************)
EXTENDS CommitGraph, SequenceTheorems, TLAPS

\* What git_commit_create() adds to the commits cs: a commit that reaches itself
\* and all that its parents reach and nothing else, behind commits that stay as
\* they are.
Extends(ds, cs, ps, tree) ==
    /\ ds \in Seq(CommitRecord)
    /\ Len(ds) = Len(cs) + 1
    /\ \A c \in 1..Len(cs) : c \in 1..Len(ds) /\ ds[c] = cs[c]
    /\ ds[Len(cs) + 1].tree = tree
    /\ Reaches(ds, Len(cs) + 1, Len(cs) + 1)
    /\ \A i \in DOMAIN ps : cs[ps[i]].reach \subseteq ds[Len(cs) + 1].reach
    /\ ds[Len(cs) + 1].reach
         = {Len(cs) + 1} \cup UNION {cs[ps[i]].reach : i \in DOMAIN ps}

\* Appending a commit (git_commit_create) extends the commits.
LEMMA AppendCommit ==
    ASSUME NEW cs \in Seq(CommitRecord),
           NEW ps \in Seq(1..Len(cs)),
           NEW tree \in Tree
    PROVE  Extends(Append(cs, NewCommit(cs, ps, tree)), cs, ps, tree)
<1> DEFINE new == NewCommit(cs, ps, tree)
           ds == Append(cs, new)
<1>1. \A i \in DOMAIN ps : ps[i] \in 1..Len(cs) /\ cs[ps[i]].reach \in SUBSET Nat
  <2>. SUFFICES ASSUME NEW i \in DOMAIN ps
                PROVE  ps[i] \in 1..Len(cs) /\ cs[ps[i]].reach \in SUBSET Nat
    OBVIOUS
  <2>1. DOMAIN ps = 1..Len(ps) /\ ps[i] \in 1..Len(cs)
    OBVIOUS
  <2>2. cs[ps[i]] \in CommitRecord
    BY <2>1
  <2>. QED
    BY <2>1, <2>2 DEF CommitRecord
<1>2. new.reach \in SUBSET Nat
  BY <1>1 DEF NewCommit
<1>3. ps \in Seq(Nat)
  OBVIOUS
<1>4. new \in CommitRecord
  BY <1>2, <1>3 DEF NewCommit, CommitRecord
<1>5. /\ ds \in Seq(CommitRecord)
      /\ Len(ds) = Len(cs) + 1
      /\ \A c \in 1..Len(cs) : c \in 1..Len(ds) /\ ds[c] = cs[c]
      /\ ds[Len(cs) + 1] = new
  BY <1>4
<1>6. new.tree = tree /\ Len(cs) + 1 \in new.reach
  BY DEF NewCommit
<1>7. \A i \in DOMAIN ps : cs[ps[i]].reach \subseteq new.reach
  BY DEF NewCommit
<1>8. new.reach = {Len(cs) + 1} \cup UNION {cs[ps[i]].reach : i \in DOMAIN ps}
  BY DEF NewCommit
<1>. QED
  BY <1>5, <1>6, <1>7, <1>8 DEF Reaches, Extends

\* The parents of a commit grown on c begin with c.
LEMMA FirstOfParents ==
    ASSUME NEW S, NEW c \in S, NEW others \in {<<>>} \cup {<<d>> : d \in S}
    PROVE  LET ps == <<c>> \o others
           IN  ps \in Seq(S) /\ 1 \in DOMAIN ps /\ ps[1] = c
<1>1. others \in Seq(S)
  <2>1. \A d \in S : <<d>> \in Seq(S)
    OBVIOUS
  <2>2. <<>> \in Seq(S)
    OBVIOUS
  <2>3. {<<>>} \cup {<<d>> : d \in S} \subseteq Seq(S)
    BY <2>1, <2>2, Zenon
  <2>. QED
    BY <2>3
<1>2. <<c>> \in Seq(S) /\ Len(<<c>>) = 1 /\ <<c>>[1] = c
  OBVIOUS
<1>. QED
  BY <1>1, <1>2, ConcatProperties

\* A settled merge index is a tree, however it was settled.
LEMMA CleanIndexIsTree ==
    ASSUME NEW idx \in MergeIndex, Conflicted(idx) = {}
    PROVE  idx \in Tree
BY DEF MergeIndex, Conflicted, Tree

\* Strategies "ours" and "theirs" leave no conflict in the tree.
LEMMA TakeSideIsTree ==
    ASSUME NEW idx \in MergeIndex, NEW side \in Tree
    PROVE  TakeSide(idx, side) \in Tree
BY DEF MergeIndex, TakeSide, Tree

\* Ancestry as git has it: every commit reaches itself and commits that exist,
\* and with each of them all that it reaches.
Ancestry(cs) ==
    \A c \in 1..Len(cs) :
        /\ Reaches(cs, c, c)
        /\ \A d \in cs[c].reach : d \in 1..Len(cs) /\ cs[d].reach \subseteq cs[c].reach

\* A commit made by git_commit_create() keeps ancestry reflexive and transitive.
LEMMA AppendAncestry ==
    ASSUME NEW cs \in Seq(CommitRecord), Ancestry(cs),
           NEW ps \in Seq(1..Len(cs)), NEW tree \in Tree
    PROVE  Ancestry(Append(cs, NewCommit(cs, ps, tree)))
<1> DEFINE id == Len(cs) + 1
           new == NewCommit(cs, ps, tree)
           ds == Append(cs, new)
<1>1. new.reach = {id} \cup UNION {cs[ps[i]].reach : i \in DOMAIN ps}
  BY DEF NewCommit
<1>2. /\ Len(cs) \in Nat /\ Len(ds) = id
      /\ \A c \in 1..Len(cs) : ds[c] = cs[c]
      /\ ds[id] = new
  <2> HIDE DEF new
  <2>. QED
    OBVIOUS
<1>3. \A i \in DOMAIN ps : ps[i] \in 1..Len(cs)
  OBVIOUS
<1> HIDE DEF ds, new
<1>4. ASSUME NEW c \in 1..Len(cs)
      PROVE  /\ Reaches(ds, c, c)
             /\ \A d \in ds[c].reach : d \in 1..id /\ ds[d].reach \subseteq ds[c].reach
  <2>1. ds[c] = cs[c] /\ c \in cs[c].reach
    BY <1>2 DEF Ancestry, Reaches
  <2>2. \A d \in cs[c].reach : d \in 1..Len(cs) /\ cs[d].reach \subseteq cs[c].reach
    BY DEF Ancestry
  <2>. QED
    BY <1>2, <2>1, <2>2 DEF Reaches
<1>5. ASSUME NEW d \in new.reach
      PROVE  d \in 1..id /\ ds[d].reach \subseteq new.reach
  <2>1. CASE d = id
    BY <1>2, <2>1
  <2>2. CASE d # id
    <3>1. PICK i \in DOMAIN ps : d \in cs[ps[i]].reach
      BY <1>1, <2>2
    <3>2. d \in 1..Len(cs) /\ cs[d].reach \subseteq cs[ps[i]].reach
      BY <1>3, <3>1 DEF Ancestry
    <3>3. cs[ps[i]].reach \subseteq new.reach
      BY <1>1
    <3>4. d \in 1..id /\ ds[d] = cs[d]
      BY <1>2, <3>2
    <3>. QED
      BY <3>2, <3>3, <3>4
  <2>. QED
    BY <2>1, <2>2
<1>6. Reaches(ds, id, id)
  BY <1>1, <1>2 DEF Reaches
<1>7. \A c \in 1..id : c \in 1..Len(cs) \/ c = id
  BY <1>2
<1>8. Ancestry(ds)
  BY <1>2, <1>4, <1>5, <1>6, <1>7 DEF Ancestry
<1>. QED
  BY <1>8 DEF ds, new

-----------------------------------------------------------------------------
\* The three-way merge.

\* No two commits reach each other.
Acyclic(cs) ==
    \A c, d \in 1..Len(cs) : Reaches(cs, c, d) /\ Reaches(cs, d, c) => c = d

\* A commit reaches only commits made before it.
Earlier(cs) == \A c \in 1..Len(cs) : cs[c].reach \subseteq 1..c

LEMMA EarlierIsAcyclic ==
    ASSUME NEW cs \in Seq(CommitRecord), Earlier(cs)
    PROVE  Acyclic(cs)
<1>. SUFFICES ASSUME NEW c \in 1..Len(cs), NEW d \in 1..Len(cs),
                     Reaches(cs, c, d), Reaches(cs, d, c)
              PROVE  c = d
  BY DEF Acyclic
<1>1. d \in 1..c /\ c \in 1..d
  BY DEF Earlier, Reaches
<1>. QED
  BY <1>1

LEMMA AppendEarlier ==
    ASSUME NEW cs \in Seq(CommitRecord), Ancestry(cs), Earlier(cs),
           NEW ps \in Seq(1..Len(cs)), NEW tree \in Tree
    PROVE  Earlier(Append(cs, NewCommit(cs, ps, tree)))
<1> DEFINE ds == Append(cs, NewCommit(cs, ps, tree))
<1>1. Extends(ds, cs, ps, tree)
  BY AppendCommit
<1> HIDE DEF ds
<1>2. /\ Len(cs) \in Nat /\ Len(ds) = Len(cs) + 1
      /\ \A c \in 1..Len(cs) : ds[c] = cs[c]
      /\ ds[Len(cs) + 1].reach
           = {Len(cs) + 1} \cup UNION {cs[ps[i]].reach : i \in DOMAIN ps}
  BY <1>1 DEF Extends
<1>3. \A i \in DOMAIN ps : cs[ps[i]].reach \subseteq 1..(Len(cs) + 1)
  <2>. SUFFICES ASSUME NEW i \in DOMAIN ps, NEW d \in cs[ps[i]].reach
                PROVE  d \in 1..(Len(cs) + 1)
    OBVIOUS
  <2>1. ps[i] \in 1..Len(cs)
    OBVIOUS
  <2>2. d \in 1..Len(cs)
    BY <2>1 DEF Ancestry
  <2>. QED
    BY <1>2, <2>2
<1>4. \A c \in 1..Len(ds) : c \in 1..Len(cs) \/ c = Len(cs) + 1
  BY <1>2
<1>5. Earlier(ds)
  <2>. SUFFICES ASSUME NEW c \in 1..Len(ds), NEW d \in ds[c].reach
                PROVE  d \in 1..c
    BY DEF Earlier
  <2>1. CASE c \in 1..Len(cs)
    BY <1>2, <2>1 DEF Earlier
  <2>2. CASE c = Len(cs) + 1
    BY <1>2, <1>3, <2>2
  <2>. QED
    BY <1>4, <2>1, <2>2
<1>. QED
  BY <1>5 DEF ds

\* A fast-forward is what the merge would have given: merge() may take the tree
\* of a commit that contains HEAD's without looking at either.
THEOREM FastForwardIsMerge ==
    ASSUME NEW cs \in Seq(CommitRecord), Ancestry(cs), Acyclic(cs),
           NEW o \in 1..Len(cs), NEW t \in 1..Len(cs), Reaches(cs, t, o)
    PROVE  MergeIndexes(cs, o, t) = {cs[t].tree}
<1>1. cs[o] \in CommitRecord /\ cs[t] \in CommitRecord
  OBVIOUS
<1>2. cs[o].tree \in Tree /\ cs[t].tree \in Tree
  BY <1>1 DEF CommitRecord
<1>3. MergeBases(cs, o, t) = {o}
  <2>1. o \in cs[o].reach /\ cs[o].reach \subseteq cs[t].reach
    BY DEF Ancestry, Reaches
  <2>2. ASSUME NEW c \in cs[o].reach, Reaches(cs, c, o)
        PROVE  c = o
    <3>1. c \in 1..Len(cs)
      BY DEF Ancestry
    <3>. QED
      BY <2>2, <3>1 DEF Acyclic, Reaches
  <2>3. o \in MergeBases(cs, o, t)
    BY <2>1, <2>2 DEF MergeBases
  <2>4. ASSUME NEW b \in MergeBases(cs, o, t)
        PROVE  b = o
    <3>1. b \in cs[o].reach
      BY DEF MergeBases
    <3>2. b # o => ~Reaches(cs, o, b)
      BY <2>1 DEF MergeBases
    <3>. QED
      BY <3>1, <3>2 DEF Reaches
  <2>. QED
    BY <2>3, <2>4
<1>4. \A p \in Paths : BaseContents(cs, o, t, p) = {cs[o].tree[p]}
  <2>. SUFFICES ASSUME NEW p \in Paths
                PROVE  BaseContents(cs, o, t, p) = {cs[o].tree[p]}
    OBVIOUS
  <2>1. {cs[b].tree[p] : b \in MergeBases(cs, o, t)} = {cs[o].tree[p]}
    BY <1>3
  <2>2. {cs[o].tree[p]} # {} /\ \E v \in {cs[o].tree[p]} : {cs[o].tree[p]} = {v}
    OBVIOUS
  <2>. QED
    BY <2>1, <2>2 DEF BaseContents
<1>5. \A b, y : MergedPath(b, b, y) = y
  BY DEF MergedPath
<1>6. \A idx \in MergeIndex :
        idx \in MergeIndexes(cs, o, t) <=> \A p \in Paths : idx[p] = cs[t].tree[p]
  <2>. SUFFICES ASSUME NEW idx \in MergeIndex, NEW p \in Paths
                PROVE  (\E b \in BaseContents(cs, o, t, p) :
                            idx[p] = MergedPath(b, cs[o].tree[p], cs[t].tree[p]))
                         <=> idx[p] = cs[t].tree[p]
    BY DEF MergeIndexes
  <2>1. MergedPath(cs[o].tree[p], cs[o].tree[p], cs[t].tree[p]) = cs[t].tree[p]
    BY <1>5
  <2>2. BaseContents(cs, o, t, p) = {cs[o].tree[p]}
    BY <1>4
  <2>. QED
    BY <2>1, <2>2
<1>7. cs[t].tree \in MergeIndex
  BY <1>2 DEF Tree, MergeIndex
<1>8. \A idx \in MergeIndex :
        (\A p \in Paths : idx[p] = cs[t].tree[p]) => idx = cs[t].tree
  BY <1>7 DEF MergeIndex
<1>9. MergeIndexes(cs, o, t) \subseteq MergeIndex
  BY DEF MergeIndexes
<1>. QED
  BY <1>6, <1>7, <1>8, <1>9
=============================================================================
