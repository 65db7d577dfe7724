---------------------------- MODULE CommitGraph ----------------------------
(***************************************************************************)
(* The object model a GitRepository stands on, as far as the module's code *)
(* can tell: commits with parents and a tree, ancestry, merge bases and    *)
(* the three-way merge libgit2 computes for git_merge_commits().  Every    *)
(* operator is a pure function of its arguments.                           *)
(*                                                                         *)
(* A tree gives each path a blob or Absent.  The content of a file is one  *)
(* hunk: two different edits of one file conflict (the line merge inside a *)
(* file is libgit2's).  Blobs of different paths are dissimilar, so rename *)
(* detection never fires.                                                  *)
(***************************************************************************)
EXTENDS Naturals, Sequences

CONSTANTS
    Paths,      \* the file paths
    Blobs,      \* the file contents
    Absent,     \* no file at a path
    Conflict    \* the index holds stages 1-3 for a path: nobody chose yet

ASSUME ContentAssumption ==
    Absent \notin Blobs /\ Conflict \notin Blobs /\ Absent # Conflict

Content == Blobs \cup {Absent}
Tree == [Paths -> Content]
EmptyTree == [p \in Paths |-> Absent]

\* A merge index: each path is settled or in conflict.
MergeIndex == [Paths -> Content \cup {Conflict}]

(***************************************************************************)
(* Commits are numbered in the order they are created; 0 is no commit.     *)
(* `reach' is the set of commits reachable from a commit, itself included. *)
(* It is a function of the parents, kept with the commit.                  *)
(***************************************************************************)
NoCommit == 0

CommitRecord == [parents : Seq(Nat), tree : Tree, reach : SUBSET Nat]

NewCommit(commits, parents, tree) ==
    [parents |-> parents,
     tree    |-> tree,
     reach   |-> {Len(commits) + 1}
                 \cup UNION {commits[parents[i]].reach : i \in DOMAIN parents}]

TreeAt(commits, c) == IF c = NoCommit THEN EmptyTree ELSE commits[c].tree

\* a is d or an ancestor of d (git_merge_analysis, git_graph_descendant_of).
Reaches(commits, d, a) == a \in commits[d].reach

\* The best common ancestors of two commits.
MergeBases(commits, o, t) ==
    LET common == commits[o].reach \cap commits[t].reach
    IN  {b \in common : \A c \in common \ {b} : ~Reaches(commits, c, b)}

(***************************************************************************)
(* What path p may hold in the ancestor side of the merge: the tree of the *)
(* merge base; an empty tree for unrelated histories; and for several      *)
(* bases that differ at p what merging the bases first may leave there.    *)
(***************************************************************************)
BaseContents(commits, o, t, p) ==
    LET held == {commits[b].tree[p] : b \in MergeBases(commits, o, t)}
    IN  CASE held = {}              -> {Absent}
          [] \E v \in held : held = {v} -> held
          [] OTHER                  -> held \cup {Conflict}

\* One path of the three-way merge.
MergedPath(base, ours, theirs) ==
    CASE ours = theirs -> ours
      [] base = theirs -> ours
      [] base = ours   -> theirs
      [] OTHER         -> Conflict

\* git_merge_commits(): the indexes the merge of two commits may yield (one,
\* unless several merge bases disagree).
MergeIndexes(commits, o, t) ==
    {idx \in MergeIndex :
        \A p \in Paths : \E base \in BaseContents(commits, o, t, p) :
            idx[p] = MergedPath(base, commits[o].tree[p], commits[t].tree[p])}

Conflicted(idx) == {p \in Paths : idx[p] = Conflict}

\* Mutant: the deletion of a file on the chosen side is not applied.
TakeSideContent(idx, side) ==
    [p \in Paths |-> IF idx[p] = Conflict /\ side[p] # Absent THEN side[p] ELSE idx[p]]

\* Mutant: the chosen side's tree, not only where the two sides conflict.
TakeSideWhole(idx, side) == side

\* Mutant: the index is written with its conflicts.
KeepConflicts(idx, side) == idx

\* Strategies "ours" and "theirs": a path in conflict takes the chosen side,
\* its deletion included.
TakeSide(idx, side) ==
    [p \in Paths |-> IF idx[p] = Conflict THEN side[p] ELSE idx[p]]
=============================================================================
