----------------------------- MODULE GitHistory -----------------------------
(***************************************************************************)
(* What a repository promises about its history, whatever its mode, its    *)
(* threads and its working tree: commits are only ever added; a new commit *)
(* grows on the commit HEAD designates and moves the one reference HEAD    *)
(* designates; any other branch or tag is created or deleted, never        *)
(* redirected; HEAD always designates a commit once there is one.          *)
(***************************************************************************)
EXTENDS CommitGraph

CONSTANTS
    Branches,       \* branch names, refs/heads/<name>
    NoBranch,       \* HEAD is detached or does not exist
    TagNames,       \* tag names, refs/tags/<name>
    Main,           \* the branch the first commit creates
    DefaultBranch   \* where libgit2 points HEAD of a fresh disk repository

ASSUME RefAssumption ==
    Main \in Branches /\ DefaultBranch \in Branches /\ NoBranch \notin Branches

VARIABLES
    commits,    \* the commit objects, in creation order
    branch,     \* the commit of each branch, NoCommit if there is no such branch
    tag,        \* the commit each tag leads to, NoCommit if there is no such tag
    head        \* HEAD: symbolic to a branch, detached at a commit, or neither

historyVars == <<commits, branch, tag, head>>

CommitIds == 1..Len(commits)

SymbolicTo(n) == [branch |-> n, commit |-> NoCommit]
DetachedAt(c) == [branch |-> NoBranch, commit |-> c]
NoHead == DetachedAt(NoCommit)

\* git_repository_head(): the commit HEAD leads to, NoCommit if unborn.
HeadCommit ==
    IF head.branch = NoBranch THEN head.commit ELSE branch[head.branch]

HistoryInit ==
    /\ commits = <<>>
    /\ branch = [n \in Branches |-> NoCommit]
    /\ tag = [n \in TagNames |-> NoCommit]
    /\ head = NoHead

\* The reference HEAD designates moves to c; every other reference stays.
MoveHead(c) ==
    \/ /\ head.branch # NoBranch
       /\ branch' = [branch EXCEPT ![head.branch] = c]
       /\ UNCHANGED head
    \/ /\ head.branch = NoBranch
       /\ head' = DetachedAt(c)
       /\ UNCHANGED branch

FirstCommit(tree) ==
    /\ HeadCommit = NoCommit
    /\ branch[Main] = NoCommit
    /\ commits' = Append(commits, NewCommit(commits, <<>>, tree))
    /\ branch' = [branch EXCEPT ![Main] = Len(commits) + 1]
    /\ head' = SymbolicTo(Main)
    /\ UNCHANGED tag

\* A commit whose first parent is HEAD's commit; a merge has a second parent.
Grow(others, tree) ==
    /\ HeadCommit # NoCommit
    /\ commits' = Append(commits, NewCommit(commits, <<HeadCommit>> \o others, tree))
    /\ MoveHead(Len(commits) + 1)
    /\ UNCHANGED tag

FastForward(c) ==
    /\ HeadCommit # NoCommit
    /\ Reaches(commits, c, HeadCommit)
    /\ MoveHead(c)
    /\ UNCHANGED <<commits, tag>>

SwitchHead(newHead) ==
    /\ head' = newHead
    /\ UNCHANGED <<commits, branch, tag>>

AddBranch(n, c) ==
    /\ branch[n] = NoCommit
    /\ branch' = [branch EXCEPT ![n] = c]
    /\ UNCHANGED <<commits, tag, head>>

DropBranch(n) ==
    /\ n # head.branch
    /\ branch' = [branch EXCEPT ![n] = NoCommit]
    /\ UNCHANGED <<commits, tag, head>>

AddTag(n, c) ==
    /\ tag[n] = NoCommit
    /\ tag' = [tag EXCEPT ![n] = c]
    /\ UNCHANGED <<commits, branch, head>>

DropTag(n) ==
    /\ tag' = [tag EXCEPT ![n] = NoCommit]
    /\ UNCHANGED <<commits, branch, head>>

HistoryNext ==
    \/ \E tree \in Tree : FirstCommit(tree)
    \/ \E others \in {<<>>} \cup {<<c>> : c \in CommitIds}, tree \in Tree :
          Grow(others, tree)
    \/ \E c \in CommitIds : FastForward(c) \/ SwitchHead(DetachedAt(c))
    \/ \E n \in Branches : branch[n] # NoCommit /\ SwitchHead(SymbolicTo(n))
    \/ head = NoHead /\ SwitchHead(SymbolicTo(DefaultBranch))
    \/ \E n \in Branches, c \in CommitIds : HeadCommit # NoCommit /\ AddBranch(n, c)
    \/ \E n \in Branches : DropBranch(n)
    \/ \E n \in TagNames, c \in CommitIds : AddTag(n, c)
    \/ \E n \in TagNames : DropTag(n)

HistorySpec == HistoryInit /\ [][HistoryNext]_historyVars

-----------------------------------------------------------------------------
\* The shape of the history: references lead to commits that exist.
HistoryTypeOK ==
    /\ commits \in Seq(CommitRecord)
    /\ branch \in [Branches -> CommitIds \cup {NoCommit}]
    /\ tag \in [TagNames -> CommitIds \cup {NoCommit}]
    /\ head \in [branch : Branches \cup {NoBranch}, commit : CommitIds \cup {NoCommit}]

\* A commit never changes, and a branch that survives a step stays or moves to
\* a descendant of the commit it had.
KeepsHistory ==
    /\ \A c \in CommitIds : c \in CommitIds' /\ commits'[c] = commits[c]
    /\ \A n \in Branches : branch[n] # NoCommit /\ branch'[n] # NoCommit
          => Reaches(commits', branch'[n], branch[n])

\* No commit that a branch held is lost by a commit, a fast-forward or a merge
\* (createMergeCommit), however the steps of concurrent merges interleave.
TipsMoveForward == [][KeepsHistory]_historyVars

\* Once a commit exists, HEAD leads to one: no sequence of deleteBranch(),
\* checkout() and addRemote() leaves HEAD without a commit, the state in which
\* the next commit() would start an unrelated history on Main.
HeadAlwaysResolves == commits # <<>> => HeadCommit # NoCommit

\* The inductive invariant of the theorems: a commit reaches itself, so that
\* a commit grown on HEAD's reaches HEAD's.
HistoryInv ==
    /\ HistoryTypeOK
    /\ HeadAlwaysResolves
    /\ \A c \in CommitIds : Reaches(commits, c, c)
=============================================================================
