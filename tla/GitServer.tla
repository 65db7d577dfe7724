----------------------------- MODULE GitServer -----------------------------
(***************************************************************************)
(* What the clones of one remote can rely on, whatever they do and in      *)
(* whatever order: commits are only added, and a branch of the remote is   *)
(* created once and then only moves to commits that contain the one it     *)
(* had.  Nobody's published commit disappears from its branch.             *)
(***************************************************************************)
EXTENDS CommitGraph

CONSTANTS
    Branches,   \* branch names, refs/heads/<name>
    Main        \* the branch of a first commit

ASSUME MainAssumption == Main \in Branches

VARIABLES
    commits,    \* the commit objects of all clones, in creation order
    server      \* the commit of each branch of the remote, or NoCommit

serverVars == <<commits, server>>

CommitIds == 1..Len(commits)

\* The remote is empty, or somebody has put a first commit there.
ServerInit ==
    \/ /\ commits = <<>>
       /\ server = [n \in Branches |-> NoCommit]
    \/ /\ \E tree \in Tree \ {EmptyTree} : commits = <<NewCommit(<<>>, <<>>, tree)>>
       /\ server = [n \in Branches |-> IF n = Main THEN 1 ELSE NoCommit]

\* Somebody makes a commit: nobody else sees it yet.
Author(parents, tree) ==
    /\ commits' = Append(commits, NewCommit(commits, parents, tree))
    /\ UNCHANGED server

\* A push arrives that contains what the branch had.
Advance(n, c) ==
    /\ server[n] # NoCommit => Reaches(commits, c, server[n])
    /\ server' = [server EXCEPT ![n] = c]
    /\ UNCHANGED commits

ServerNext ==
    \/ \E c \in CommitIds, n \in Branches : Advance(n, c)
    \/ \E tree \in Tree :
          \/ Author(<<>>, tree)
          \/ \E a \in CommitIds : Author(<<a>>, tree)
          \/ \E a, b \in CommitIds : Author(<<a, b>>, tree)

ServerSpec == ServerInit /\ [][ServerNext]_serverVars

-----------------------------------------------------------------------------
\* A branch of the remote never loses a commit it had, however the pushes of
\* several clones overlap: push() without force, and the server's own check.
ServerMovesForward ==
    [][\A n \in Branches : server[n] # NoCommit
          => server'[n] # NoCommit /\ Reaches(commits', server'[n], server[n])]_serverVars
=============================================================================
