----------------------------- MODULE MCGitDisk -----------------------------
(***************************************************************************)
(* Small instances of GitDisk.  Contents and paths are interchangeable.    *)
(* Up to its third commit a repository is only written to, committed,      *)
(* branched and switched, which leads to every history of three commits;   *)
(* from there anything may happen, MaxSteps operations long.               *)
(***************************************************************************)
EXTENDS GitDisk, TLC

CONSTANT MaxSteps   \* bound: operations after the third commit
VARIABLE steps      \* how many there were

SetUp ==
    /\ Len(commits) < 3
    /\ \/ touched = {} /\ \E p \in Paths, content \in Blobs : WriteFile(p, content)
       \/ touched # {} /\ Commit
       \/ touched = {} /\ \E n \in Branches, c \in CommitIds :
             Checkout(n) \/ CreateBranch(n, c)
    /\ UNCHANGED steps

Explore ==
    /\ Len(commits) >= 3
    /\ steps < MaxSteps
    /\ Next
    /\ steps' = steps + 1

\* The bound is reached: not a deadlock of the repository.
Bounded == steps = MaxSteps /\ UNCHANGED <<vars, steps>>

BoundedInit == Init /\ steps = 0
BoundedNext == SetUp \/ Explore \/ Bounded

BoundedSpec == BoundedInit /\ [][BoundedNext]_<<vars, steps>>

Symmetry == Permutations(Paths) \cup Permutations(Blobs)
=============================================================================
