-------------------------- MODULE MCGitRepository --------------------------
(***************************************************************************)
(* Small instances of GitRepository.  Contents, paths and threads are      *)
(* interchangeable: no action orders or names them.                        *)
(***************************************************************************)
EXTENDS GitRepository, TLC

Symmetry ==
    Permutations(Paths) \cup Permutations(Blobs) \cup Permutations(Threads)

CONSTANT MaxAside   \* bound: commits there may be while there is a tag or a remote

Aside == ~inMemory \/ \E n \in TagNames : tag[n] # NoCommit
FewAside == Aside' => Len(commits') <= MaxAside

BoundedSpec == Init /\ [][Next /\ FewAside]_vars
=============================================================================
