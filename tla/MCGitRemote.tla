---------------------------- MODULE MCGitRemote ----------------------------
(***************************************************************************)
(* Clones of a remote whose branch Main has one commit: each is new, or    *)
(* has fetched, made the branch and checked it out (Connect, CreateBranch, *)
(* Checkout).                                                              *)
(***************************************************************************)
EXTENDS GitRemote, TLC

Symmetry == Permutations(Clones) \cup Permutations(Blobs) \cup Permutations(Threads)

UpToDate ==
    [NewClone EXCEPT !.branch[Main] = 1, !.track[Main] = 1, !.fetched = 1,
                     !.head.branch = Main]

SharedInit ==
    /\ ServerInit /\ commits # <<>>
    /\ clone \in [Clones -> {NewClone, UpToDate}]
    /\ pulling = [c \in Clones |-> [t \in Threads |-> NoPull]]
    /\ pushing = [c \in Clones |-> NoPush]

SharedSpec == SharedInit /\ [][Next]_vars
=============================================================================
