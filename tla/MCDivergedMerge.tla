-------------------------- MODULE MCDivergedMerge --------------------------
(***************************************************************************)
(* Merging, from every history in which two branches have grown one commit *)
(* each on a common first commit: the states createBranch(), checkout()    *)
(* and commit() lead to, with every combination of trees.  Only the        *)
(* merges, and what may come between the phases of one, are explored.      *)
(***************************************************************************)
EXTENDS GitRepository, TLC

Symmetry == Permutations(Paths) \cup Permutations(Blobs) \cup Permutations(Threads)

Other == CHOOSE n \in Branches : n # Main

Diverged(base, mine, other) ==
    LET first  == <<NewCommit(<<>>, <<>>, base)>>
        second == Append(first, NewCommit(first, <<1>>, mine))
    IN  Append(second, NewCommit(second, <<1>>, other))

DivergedInit ==
    \E base, mine, other \in Tree \ {EmptyTree} :
        /\ commits = Diverged(base, mine, other)
        /\ branch = [n \in Branches |-> CASE n = Main  -> 2
                                          [] n = Other -> 3
                                          [] OTHER     -> NoCommit]
        /\ tag = [n \in TagNames |-> NoCommit]
        /\ head = SymbolicTo(Main)
        /\ vtree = mine
        /\ inMemory = TRUE
        /\ merging = [t \in Threads |-> NoMerge]
        /\ edited = {}
        /\ torn = FALSE

MergeNext ==
    \/ \E c \in CommitIds :
          \/ MergeFastForward(c) \/ MergeFastForwardCancelled(c)
          \/ MergeClean(c) \/ MergeFavor(c)
          \/ \E thread \in Threads : MergeAsk(thread, c)
    \/ \E thread \in Threads : MergeResolved(thread) \/ MergeEnds(thread)
    \/ \E n \in Branches : CheckoutName(n)
    \/ AddRemote

MergeSpec == DivergedInit /\ [][MergeNext]_vars
=============================================================================
