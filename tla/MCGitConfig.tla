---------------------------- MODULE MCGitConfig ----------------------------
(***************************************************************************)
(* Small instances of GitConfig.  In SharedConfigInit the repository is    *)
(* new, or has the first commit of the remote's Main, as in MCGitRemote.   *)
(***************************************************************************)
EXTENDS GitConfig, TLC

UpToDate ==
    [NewClone EXCEPT !.branch[Main] = 1, !.track[Main] = 1, !.fetched = 1,
                     !.head.branch = Main]

SharedConfigInit ==
    /\ ServerInit /\ commits # <<>>
    /\ clone \in [Clones -> {NewClone, UpToDate}]
    /\ pulling = [c \in Clones |-> [t \in Threads |-> NoPull]]
    /\ pushing = [c \in Clones |-> NoPush]
    /\ worktree = TreeAt(commits, Tip)
    /\ manager = NoMethod
    /\ seen = Tip

SharedConfigSpec == SharedConfigInit /\ [][ConfigNext]_configVars

\* Bound: merge commits.  It is no guard, since two pulls that may not merge
\* would both wait.
MaxMerges == 2

FewMerges == Cardinality({x \in CommitIds : Len(commits[x].parents) = 2}) <= MaxMerges
=============================================================================
