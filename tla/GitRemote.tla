----------------------------- MODULE GitRemote -----------------------------
(***************************************************************************)
(* Several GitRepository objects ("clones") that share one remote, each    *)
(* used by several threads: fetch(), push(), pull() and connectRemote().   *)
(* A clone is a virtual repository that addRemote() has taken to disk; its *)
(* merge() with a resolver is GitRepository's, here merges have none.      *)
(*                                                                         *)
(* Every method holds the clone's m_lock, and push() holds it while it     *)
(* talks to the server: it is two actions, and the clone does nothing else *)
(* in between.  fetch() reads the server's branches at one moment and its  *)
(* clone is locked until it ends, so it is one action.  pull() is three    *)
(* critical sections - fetch(), the choice of what to merge, merge() - and *)
(* the other threads of the clone run between them.                        *)
(*                                                                         *)
(* The server is external: it speaks the smart protocol, and updates a     *)
(* branch if it still has the commit the push was based on.                *)
(***************************************************************************)
EXTENDS GitServer, FiniteSets

CONSTANTS
    Clones,         \* the repository objects
    Threads,        \* the threads of each
    NoBranch,       \* no branch: HEAD is detached, nothing is being pushed
    DefaultBranch,  \* the branch libgit2 gives a new repository's HEAD
    Strategies,     \* merge strategies in use, of "detect", "ours", "theirs"
    MaxAuthored,    \* bound: commits that are not merges
    MaxCommits      \* bound: all commits

ASSUME RemoteAssumption ==
    /\ NoBranch \notin Branches /\ DefaultBranch \in Branches
    /\ Strategies \subseteq {"detect", "ours", "theirs"}
    /\ MaxAuthored \in Nat /\ MaxCommits \in Nat

VARIABLES
    clone,      \* per clone, what the repository holds
    pulling,    \* per clone and thread, the locals of pull()
    pushing     \* per clone, the push() under way

vars == <<commits, server, clone, pulling, pushing>>

Ref == CommitIds \cup {NoCommit}

Clone ==
    [branch  : [Branches -> Ref],   \* refs/heads
     track   : [Branches -> Ref],   \* refs/remotes/origin
     fetched : Ref,                 \* what FETCH_HEAD resolves to
     head    : [branch : Branches \cup {NoBranch}, commit : Ref]]

\* pull(): the branch HEAD was on when what to merge was chosen, and whether
\* that is its tracking reference or FETCH_HEAD; then merge()'s result.
Pull ==
    [at : {"idle", "fetched", "chosen", "merged"},
     branch : Branches \cup {NoBranch}, tracked : BOOLEAN, conflicts : BOOLEAN]

NoPull == [at |-> "idle", branch |-> NoBranch, tracked |-> FALSE, conflicts |-> FALSE]

\* push(): the branch, the commit the server advertised, the commit sent.
Push == [branch : Branches \cup {NoBranch}, old : Ref, new : Ref]

NoPush == [branch |-> NoBranch, old |-> NoCommit, new |-> NoCommit]

TypeOK ==
    /\ commits \in Seq(CommitRecord)
    /\ server \in [Branches -> Ref]
    /\ clone \in [Clones -> Clone]
    /\ pulling \in [Clones -> [Threads -> Pull]]
    /\ pushing \in [Clones -> Push]

\* A virtual repository after its first addRemote(): HEAD on an unborn branch.
NewClone ==
    [branch  |-> [n \in Branches |-> NoCommit],
     track   |-> [n \in Branches |-> NoCommit],
     fetched |-> NoCommit,
     head    |-> [branch |-> DefaultBranch, commit |-> NoCommit]]

Init ==
    /\ ServerInit
    /\ clone = [c \in Clones |-> NewClone]
    /\ pulling = [c \in Clones |-> [t \in Threads |-> NoPull]]
    /\ pushing = [c \in Clones |-> NoPush]

-----------------------------------------------------------------------------
\* The commit HEAD leads to in a clone r, NoCommit if it is unborn.
HeadOf(r) ==
    IF r.head.branch = NoBranch THEN r.head.commit ELSE r.branch[r.head.branch]

Moved(r, x) ==
    IF r.head.branch = NoBranch THEN [r EXCEPT !.head.commit = x]
    ELSE [r EXCEPT !.branch[r.head.branch] = x]

Unlocked(c) == pushing[c] = NoPush

\* The commits a clone can name: those its references reach ("dev", "dev~2",
\* or the id of an older commit).
Named(r) ==
    LET tips == {r.branch[n] : n \in Branches} \cup {r.track[n] : n \in Branches}
                    \cup {HeadOf(r)}
    IN  {x \in CommitIds : \E tip \in tips \ {NoCommit} : Reaches(commits, tip, x)}

MayAuthor ==
    /\ Len(commits) < MaxCommits
    /\ Cardinality({x \in CommitIds : Len(commits[x].parents) < 2}) < MaxAuthored

\* Local methods, as in GitRepository; the working tree is what its theorem
\* WorkingTreeMatchesHead says of it, and not repeated here.
Commit(c, tree) ==
    LET r == clone[c]
    IN  /\ Unlocked(c) /\ MayAuthor
        /\ tree # EmptyTree
        /\ \/ /\ HeadOf(r) # NoCommit
              /\ Author(<<HeadOf(r)>>, tree)
              /\ clone' = [clone EXCEPT ![c] = Moved(r, Len(commits) + 1)]
           \/ /\ HeadOf(r) = NoCommit /\ r.branch[Main] = NoCommit
              /\ Author(<<>>, tree)
              /\ clone' = [clone EXCEPT
                    ![c].branch[Main] = Len(commits) + 1,
                    ![c].head = [branch |-> Main, commit |-> NoCommit]]
        /\ UNCHANGED <<pulling, pushing>>

\* Mutant: the branch is moved if there is one.
CreateBranchForced(c, n, x) ==
    /\ Unlocked(c)
    /\ x \in Named(clone[c])
    /\ clone' = [clone EXCEPT ![c].branch[n] = x]
    /\ UNCHANGED <<commits, server, pulling, pushing>>

CreateBranch(c, n, x) ==
    /\ Unlocked(c)
    /\ clone[c].branch[n] = NoCommit
    /\ x \in Named(clone[c])
    /\ clone' = [clone EXCEPT ![c].branch[n] = x]
    /\ UNCHANGED <<commits, server, pulling, pushing>>

\* checkout() of a branch puts HEAD on it; of "origin/<branch>", detaches it.
Checkout(c, n) ==
    /\ Unlocked(c)
    /\ clone[c].branch[n] # NoCommit
    /\ clone' = [clone EXCEPT ![c].head = [branch |-> n, commit |-> NoCommit]]
    /\ UNCHANGED <<commits, server, pulling, pushing>>

CheckoutTracking(c, n) ==
    /\ Unlocked(c)
    /\ clone[c].track[n] # NoCommit
    /\ clone' = [clone EXCEPT
          ![c].head = [branch |-> NoBranch, commit |-> clone[c].track[n]]]
    /\ UNCHANGED <<commits, server, pulling, pushing>>

-----------------------------------------------------------------------------
\* What fetch() makes of a clone r: every branch of the server updates its
\* tracking reference, none is pruned; FETCH_HEAD lists the server's branches
\* and resolves to the first, which of them that is being left open.
Fetched(r) ==
    LET tips == {server[n] : n \in Branches} \ {NoCommit}
    IN  {[r EXCEPT !.track   = [n \in Branches |-> IF server[n] # NoCommit
                                                   THEN server[n] ELSE @[n]],
                   !.fetched = first] :
            first \in IF tips = {} THEN {NoCommit} ELSE tips}

Fetch(c) ==
    /\ Unlocked(c)
    /\ \E r \in Fetched(clone[c]) : clone' = [clone EXCEPT ![c] = r]
    /\ UNCHANGED <<commits, server, pulling, pushing>>

\* connectRemote(): a new repository fetches and checks out one of the
\* server's branches, by the name "origin/<branch>".
Connect(c, n) ==
    /\ clone[c] = NewClone /\ Unlocked(c)
    /\ \A t \in Threads : pulling[c][t] = NoPull
    /\ server[n] # NoCommit
    /\ \E r \in Fetched(clone[c]) :
          clone' = [clone EXCEPT ![c] =
              [r EXCEPT !.head = [branch |-> NoBranch, commit |-> server[n]]]]
    /\ UNCHANGED <<commits, server, pulling, pushing>>

-----------------------------------------------------------------------------
\* Mutant: push() with a "+" refspec.
MayPushForced(c, n) ==
    /\ n # NoBranch
    /\ clone[c].branch[n] # NoCommit

\* push() of a branch, first part: the server tells its branches; a push that
\* would not be a fast-forward raises here.
MayPush(c, n) ==
    /\ n # NoBranch
    /\ clone[c].branch[n] # NoCommit
    /\ server[n] # NoCommit => Reaches(commits, clone[c].branch[n], server[n])

PushStart(c, n) ==
    /\ Unlocked(c)
    /\ MayPush(c, n)
    /\ pushing' = [pushing EXCEPT ![c] =
          [branch |-> n, old |-> server[n], new |-> clone[c].branch[n]]]
    /\ UNCHANGED <<commits, server, clone, pulling>>

\* Mutant: a server that does not compare.
ServerTakesAny(p) == server' = [server EXCEPT ![p.branch] = p.new]

\* The server takes the commit if the branch is still where it told.
ServerTakes(p) ==
    /\ server[p.branch] = p.old
    /\ server' = [server EXCEPT ![p.branch] = p.new]

\* Mutant: the tracking reference is set whatever the server answers.
PushEndTracked(c) ==
    LET p == pushing[c]
    IN  /\ ~Unlocked(c)
        /\ ServerTakes(p) \/ (server[p.branch] # p.old /\ UNCHANGED server)
        /\ clone' = [clone EXCEPT ![c].track[p.branch] = p.new]
        /\ pushing' = [pushing EXCEPT ![c] = NoPush]
        /\ UNCHANGED <<commits, pulling>>

\* push(), second part, with the server's answer: the tracking reference
\* follows.  A refusal reaches only a callback nobody installs, so push()
\* returns as if the branch had been updated.
PushEnd(c) ==
    LET p == pushing[c]
    IN  /\ ~Unlocked(c)
        /\ \/ /\ ServerTakes(p)
              /\ clone' = [clone EXCEPT ![c].track[p.branch] = p.new]
           \/ /\ server[p.branch] # p.old
              /\ UNCHANGED <<server, clone>>
        /\ pushing' = [pushing EXCEPT ![c] = NoPush]
        /\ UNCHANGED <<commits, pulling>>

\* The connection breaks before or after the server took it: push() raises.
PushBreaks(c) ==
    /\ ~Unlocked(c)
    /\ ServerTakes(pushing[c]) \/ UNCHANGED server
    /\ pushing' = [pushing EXCEPT ![c] = NoPush]
    /\ UNCHANGED <<commits, clone, pulling>>

-----------------------------------------------------------------------------
\* merge() of a commit into HEAD's with strategy s; conflicts is what it returns.
Merge(c, theirs, s, conflicts) ==
    LET r == clone[c]
        ours == HeadOf(r)
        Diverged == ~Reaches(commits, ours, theirs) /\ ~Reaches(commits, theirs, ours)
    IN  /\ ours # NoCommit /\ theirs # NoCommit
        /\ \/ /\ Reaches(commits, ours, theirs)
              /\ ~conflicts
              /\ UNCHANGED <<commits, server, clone>>
           \/ /\ ours # theirs /\ Reaches(commits, theirs, ours)
              /\ ~conflicts
              /\ clone' = [clone EXCEPT ![c] = Moved(r, theirs)]
              /\ UNCHANGED <<commits, server>>
           \/ /\ Diverged
              /\ \E idx \in MergeIndexes(commits, ours, theirs) :
                    \/ /\ s = "detect" /\ Conflicted(idx) # {}
                       /\ conflicts
                       /\ UNCHANGED <<commits, server, clone>>
                    \/ /\ s # "detect" \/ Conflicted(idx) = {}
                       /\ ~conflicts
                       /\ Len(commits) < MaxCommits
                       /\ LET side == IF s = "ours" THEN ours ELSE theirs
                              tree == TakeSide(idx, commits[side].tree)
                          IN  /\ Author(<<ours, theirs>>, tree)
                              /\ clone' = [clone EXCEPT ![c] = Moved(r, Len(commits) + 1)]

MergeBranch(c, n, s) ==
    /\ Unlocked(c)
    /\ \E conflicts \in BOOLEAN : Merge(c, clone[c].branch[n], s, conflicts)
    /\ UNCHANGED <<pulling, pushing>>

\* pull(), first section.
PullFetch(c, t) ==
    /\ Unlocked(c)
    /\ pulling[c][t].at = "idle"
    /\ \E r \in Fetched(clone[c]) : clone' = [clone EXCEPT ![c] = r]
    /\ pulling' = [pulling EXCEPT ![c][t] = [NoPull EXCEPT !.at = "fetched"]]
    /\ UNCHANGED <<commits, server, pushing>>

\* Second section: the tracking reference of HEAD's branch, else FETCH_HEAD.
PullChoose(c, t) ==
    LET r == clone[c]
    IN  /\ Unlocked(c)
        /\ pulling[c][t].at = "fetched"
        /\ r.head.branch # NoBranch /\ HeadOf(r) # NoCommit
        /\ pulling' = [pulling EXCEPT ![c][t] =
              [NoPull EXCEPT !.at = "chosen", !.branch = r.head.branch,
                             !.tracked = r.track[r.head.branch] # NoCommit]]
        /\ UNCHANGED <<commits, server, clone, pushing>>

\* What the name that was chosen means when the third section looks it up.
Theirs(c, t) ==
    IF pulling[c][t].tracked THEN clone[c].track[pulling[c][t].branch]
    ELSE clone[c].fetched

PullMerge(c, t) ==
    /\ Unlocked(c)
    /\ pulling[c][t].at = "chosen"
    /\ \E s \in Strategies, conflicts \in BOOLEAN :
          /\ Merge(c, Theirs(c, t), s, conflicts)
          /\ pulling' = [pulling EXCEPT ![c][t].at = "merged",
                                        ![c][t].conflicts = conflicts]
    /\ UNCHANGED pushing

\* HEAD is unborn or detached, or there is no FETCH_HEAD.
PullRaises(c, t) ==
    /\ Unlocked(c)
    /\ \/ /\ pulling[c][t].at = "fetched"
          /\ clone[c].head.branch = NoBranch \/ HeadOf(clone[c]) = NoCommit
       \/ /\ pulling[c][t].at = "chosen"
          /\ Theirs(c, t) = NoCommit
    /\ pulling' = [pulling EXCEPT ![c][t] = NoPull]
    /\ UNCHANGED <<commits, server, clone, pushing>>

\* The caller of pull() takes its result.
PullReturns(c, t) ==
    /\ pulling[c][t].at = "merged"
    /\ pulling' = [pulling EXCEPT ![c][t] = NoPull]
    /\ UNCHANGED <<commits, server, clone, pushing>>

Next ==
    \E c \in Clones :
        \/ \E tree \in Tree : Commit(c, tree)
        \/ Fetch(c) \/ PushEnd(c) \/ PushBreaks(c)
        \/ \E n \in Branches :
              \/ Connect(c, n) \/ PushStart(c, n)
              \/ Checkout(c, n) \/ CheckoutTracking(c, n)
              \/ \E s \in Strategies \cup {"detect"} : MergeBranch(c, n, s)
              \/ \E x \in CommitIds : CreateBranch(c, n, x)
        \/ \E t \in Threads :
              \/ PullFetch(c, t) \/ PullChoose(c, t) \/ PullMerge(c, t)
              \/ PullRaises(c, t) \/ PullReturns(c, t)

Spec == Init /\ [][Next]_vars

-----------------------------------------------------------------------------
\* A tracking reference is never ahead of the branch it tracks: what a clone
\* takes for published is published, whatever became of its pushes (refused,
\* broken off, overtaken by another clone's) and fetches.
TrackingIsPublished ==
    \A c \in Clones, n \in Branches :
        clone[c].track[n] # NoCommit =>
            /\ server[n] # NoCommit
            /\ Reaches(commits, server[n], clone[c].track[n])

\* A local branch never loses a commit either: whatever the threads of a clone
\* do between the sections of a pull(), as long as it is there it moves only to
\* commits that contain the one it had.
BranchesMoveForward ==
    [][\A c \in Clones, n \in Branches :
          clone[c].branch[n] # NoCommit /\ clone'[c].branch[n] # NoCommit
          => Reaches(commits', clone'[c].branch[n], clone[c].branch[n])]_vars

\* The remote keeps the promises of GitServer.
ImplementsServer == ServerSpec

\* pull() "merges the tracking branch into the current branch": what it merges
\* is the remote's branch of the name of the branch HEAD is on.
PullMergesTrackingBranch ==
    [][\A c \in Clones, t \in Threads : PullMerge(c, t)
          => pulling[c][t].tracked /\ clone[c].head.branch = pulling[c][t].branch]_vars
=============================================================================
