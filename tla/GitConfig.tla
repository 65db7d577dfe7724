----------------------------- MODULE GitConfig -----------------------------
(***************************************************************************)
(* A GitConfigManager and a GitConfigWatcher on one GitRepository that has *)
(* a remote, and other clients of that remote.  The manager's methods are  *)
(* sequences of repository methods; the watcher's poll loop has a thread   *)
(* of its own and pulls between any two of them.                           *)
(*                                                                         *)
(* Here the working tree matters: a commit takes it whole, checkout() and  *)
(* a merge that moves HEAD replace it (GitRepository).  The commits that   *)
(* other clients publish just appear in the remote.                        *)
(***************************************************************************)
EXTENDS GitRemote

CONSTANTS
    Mine,       \* the repository the manager and the watcher share
    Manager,    \* the thread that calls the manager
    Watcher     \* the poll loop

ASSUME ConfigAssumption ==
    Clones = {Mine} /\ Threads = {Manager, Watcher} /\ Manager # Watcher

VARIABLES
    worktree,   \* m_virtual_tree
    manager,    \* where the manager's method is, and its locals
    seen        \* the watcher's last_head_id

remoteVars == <<commits, server, clone, pulling, pushing>>
configVars == <<commits, server, clone, pulling, pushing, worktree, manager, seen>>

\* A method of the manager between two calls of the repository: publish() and
\* proposeChanges() have "committed" and push next, or are "pushing"; sync() is
\* inside pull(); proposeChanges() is "called", has "listed" the pending files and
\* reads them, has "branched", "switched" to the branch and writes them there,
\* and has "proposed" them in a commit.
Method ==
    [at : {"idle", "committed", "pushing", "pulling",
           "called", "listed", "branched", "switched", "proposed"},
     id      : Ref,                         \* the commit it made
     base    : Branches \cup {NoBranch},    \* the branch it was called on
     target  : Branches \cup {NoBranch},    \* the branch of the proposal
     pending : SUBSET Paths,                \* what it has listed and not read
     files   : Tree]                        \* what it has read and not written

NoMethod ==
    [at |-> "idle", id |-> NoCommit, base |-> NoBranch, target |-> NoBranch,
     pending |-> {}, files |-> EmptyTree]

ConfigTypeOK ==
    /\ TypeOK
    /\ worktree \in Tree
    /\ manager \in Method
    /\ seen \in Ref

ConfigInit ==
    /\ Init
    /\ worktree = EmptyTree
    /\ manager = NoMethod
    /\ seen = NoCommit

Here == clone[Mine]
Tip == HeadOf(Here)

\* The working tree follows a merge that moved HEAD.
FollowHead ==
    worktree' = IF HeadOf(clone'[Mine]) = Tip THEN worktree
                ELSE TreeAt(commits', HeadOf(clone'[Mine]))

Idle == manager.at = "idle"
Continue(at) == manager' = [manager EXCEPT !.at = at]
Return == manager' = NoMethod

-----------------------------------------------------------------------------
\* writeConfig() and deleteConfig().
WriteConfig(p, content) ==
    /\ Idle /\ Unlocked(Mine)
    /\ worktree' = [worktree EXCEPT ![p] = content]
    /\ UNCHANGED <<remoteVars, manager, seen>>

\* publish(): commit, then push() of HEAD's branch.
PublishCommit ==
    /\ Idle
    /\ Commit(Mine, worktree)
    /\ manager' = [manager EXCEPT !.at = "committed", !.id = Len(commits) + 1]
    /\ UNCHANGED <<worktree, seen>>

\* Mutant: a proposal pushes the branch HEAD is on.
PushedHead == Here.head.branch

PushedBranch == IF manager.target # NoBranch THEN manager.target ELSE Here.head.branch

PublishPush ==
    /\ manager.at = "committed"
    /\ PushStart(Mine, PushedBranch)
    /\ Continue("pushing")
    /\ UNCHANGED <<worktree, seen>>

\* push() raises GIT-PUSH-ERROR, since the remote has moved or there is no such
\* branch, and the manager takes no notice; or HEAD is detached, and the server
\* takes no update of its HEAD.
PublishRefused ==
    /\ manager.at = "committed" /\ Unlocked(Mine)
    /\ ~MayPush(Mine, PushedBranch)
    /\ Return
    /\ UNCHANGED <<remoteVars, worktree, seen>>

\* push() returns, or raises in transfer: publish() returns either way.
PublishEnd ==
    /\ manager.at = "pushing"
    /\ PushEnd(Mine) \/ PushBreaks(Mine)
    /\ Return
    /\ UNCHANGED <<worktree, seen>>

-----------------------------------------------------------------------------
\* sync(): pull() on a branch that has a commit, else fetch().
SyncFetch ==
    /\ Idle
    /\ IF Tip # NoCommit /\ Here.head.branch # NoBranch
       THEN PullFetch(Mine, Manager) /\ Continue("pulling")
       ELSE Fetch(Mine) /\ UNCHANGED manager
    /\ UNCHANGED <<worktree, seen>>

SyncChoose ==
    /\ PullChoose(Mine, Manager)
    /\ UNCHANGED <<worktree, manager, seen>>

SyncMerge ==
    /\ PullMerge(Mine, Manager)
    /\ FollowHead
    /\ UNCHANGED <<manager, seen>>

SyncEnd ==
    /\ PullReturns(Mine, Manager) \/ PullRaises(Mine, Manager)
    /\ Return
    /\ UNCHANGED <<worktree, seen>>

-----------------------------------------------------------------------------
CreateEnvironment(n, x) ==
    /\ Idle
    /\ CreateBranch(Mine, n, x)
    /\ UNCHANGED <<worktree, manager, seen>>

CheckoutFiles(n) ==
    /\ Checkout(Mine, n)
    /\ worktree' = commits[Here.branch[n]].tree

\* checkout() that is cancelled has replaced the working tree by a part of the
\* branch's files, and has not moved HEAD.
CheckoutCancelled(n) ==
    /\ Unlocked(Mine)
    /\ Here.branch[n] # NoCommit
    /\ LET tree == commits[Here.branch[n]].tree
       IN  \E kept \in SUBSET {p \in Paths : tree[p] # Absent} :
              worktree' = [p \in Paths |-> IF p \in kept THEN tree[p] ELSE Absent]
    /\ UNCHANGED remoteVars

SwitchEnvironment(n) ==
    /\ Idle
    /\ CheckoutFiles(n) \/ CheckoutCancelled(n)
    /\ UNCHANGED <<manager, seen>>

ApplyProposal(n) ==
    /\ Idle
    /\ MergeBranch(Mine, n, "detect")
    /\ FollowHead
    /\ UNCHANGED <<manager, seen>>

-----------------------------------------------------------------------------
\* proposeChanges(): each call of the repository is a step of its own.  First
\* currentBranch().
ProposeCall(n) ==
    /\ Idle /\ Unlocked(Mine)
    /\ manager' = [NoMethod EXCEPT
          !.at = "called", !.target = n,
          !.base = IF Tip = NoCommit THEN NoBranch ELSE Here.head.branch]
    /\ UNCHANGED <<remoteVars, worktree, seen>>

\* status() of a virtual repository lists every file of the working tree.
ProposeList ==
    /\ manager.at = "called" /\ Unlocked(Mine)
    /\ manager' = [manager EXCEPT
          !.at = "listed", !.pending = {p \in Paths : worktree[p] # Absent}]
    /\ UNCHANGED <<remoteVars, worktree, seen>>

\* readFileString() of one of them, which may be gone by now.
ProposeReadFile(p) ==
    /\ manager.at = "listed" /\ p \in manager.pending /\ Unlocked(Mine)
    /\ manager' = [manager EXCEPT
          !.pending = @ \ {p},
          !.files[p] = IF worktree[p] # Absent THEN worktree[p]
                       ELSE TreeAt(commits, Tip)[p]]
    /\ UNCHANGED <<remoteVars, worktree, seen>>

ProposeBranch ==
    /\ manager.at = "listed" /\ manager.pending = {}
    /\ CreateBranch(Mine, manager.target, Tip)
    /\ Continue("branched")
    /\ UNCHANGED <<worktree, seen>>

\* Mutant: the branch is made and not checked out.
ProposeNoSwitch ==
    /\ manager.at = "branched"
    /\ Continue("switched")
    /\ UNCHANGED <<remoteVars, worktree, seen>>

ProposeSwitch ==
    /\ manager.at = "branched"
    /\ CheckoutFiles(manager.target)
    /\ Continue("switched")
    /\ UNCHANGED seen

ProposeWrite(p) ==
    /\ manager.at = "switched" /\ manager.files[p] # Absent /\ Unlocked(Mine)
    /\ worktree' = [worktree EXCEPT ![p] = manager.files[p]]
    /\ manager' = [manager EXCEPT !.files[p] = Absent]
    /\ UNCHANGED <<remoteVars, seen>>

ProposeCommit ==
    /\ manager.at = "switched" /\ manager.files = EmptyTree
    /\ Commit(Mine, worktree)
    /\ manager' = [manager EXCEPT !.at = "proposed", !.id = Len(commits) + 1]
    /\ UNCHANGED <<worktree, seen>>

ProposeBack ==
    /\ manager.at = "proposed"
    /\ IF manager.base # NoBranch THEN CheckoutFiles(manager.base)
       ELSE Unlocked(Mine) /\ UNCHANGED <<remoteVars, worktree>>
    /\ Continue("committed")
    /\ UNCHANGED seen

\* Each of these calls may raise - the branch exists, a checkout is cancelled,
\* libgit2 fails - and nothing is undone: from "switched" on HEAD stays on the
\* branch of the proposal.
ProposeRaises ==
    /\ \/ /\ \/ manager.at \in {"called", "listed", "branched", "switched"}
             \/ manager.at = "proposed" /\ manager.base # NoBranch
          /\ Unlocked(Mine) /\ UNCHANGED <<remoteVars, worktree>>
       \/ manager.at = "branched" /\ CheckoutCancelled(manager.target)
       \/ manager.at = "proposed" /\ manager.base # NoBranch
             /\ CheckoutCancelled(manager.base)
    /\ Return
    /\ UNCHANGED seen

-----------------------------------------------------------------------------
\* pollOnce(): pull(); an exception is logged and ends the poll.
PollFetch ==
    /\ PullFetch(Mine, Watcher)
    /\ UNCHANGED <<worktree, manager, seen>>

PollChoose ==
    /\ PullChoose(Mine, Watcher)
    /\ UNCHANGED <<worktree, manager, seen>>

PollMerge ==
    /\ PullMerge(Mine, Watcher)
    /\ FollowHead
    /\ UNCHANGED <<manager, seen>>

PollRaises ==
    /\ PullRaises(Mine, Watcher)
    /\ UNCHANGED <<worktree, manager, seen>>

\* Mutant: last_head_id is not moved.
PollNotifyAgain ==
    /\ Unlocked(Mine)
    /\ PullReturns(Mine, Watcher)
    /\ UNCHANGED <<worktree, manager, seen>>

\* HEAD is read again after pull(): config-changed is posted if it is not the
\* one last seen.
PollNotify ==
    /\ Unlocked(Mine)
    /\ PullReturns(Mine, Watcher)
    /\ seen' = Tip
    /\ UNCHANGED <<worktree, manager>>

-----------------------------------------------------------------------------
\* Another client publishes a commit to a branch, or makes the branch.
PeerPublishes(n, tree) ==
    /\ MayAuthor
    /\ tree # EmptyTree
    /\ commits' = Append(commits, NewCommit(commits,
                     IF server[n] = NoCommit THEN <<>> ELSE <<server[n]>>, tree))
    /\ server' = [server EXCEPT ![n] = Len(commits) + 1]
    /\ UNCHANGED <<clone, pulling, pushing, worktree, manager, seen>>

\* The repository comes from connectRemote(), and the watcher is made for it.
Connected(n) ==
    /\ Idle
    /\ Connect(Mine, n)
    /\ worktree' = commits[server[n]].tree
    /\ seen' = server[n]
    /\ UNCHANGED manager

ManagerNext ==
    \/ \E p \in Paths, content \in Content : WriteConfig(p, content)
    \/ PublishCommit \/ PublishPush \/ PublishRefused \/ PublishEnd
    \/ SyncFetch \/ SyncChoose \/ SyncMerge \/ SyncEnd
    \/ \E n \in Branches :
          \/ SwitchEnvironment(n) \/ ApplyProposal(n) \/ ProposeCall(n)
          \/ \E x \in CommitIds : CreateEnvironment(n, x)
    \/ \E p \in Paths : ProposeReadFile(p) \/ ProposeWrite(p)
    \/ ProposeList \/ ProposeBranch \/ ProposeSwitch \/ ProposeCommit \/ ProposeBack
    \/ ProposeRaises

WatcherNext == PollFetch \/ PollChoose \/ PollMerge \/ PollRaises \/ PollNotify

ConfigNext ==
    \/ ManagerNext
    \/ WatcherNext
    \/ \E n \in Branches : Connected(n) \/ \E tree \in Tree : PeerPublishes(n, tree)

ConfigSpec == ConfigInit /\ [][ConfigNext]_configVars
-----------------------------------------------------------------------------
\* A proposal is a branch of its own: until it is pushed its commit is on the
\* branch it was made for and not on the one it was called on, and the manager
\* is back there - although the watcher pulls between any two steps of
\* proposeChanges() and may merge something into either branch.
ProposalIsApart ==
    manager.target # NoBranch /\ manager.id # NoCommit =>
        /\ Reaches(commits, Here.branch[manager.target], manager.id)
        /\ manager.base # NoBranch =>
              /\ ~Reaches(commits, Here.branch[manager.base], manager.id)
              /\ manager.at \in {"committed", "pushing"} => Here.head.branch = manager.base

\* What publish() and proposeChanges() push contains what they committed: the
\* branch is looked up again when the push begins, and the watcher may have
\* merged something into it, or other clients moved the remote, since.
PushCarriesCommit ==
    manager.at = "pushing" => Reaches(commits, pushing[Mine].new, manager.id)

\* The poll loop of AbstractWatchDataProviderBase runs for ever, and a push
\* ends, by the server's answer or with the connection.
Fairness == WF_configVars(WatcherNext) /\ WF_configVars(PublishEnd)

FairConfigSpec == ConfigSpec /\ Fairness

\* "Periodically syncs with the remote and notifies observers when changes are
\* detected": once HEAD stays on a branch, the last commit observers were told
\* of comes to contain all that the remote has there, whatever the manager
\* does meanwhile and however its own pulls and the watcher's overlap - if
\* conflicts are merged ("ours", "theirs"), not just detected.
RemoteChangeIsNoticed ==
    \A n \in Branches :
        <>[](Here.head.branch = n /\ Tip # NoCommit) =>
            <>[](server[n] # NoCommit =>
                    seen # NoCommit /\ Reaches(commits, seen, server[n]))

-----------------------------------------------------------------------------
\* What comments and documentation say and the code does not do.

\* "Publishes staged changes by committing and pushing": publish() returns only
\* when its commit is on a branch of the remote.
PublishReachesRemote ==
    [][manager.at \in {"committed", "pushing"} /\ manager'.at = "idle" =>
          \E n \in Branches : server'[n] # NoCommit /\
              Reaches(commits', server'[n], manager.id)]_configVars
=============================================================================
