# Verification of module-git

TLA+ specifications of the Qore `git` module: a C++ class around libgit2
(`GitRepository`) and the Qore classes built on it (`GitConfigManager`,
`GitConfigWatcher`, `GitForgeHelper`, `GitDataProvider`).  The modules are
model-checked with TLC and the theorems are proved with TLAPS.

Sources are named by their path under `src/`; `Q` stands for
`src/src/QoreGitRepository.cpp`.

## 1. The system

### Components

| component | state it keeps | operations | what makes it correct |
|---|---|---|---|
| Virtual `GitRepository` (`Q`, `QoreGitRepository.h`) | `m_virtual_tree` (path to content), `m_repo` (objects, references, HEAD), `m_in_memory`, `m_lock` | `writeFile`, `deleteFile`, `readFile`, `fileExists`, `commit`, `createBranch`, `deleteBranch`, `checkout`, `createTag`, `deleteTag` | the working tree is HEAD's tree wherever nobody edited it; HEAD always leads to a commit; no branch loses a commit |
| `merge()` (`Q:2993-3487`) | its locals: two commits, a merge index, the resolutions | fast-forward, clean merge, strategies `detect`, `ours`, `theirs`, `callback`; `no_commit` | a merge commit takes every change only one side made; it may only grow on the commit it was computed from |
| Migration to disk (`Q:354-523`, `git-module.cpp:39-62`) | a temporary directory, a process-wide registry of them | `addRemote` (the first one) | no object, reference or HEAD is lost; every directory is removed once |
| In-memory stores (`QoreGitMemoryODB.cpp`, `QoreGitMemoryRefDB.cpp`) | maps of objects and references | libgit2's back end interfaces | a reference written is the one read; a lookup by prefix is ambiguous exactly if two objects match |
| Disk `GitRepository` (`Q`) | index, working directory, stashes, and again `m_virtual_tree` as a cache | `add`, `unstage`, `writeFile`, `deleteFile`, `commit`, `checkout`, `merge`, `stash`, `stashPop`, ... | HEAD, index and working directory agree on a file nobody touched; no edit is lost that is in no commit and no stash |
| Remotes (`Q:2125-2280`, `Q:3489-3545`, `QC_GitRepository.qpp`) | remote configuration, tracking references, FETCH_HEAD | `fetch`, `push`, `pull`, `connectRemote` | a server's branch only moves forward; pull merges the branch that was fetched into the branch it was started on |
| `GitConfigManager` | `repo`, `last_head_id` | `sync`, `publish`, `switchEnvironment`, `proposeChanges`, `applyProposal`, `restoreTag` | what is published reaches the remote; a failing step does not leave the manager elsewhere |
| `GitConfigWatcher` | `last_head_id`, observers | `pollOnce` | every remote change, and every conflict, is reported in the end |
| `GitForgeHelper` | a lazily made REST client and project id under one lock | pull requests on GitHub and GitLab | a call returns; the client is made once |
| Path and URL validation (`Q`) | none | `validateRepoPath`, `parseRemoteHostPort` | pure functions |
| Queries (`log`, `diff`, `blame`, `status`, ...) | none | none that changes state | |
| `GitDataProvider`, language binding, build | none of their own | wrappers, types, argument conversion | |

### Interactions

* Every `GitRepository` method takes `m_lock` first and keeps it until it
  returns, `fetch` and `push` with their network I/O included.  There are two
  exceptions: `merge()` with the `callback` strategy releases the lock while
  the resolver runs (between `Q:3383` and `Q:3412`), and `pull()` is three
  critical sections in a row (fetch, choice of the tracking reference, merge).
* The resolver is user code: it, or any other thread, may call every method of
  the same repository before `merge()` goes on.
* `addRemote()` replaces the libgit2 repository object under the feet of a
  pending merge: the commits that merge holds belong to the object that is gone.
* `GitConfigManager` and `GitConfigWatcher` call one repository, usually a
  shared one, and keep a copy of its HEAD.
* A long loop in a method polls for the cancellation of its thread and raises.

### What is hard here

Interleavings of a pending merge with everything else; state computed before
the lock is released and committed after; the failure of one step of several
(a working tree cleared and half refilled, references copied one by one, a
commit made and not pushed); a cached or saved copy that is stale when it is
used (`m_virtual_tree`, `last_head_id`, the merge index); long legal sequences
(deleting branches, detaching HEAD, migrating) that end in a state nobody
foresaw.  `PROJECT.json` lists each hazard at its line with the properties
that cover it.

## 2. The modules

    CommitGraph            commits, trees, ancestry, three-way merge (pure)
      CommitGraphProofs                            lemmas
      GitHistory           abstract specification: what a repository promises
        GitRepository      the virtual repository, merge() in its phases
          MCGitRepository, MCDivergedMerge         instances for TLC
          GitRepositoryProofs, GitMergeProofs      theorems
        GitDisk            a repository opened on a directory
          MCGitDisk                                instance for TLC
          GitDiskProofs                            theorems
        GitHistoryProofs                           theorems
      GitServer            abstract specification: what a remote promises
        GitRemote          repositories and threads around a remote
          MCGitRemote                              instance for TLC
          GitRemoteProofs                          theorems, those of GitServer included
          GitConfig        manager and watcher on one of them
            MCGitConfig                            instance for TLC
            GitConfigProofs                        theorems
    GitForge               the lock of GitForgeHelper
      GitForgeProofs                               theorems

### CommitGraph

The object model the code stands on.  A commit is a record in the sequence
`commits`: its parents, its tree, and the set of commits it reaches, which is a
function of its parents kept with it so that no recursion is needed.
`MergeBases`, `BaseContents`, `MergedPath` and `MergeIndexes` are the results of
libgit2's merge analysis and `git_merge_commits()` as the code uses them.
`Conflicted` and `TakeSide` are the module's own code: which paths `merge()`
takes for conflicts, and what `ours` and `theirs` put there
(`applyResolvedContent`, deletion included).

### GitHistory

The abstract specification: commits are only added; a commit grows on HEAD's
commit and moves the one reference HEAD designates; other references are
created and deleted but never redirected; HEAD leads to a commit once there is
one.  Its actions are also the building blocks of the detailed specification.

### GitRepository

| variable | code |
|---|---|
| `commits`, `branch`, `tag`, `head` | what `m_repo` holds: objects, `refs/heads`, `refs/tags`, `HEAD` |
| `vtree` | `m_virtual_tree` |
| `inMemory` | `m_in_memory`; it also tells the two libgit2 repository objects apart |
| `merging` | per thread, the locals of a `merge()` whose resolver is running |
| `edited`, `torn` | history variables: the paths written or deleted since `vtree` was last some commit's tree; whether its last refill was cancelled |

There is one action per method, and more where a method has outcomes that
differ in state: `checkout()` is `CheckoutName`, `CheckoutCommit` and
`CheckoutCancelled`; `merge()` is `MergeFastForward`, `MergeFastForwardCancelled`,
`MergeClean`, `MergeFavor` (strategies `ours` and `theirs`), and for the
callback strategy `MergeAsk` (phase 1), `MergeResolved` (phases 2 and 3) and
`MergeEnds` (the resolver failed, was cancelled, left a conflict, `no_commit`
was set, or the commit was refused).  A call that raises before it changes
anything, the strategy `detect`, and `up-to-date` are not steps.

What is abstracted in `GitRepository` and `CommitGraph`, and why that is sound
for the properties:

* A file is one hunk: different changes of both sides conflict.  Line merging
  inside a file and rename detection are libgit2's; neither moves a reference.
* Paths do not nest, so a tree is a function from paths to contents.  The
  translation between the flat map and nested trees is not modelled.
* A new commit gets a fresh number.  Two commits with the same content, parents,
  author and second would be one object in git; then the reference moves to an
  object that already has the same ancestors, which the properties cannot tell
  from a new one.
* With several merge bases that differ, the ancestor content may be what either
  base holds or a conflict: libgit2 merges the bases first.
* A cancellation may stop a refill after any part of the files.
* A name resolves to a tag before a branch, which is libgit2's order.

Facts of libgit2 the model relies on: `git_commit_create` with a reference name
refuses if the reference's tip is not the first parent, and refuses parents of
another repository object (after a migration); `git_branch_create` without force
refuses an existing name and `git_branch_delete` the branch of HEAD; a reference
on disk cannot lie inside another (`dev` and `dev/x`), one in the memory store can.

### GitDisk

| variable | code |
|---|---|
| `commits`, `branch`, `tag`, `head` | what `m_repo` holds, as above; HEAD of a repository without commits leads to `DefaultBranch` |
| `index` | the index `m_repo` keeps in memory, `Conflict` for a path with stages 1 to 3 |
| `workdir` | the files of the working directory |
| `vtree` | `m_virtual_tree`, which `readFile()` looks into first in this mode, too |
| `stashes` | the stash, most recent first: HEAD's tree of that moment and the files |
| `touched`, `behind` | history variables: the paths whose content is not settled; whether HEAD or the index moved without the other |

Each method is one action, since all of it runs under `m_lock`; `EditFile` is
the program around it that writes into the working directory.  `WriteFileFails`,
`DeleteFileFails` and `CheckoutHeadStays` are the failures after which the
method has changed part of its state, and `DeleteFileStays` is the one nobody
looks at, a `::remove()` that fails at `Q:896` (all under `Failures`).  `CheckoutTree` is
`git_checkout_tree()` with `GIT_CHECKOUT_SAFE` as `checkout()` and the
fast-forward of `merge()` call it: it raises with nothing changed if the index
has conflicts or a file in its way was edited.  `MergeCommit` is `merge()` of
diverged commits at its last step, in which neither index nor working directory
follows HEAD (`Q:2942` refreshes the virtual tree only); the phases before are
in `GitRepository`.  `Stash` and `StashPop` are libgit2's work.  Where libgit2's
outcome depends on more than the model has (a stashed file that the index does
not have, an added file that is popped), the model has both.

`History == INSTANCE GitHistory` states the refinement: the first commit goes to
the branch HEAD led to (`Main <- DefaultBranch`), and the HEAD of a repository
without commits, which leads to a branch that does not exist, is `NoHead`.

### GitServer

The abstract specification of a remote as its clients may rely on it: commits
are added by anybody, and a branch, once there, only moves to commits that
contain the one it had.

### GitRemote

| variable | code |
|---|---|
| `commits` | the commit objects of all repositories; who has which is in the references |
| `server` | the branches of the remote |
| `clone` | per repository object: `refs/heads`, `refs/remotes/origin`, `FETCH_HEAD`, `HEAD` |
| `pulling` | per repository and thread, where `pull()` is between its three critical sections, the branch it chose and what `merge()` returned |
| `pushing` | per repository, the push under way: `m_lock` is held while it is not `NoPush` |

`push()` is `PushStart`, where the server tells its branches and a push that is
not a fast-forward raises, and `PushEnd` or `PushBreaks`, with the server's
answer or without.  Nothing else happens in that repository in between
(`Unlocked`); every other repository goes on.  `pull()` is `PullFetch`,
`PullChoose`, `PullMerge`, or `PullRaises`, and `PullReturns` when its caller has
the result.  `fetch()`, `connectRemote()` and the local methods are one action
each.  The local ones are those of `GitRepository` without the working tree and
without the resolver.  A new clone's HEAD is on `DefaultBranch`, as libgit2
leaves it.  `createBranch()` starts at any commit the references and HEAD reach
(`Named`), an older one included; one that only its id leads to, such as a commit
made on a detached HEAD that was left, is not named.  `merge()` runs with one of
`Strategies` or, without options, with "detect".

What the model takes for facts about libgit2 and the server, which are external:

* The server speaks the smart protocol: a branch is updated if it still has the
  commit the client was told.  The transport that writes into a local directory
  has no such check, and `ServerMovesForward` is no promise for it.
* A refused reference is reported to `push_update_reference` only, and
  `git_remote_push` returns 0.
* A fetch reads the server's branches at one moment and the clone stays locked
  until it ends, so it is one action; one that fails changes no reference.  No
  fetch prunes.
* `FETCH_HEAD` as a name resolves to the first line of the file.  Its order is
  left open: any branch of the server may come first.
* A push on a detached HEAD sends `HEAD:HEAD`, which the server refuses.

### GitConfig

One repository of `GitRemote`, called `Mine`, its working tree, and two threads:
the manager's and the watcher's.  `manager` is where a method of
`GitConfigManager` is between two calls of the repository, and its locals;
`seen` is the watcher's `last_head_id`; the kinds of event it posts are left
out.  `publish()` is `PublishCommit`, then `PublishPush` or
`PublishRefused`, then `PublishEnd`; `sync()` is `SyncFetch`, `SyncChoose`,
`SyncMerge`, `SyncEnd`; `proposeChanges()` is `ProposeCall` (`currentBranch()`),
`ProposeList` (`status()`), `ProposeReadFile` for each file listed,
`ProposeBranch`, `ProposeSwitch`, `ProposeWrite` for each file read,
`ProposeCommit`, `ProposeBack` and then pushes as `publish()` does;
`ProposeRaises` is any of these calls raising; `pollOnce()` is `PollFetch`, `PollChoose`, `PollMerge` or `PollRaises`, and
`PollNotify`.  Other clients are `PeerPublishes`: a commit appears on a branch of
the remote.

`proposeChanges()` has no `try` around its calls but the push
(`GitConfigManager.qc:268-297`): when one of them raises, the method ends where it
is.  A branch may have been made, a cancelled checkout may have left a part of
its files in the working tree (`CheckoutCancelled`), and from `ProposeSwitch` on
HEAD stays on the branch of the proposal, where the next `publish()` commits.
`switchEnvironment()` can be cancelled in the same way.  `applyProposal()` merges
without options, that is with the strategy "detect".

Collapsed: the check at the head of `sync()` and the fetch it leads to are one
step.  The manager's `last_head_id`, which only feeds the return value of
`sync()`, is left out.  So are merges whose refill is cancelled, which
`GitRepository` has, and a `checkout()` whose write of HEAD to the disk fails,
which `GitDisk` has.

### GitForge

Any number of threads call one `GitForgeHelper`.  `at` is where each of them is:
waiting for `rest_mutex` in `getGitLabProjectId()`, in the `restCall()` that asks
for the id while the lock is held, in the `restCall()` of its own request.  `rest`
and `projectId` are the two things that are made once; an answer without an id
(`int(resp.id)` is 0) leaves the project id unknown, and the constructor of the
client may raise (`MakeFails`).  `getRestClient()` reads
`rest_client` without the lock and takes the lock only to make one; `LookUpRaises`
is the second lock of the same thread, which raises.  What a request carries is
left out; it is answered or it fails.

### Bounds of the models

`MaxCommits` bounds the commits, in the guards of the actions that make one;
in `GitRemote` and `GitConfig`, `MaxAuthored` bounds those that are not merges;
in `GitDisk`, `MaxStashes` bounds the stashes.  Three instances bound more:
`MCGitDisk` the operations (`MaxSteps`), `MCGitRepository` the commits of a history
in which there is a tag or a remote (`MaxAside`).
`MCGitConfig` the merge commits (`MaxMerges`), by a state constraint: a guard would
leave two pulls waiting for each other.
Nothing else is unbounded.

## 3. What is checked

| run | instance | shows |
|---|---|---|
| `core_merge` | 1 path, 3 contents, 2 branches, 1 thread, 4 commits; with a tag or after the migration, 3 commits; HEAD of a fresh disk repository on the other branch | `TypeOK`, `HeadAlwaysResolves`, `WorkingTreeMatchesHead`, and that the repository implements `GitHistory` (`ImplementsHistory`) |
| `diverged_merge` | 2 paths, 2 contents, 2 threads, 5 commits, cancellation, migration, started from every pair of diverged branches | `TypeOK`, `TipsMoveForward`, `MergeKeepsBothSides`, `WorkingTreeMatchesHead` |
| `disk` | 1 path, 2 contents, 2 branches, 5 commits, 1 stash, failing writes; from every history of three commits, 5 operations | `DiskTypeOK`, `UntouchedIsClean`, `NoEditIsLost`, and that the disk repository implements `GitHistory` (`KeepsHistoryPromises`) |
| `remote` | 1 branch, 2 repositories, 1 path, 2 contents, 3 authored and 4 commits in all; strategies `detect`, `theirs` | `TypeOK`, `TrackingIsPublished`, `ServerMovesForward`, and that the remote implements `GitServer` (`ImplementsServer`) |
| `config_watch` | 1 branch, 1 path, 2 contents, 3 authored commits, strategy `theirs` | `ConfigTypeOK`, and under fairness `RemoteChangeIsNoticed` |
| `config_propose` | 2 branches, 1 path, 1 content, 3 authored commits, 2 merges, strategy `theirs`; HEAD of a new clone on the other branch | `ProposalIsApart`, `PushCarriesCommit`, `BranchesMoveForward` |
| `merge_branch` | 1 path, 3 contents, 2 branches, 1 thread | violated: `MergeLandsOnItsBranch` |
| `pull_branch` | 2 branches, 2 repositories | violated: `PullMergesTrackingBranch` |
| `publish_lost` | as `config_watch`, strategy `detect` | violated: `PublishReachesRemote` |
| `disk_read` | as `disk`, no failures | violated: `ReadIsCurrent` |
| `disk_merge` | as `disk`, no failures | violated: `CommitKeepsMerged` |
| `forge_lock` | 3 threads | violated: `RaisesOnlyForRequests` |

Why the bounds are enough. A conflict on one path takes three different
contents (or two and a deletion, where the deleted file is not the last one).
Four commits are a first commit, one commit on each of two branches and a
merge; with a thread inside a resolver this covers a HEAD that moved, moved
back, was detached, or changed branch in between. `diverged_merge` begins where
`createBranch`, `checkout` and `commit` lead to (the initial states are exactly
the reachable states with two branches one commit ahead of a common one and a
clean working tree), so that five commits leave room for two merges that race;
two paths are needed to tell a change of one side from a conflict on another
path, and to see a partly refilled tree. `core_merge` keeps histories with a
tag or a remote to three commits: a tag is a name to start from and to check
out, which two branches and two commits show, and what a migration does to a
merge under way is in `diverged_merge`. Paths, contents and threads are
interchangeable in every action, so they form a symmetry set; branches are not,
because `Main` and `DefaultBranch` are special.

`disk` gets to its third commit by writing, committing, branching and switching
only: that is enough for every shape three commits can have, a diverged pair
included.  From there every operation is possible at every step, `MaxSteps` of
them: a stash (after an edit), a checkout or commit that moves HEAD's tree, and
a pop into a conflict are five, a merge of a diverged pair and the commit that
takes it back two.  One path is enough because a path never looks at another
one except through the guards that refuse a whole call, which the theorems
cover for every number of paths.  One stash, because the model never looks
behind the first.

`remote` starts from a server whose branch has a commit and from clones that are
new or up to date, so that three authored commits are that one and one of each
clone: two pushes that race, a refused one, a pull that merges, and its push
again.  Branches do not interact in the server, and one is enough for what it
promises.  `config_watch` gives the manager and the other client a commit each
after the first and leaves room for the merges of both pulls (eight commits are
never reached); the strategy is `theirs`, since with `detect` a conflict stops
every later pull.  `config_propose` needs two branches for the proposal and its
base, and three authored commits: the base, the proposal, and one of another
client, published before, between or after its steps, on the base branch or on
the proposal's own, so that the watcher merges it into whichever branch HEAD is
on.  The third commit may as well be a publication, a second proposal, or what
is published after a proposal that raised.  Two merges are one of each pull, or
one of a pull and one that applies the proposal; the properties are still checked
in the states the constraint does not go on from, and eight commits are never
reached.  The repository is new or up to date with the remote's first commit.
Its contents are one blob, because the properties are about ancestry.
`BranchesMoveForward` is checked here, where a second branch is created and
switched to between the sections of a pull.

`config_watch` is the only run with fairness, and the only one for liveness:
`WF(WatcherNext)`, because the poll loop of `AbstractWatchDataProviderBase` runs
for ever and logs what it cannot do, and `WF(PublishEnd)`, because a push ends
with the server's answer or with its connection.  Publications are bounded, so
the lock is free from some point on; for a manager that publishes without end
the same property asks for a fair lock in addition.  Nothing is assumed of the
manager or of other clients: they may stop anywhere outside of the network call.

### Disagreements the runs show

* **A merge can land on a branch it was not started on.**  `createMergeCommit()`
  reads HEAD again after the resolver ran (`Q:2911`).  libgit2's check of the
  first parent protects against a HEAD that moved, not against a HEAD on another
  branch at the same commit.
* **`pull()` can merge another branch.**  Without a tracking reference it merges
  `FETCH_HEAD` (`Q:3536`), a branch of another name; and a thread that switches
  branches between its critical sections gets the choice made for the branch
  before.  The documentation promises "the tracking branch into the current
  branch".
* **`publish()` returns although nothing was published.**  It drops every
  `GIT-PUSH-ERROR` (`GitConfigManager.qc:156`), where its comment has the missing
  remote in mind; and a refusal by the server raises no error at all.
* **`readFile()` of a disk repository returns stale content.**  `writeFile()` puts
  the content into `m_virtual_tree` (`Q:802`), `readFile()` looks there first
  (`Q:704`), and `checkout()`, `merge()` and `stash()` leave it alone: after a
  checkout the content of the branch that was left is returned, which is in
  neither HEAD, index nor working directory.
* **The commit after a merge of a disk repository takes the merge back.**
  `createMergeCommit()` moves HEAD and only refreshes the tree of a virtual
  repository (`Q:2942`); the next `commit()` writes the old index as its tree.
* **A GitLab helper made from options never works.**  `getGitLabProjectId()`
  holds `rest_mutex` (`GitForgeHelper.qc:408`) while the `restCall()` inside it
  locks it again to make the client; the `Mutex` raises.  Each call fails the
  same way, since none gets as far as making the client
  (`GitLabFromOptionsIsStuck`).

Three more were met while the code was modelled and have no run of their own:
`status()` of a virtual repository lists committed files as new (`Q:1235`,
against the comment at `Q:1232`); the in-memory reference store accepts `dev` and
`dev/x` together, a disk repository does not, and `migrateToDisk()` ignores the
error (`Q:471`), so `addRemote()` can lose a branch; and `pollOnce()` returns on
an unchanged HEAD (`GitConfigWatcher.qc:101`) before it looks whether the pull
found a conflict.

`WorkingTreeMatchesHead` has two exceptions that come from the code: a refill
that was cancelled (`torn`), and a tag with the name of a branch, where
`checkout()` takes the tree from the tag and HEAD from the branch.

## 4. What is proved

All theorems hold for any number of paths, contents, branches, tags, threads and
commits, under the named assumptions of the modules: `ContentAssumption` and
`RefAssumption` (markers are not contents or names, `Main` and `DefaultBranch` are
branches), `BoundAssumption`, `NameAssumption`, `DiskAssumption`, `MainAssumption`,
`RemoteAssumption`, `ConfigAssumption`.  Nothing is assumed about which
name lies inside which: `Inside` may be any relation.  Where a theorem holds only of some behaviours the
condition is in its statement, as a formula about steps:

* `MigrationsFit`: when `addRemote()` migrates, no existing branch or tag lies
  inside another; otherwise the migration loses one, perhaps the one HEAD is on
  (`Q:471`).
* `CheckoutsAreClear`: a name that is checked out and is both a tag and a branch
  has one commit (`Q:1579`).
* the conditions under which a promise that a run shows violated is kept; they
  are at the end of this section.

| theorem | property | argument |
|---|---|---|
| `HistoryInvariant` | `HistoryInv` | inductive as it stands |
| `FastForwardIsMerge` (a lemma) | | a fact of `MergeIndexes`, for any commits with the ancestry git has |
| `HistoryFastForwards`, `RepositoryFastForwards` | `FastForwardsAreMerges`; not a run of its own | inductive with `GraphInv` |
| `HistoryKept`, `HistoryHeadResolves` | `TipsMoveForward`, `HeadAlwaysResolves` of `GitHistory` | from `HistoryInv` |
| `RepositoryType` | `TypeOK` | inductive together with `CommitsInv` |
| `RepositoryImplementsHistory` | `ImplementsHistory`, if `MigrationsFit` | every step is a step of `GitHistory` or leaves the history alone |
| `RepositoryKeepsHistory` | `TipsMoveForward` | every action, from `CommitsInv` |
| `RepositoryHeadResolves` | `HeadAlwaysResolves`, if `MigrationsFit` | inductive with `HistoryInv` |
| `RepositoryTree` | `WorkingTreeMatchesHead`, if `MigrationsFit` and `CheckoutsAreClear` | inductive with `TypeOK` and `HistoryInv` |
| `MergeLandsWithoutCheckout` | `MergeLandsOnItsBranch`, if no `checkout()` runs while a resolver does | inductive with `TypeOK` (`OntoHead`); no other method switches HEAD (`OnlyCheckoutSwitches`), and a migration ends the pending merges |
| `MergesKeepBothSides` | `MergeKeepsBothSides` | inductive with `Closed` and `PendingInv` |
| `DiskType` | `DiskTypeOK` | inductive together with `HistoryInv` and `FreshHead` (`DiskInv`) |
| `DiskUntouchedIsClean` | `UntouchedIsClean` | inductive with `DiskInv` |
| `DiskNoEditIsLost` | `NoEditIsLost` | every action, from `DiskInv` |
| `DiskImplementsHistory` | `KeepsHistoryPromises` | through the mapping of `History` |
| `CommitKeepsMergedIfSettled` | `CommitKeepsMerged`, if `CommitsWhenSettled` | from `UntouchedIsClean` |
| `ForgeLooksUpOnce` | `OneLookup` | inductive with who holds the lock; not a run of its own |
| `GitLabFromOptionsIsStuck` | | an invariant of a helper for GitLab made from options |
| `OtherHelpersRaiseForRequests` | `RaisesOnlyForRequests`, of all other helpers | inductive: one for GitHub looks no id up, one with a client does not take the lock twice |
| `ServerInvariant`, `ServerKept` | `ServerMovesForward` of `GitServer` | inductive as it stands |
| `RemoteType` | `TypeOK` of `GitRemote` | inductive with the rest of `RemoteInv` |
| `RemoteImplementsServer`, `RemoteMovesForward` | `ImplementsServer`, `ServerMovesForward` | every step is a step of `GitServer` or leaves the remote alone |
| `RemoteTracking` | `TrackingIsPublished` | a tracking reference stays or becomes the server's; the server moves forward; ancestry is transitive |
| `RemoteBranches` | `BranchesMoveForward` | every action, from `RemoteInv` |
| `PullMergesWithoutCheckout` | `PullMergesTrackingBranch`, if the server has its branch when the pull starts and no `checkout()` runs until it ends | inductive with `RemoteInv` (`PullsTrack`); no other method switches HEAD, the fetch of the pull makes the tracking reference, and none is removed (`TrackedStays`) |
| `ConfigType` | `ConfigTypeOK` | inductive with the rest of `ConfigInv` |
| `ProposalStaysApart`, `PublishCarriesCommit` | `ProposalIsApart`, `PushCarriesCommit` | from `ConfigInv` (`ProposalInv`, `PushInv`) |
| `ConfigMovesForward`, `ConfigBranches`, `ConfigTracking` | `ServerMovesForward`, `BranchesMoveForward`, `TrackingIsPublished` of `GitConfig` | a step is one of `GitRemote`'s or a peer's, from `RemoteInv` |
| `PublishArrivesIfUndisturbed` | `PublishReachesRemote`, if `Undisturbed` | inductive with `ConfigInv` (`PublishInv`) |

The strengthenings.  `TipsMoveForward` needs that a commit reaches itself: then
one grown on HEAD's commit reaches HEAD's commit.  `HeadAlwaysResolves` is what
keeps `FirstCommit` from firing twice.  A migration may break it, and so
`GitRepository` has two invariants: `CommitsInv` (types, and every commit reaches
itself), which every step keeps whatever references it loses, and from which
types, forward movement, fast-forwards and merges follow; and `HistoryInv`, which a
migration keeps if it loses none (`MigrationKeepsHistory`), and on which the
refinement rests.  `MergeKeepsBothSides` is about commits that
are made long after their tree was computed, so the invariant says of every
pending merge that its index is still the merge of its two commits
(`PendingInv`), and that a commit reaches only commits that exist (`Closed`), so
that later commits change no merge base.

For `GitDisk` the invariant has to know where HEAD is before there is a commit
(`FreshHead`): only then is the first `commit()` the one `FirstCommit` of
`GitHistory` allows, and after it the mapped HEAD is HEAD itself, so that every
later step is the same action on both sides (`SameHistory`).  `UntouchedIsClean`
rests on the guard of a safe checkout and on a file that the target shares with
HEAD being left alone; `NoEditIsLost` on the same guard, on a stash keeping the
tracked files, and on a working directory never holding a conflict, so that a
pop refused over an edited file is refused over a conflicted one, too.

For `GitRemote` the point is a push that is overtaken: it was a fast-forward of
what the server told when it started.  `RemoteInv` says so of every push under
way (`SoundPush`), and the server takes it only if its branch is still there; so
the update is a forward move although the check and the update are apart.  That
later commits do not change what earlier ones reach comes from `Ancestry`, which
also gives the transitivity `RemoteTracking` needs.  A `pull()` that has chosen
has the name of a branch, which makes the third section's lookup well-defined.
The theorems are about `Spec`, from new clones of a remote that is empty or has
its first commit; the run `remote` starts later, from states `Spec` reaches.
`BranchesMoveForward` is not about the remote but needs the same ancestry: a
branch moves only when HEAD is on it, and then to a commit that is grown on it,
merged into it or, in a fast-forward, contains it; which branch HEAD is on may
have changed since the pull began, so the argument looks at the step and not at
the method it belongs to.

For `GitConfig` the invariant has to say where the manager's commit is at each of
its steps, with the watcher merging into HEAD's branch between any two.  Of a
proposal it says that of all the clone and the remote have, only the proposal's
branch contains the commit (`OnlyOn`), and that HEAD is on that branch or, from
`ProposeBack` on, on the one the method was called on (`OnItsBranch`).  That is
inductive because the commit is new when it is made, so that nothing older
reaches it; because a merge moves HEAD's branch only, to a commit that reaches
what its two parents reach, neither of which reaches the proposal; and because
the remote learns of it when the push has been taken (`PublishEnd`), which ends the
method.  No method of the manager deletes a branch, so the base stays another
branch than the proposal's.  Without `OnlyOn` of the tracking references and of
`FETCH_HEAD` a poll could bring the proposal to the base branch, and the property
alone would not be inductive.  For `publish()` it says that HEAD's branch contains
the commit until the push begins, and the push itself from then on (`PushInv`):
what the watcher merges meanwhile contains it, too.  That the push is
also taken needs more (`PublishInv`): it may begin as soon as the method has
committed, because HEAD stays on its branch and what the watcher fetches and
merges keeps what the remote has within it; and from then on the server's branch
is the one the push was checked against, because of all clients only the manager
writes to it.  `ConfigType`, `ConfigMovesForward`,
`ConfigBranches` and `ConfigTracking` follow with the invariant of `GitRemote`, to
which the other clients' steps are added.  The theorems are about
`ConfigSpec`, which has no fairness.

Two facts about merges rest on the graph alone.  A commit reaches only what is
older (`Earlier`), so there are no cycles (`Acyclic`), and the merge base of two
commits one of which contains the other is the older one: the fast-forward that
`merge()` takes instead of a merge gives the tree of that merge
(`FastForwardsAreMerges`).  Neither needs induction over the graph, because `reach`
is kept with each commit.

The assumptions of the theorems about remotes are `ContentAssumption`,
`MainAssumption` and `RemoteAssumption`; those about `GitConfig` add
`ConfigAssumption` (one repository, two threads).

Liveness, `ENABLED`, induction over data and recursive operators are beyond the
proof system as it is installed; nothing of that kind is claimed as proved.
`RemoteChangeIsNoticed` of `GitConfig`, a liveness property, and the properties
that are violated are model-checked only.  Of the latter, these have a theorem
that names a condition under which the code keeps the promise:

| promise | condition | whose duty it is |
|---|---|---|
| `MergeLandsOnItsBranch` | `NoCheckoutInMerges`: `checkout()` is not called while a resolver runs | callers of `merge()` and their resolvers |
| `PullMergesTrackingBranch` | `NoCheckoutInPulls`, `PullsServerBranches`: `checkout()` is not called in the clone while `pull()` runs; `pull()` is called with a HEAD that has a commit, on a branch the remote has | callers of `pull()` |
| `PublishReachesRemote` | `Undisturbed`: the commit contains what the remote has, no other client publishes to the branch, the connection does not break before the server took the push | partly of no one: two managers of one branch cannot exclude it |
| `CommitKeepsMerged` | `CommitsWhenSettled`: HEAD has not moved alone since the last `commit()` or `stash()` | callers that `merge()` a disk repository |
| `RaisesOnlyForRequests` | the forge is GitHub, or the helper was made with a REST client | who makes the helper |

The first two conditions are about calls and not about what the calls do to HEAD:
that commits, merges, deleted branches, fetches, migrations and other pulls of
other threads leave HEAD where it is, is what the proofs show.  Callers that use a
repository from one thread, with a resolver that does not check out, and pull
branches the remote has, meet them.  Each condition was
dropped, part by part, in a small instance, and TLC then found the property
violated: none has a part that is not needed.  For
`ReadIsCurrent` no condition is stated: the obvious one, that no file is read after
a failed write or a checkout that changed it, is the property over again.
Every invariant and every action property of a passing run is a theorem, under
`MigrationsFit` and `CheckoutsAreClear` where the table says so.

## 5. Not modelled, and what is left

Parts of modelled components:

* **Migration.**  The temporary directory, the guard that removes it when the
  migration fails, and the registry emptied at unload (`git-module.cpp:39-62`).
  A failed migration changes no state of the repository, and a crash leaves a
  directory behind that nothing reads.
* **In-memory stores.**  Prefix lookup of objects and the iterators: loops over
  maps whose keys the models abstract to numbers.
* **Trees.**  `buildTreeFromVirtualTree` and its inverse translate between the
  flat map and nested trees; a file and a directory of one name (`Q:1381`) need
  paths with structure, which no other property asks for.
* **Disk repositories.**  Bare ones, and the interplay with tags and remotes,
  which is that of `GitRepository` and `GitRemote`.  Whether `stash()` of a file
  that is in HEAD and not in the index saves it is left open, and `NoEditIsLost`
  excepts it.
* **Remotes.**  `removeRemote()`, the deletion of local branches (which the
  manager and the watcher never do), tags, refspecs that rename, a branch deleted by
  the server, the resolver in a pull.
* **GitConfigManager.**  `restoreTag()` and the other tag methods; the commit id
  `sync()` compares to tell whether anything changed.
* **GitConfigWatcher.**  The kinds of event it posts.

Left out for good: path and URL validation (string processing; a refused one is
a call that raises before it does anything), the queries, `GitDataProvider`, the
language binding, module initialisation and packaging, because they keep no state
of their own; the network protocol and the object format, which are libgit2's;
the content of the REST requests of `GitForgeHelper`.

What is left to prove: liveness, where the proof system ends
(`RemoteChangeIsNoticed`), and, were a failed migration to be repaired,
`RepositoryImplementsHistory` without its condition.
