--------------------------- MODULE GitRepository ---------------------------
(***************************************************************************)
(* A virtual GitRepository (QoreGitRepository with m_virtual set): the     *)
(* working tree is the map m_virtual_tree, there is no index and no        *)
(* working directory.  Every method holds m_lock from its first line to    *)
(* its return, so each is one action - except merge() with the "callback"  *)
(* strategy, which analyses under the lock, calls the resolver with the    *)
(* lock released, and applies the resolutions under the lock again: other  *)
(* threads, and the resolver itself, call any method in between.           *)
(*                                                                         *)
(* A guard that fails is the method raising (or, for a merge, returning)   *)
(* without a change of state.  A reference argument is a branch name, a    *)
(* tag name or a commit id; a commit id names every commit, so an          *)
(* operation that only needs the commit quantifies over CommitIds.         *)
(***************************************************************************)
EXTENDS GitHistory

CONSTANTS
    Threads,    \* the threads that may be inside merge() with a resolver
    NoMerge,    \* a thread that is not
    Inside,     \* the pairs <<m, n>> of names, both of branches or both of
                \*   tags, where n is m followed by "/" and more
    MayAddRemote,   \* TRUE if addRemote() may be called
    Cancellable,    \* TRUE if a thread may be cancelled inside a method
    MaxCommits  \* bound: commits that are created

ASSUME BoundAssumption ==
    MaxCommits \in Nat /\ MayAddRemote \in BOOLEAN /\ Cancellable \in BOOLEAN

ASSUME NameAssumption ==
    Inside \subseteq (Branches \X Branches) \cup (TagNames \X TagNames)

VARIABLES
    vtree,      \* m_virtual_tree
    inMemory,   \* m_in_memory: no remote yet, the object store is in memory
    merging,    \* what merge() keeps in its locals while its resolver runs
    edited,     \* history: paths written or deleted since vtree was last
                \*   made equal to a commit's tree
    torn        \* history: the last repopulation of vtree was cancelled

workVars == <<vtree, edited, torn>>
vars == <<commits, branch, tag, head, vtree, inMemory, merging, edited, torn>>

\* our_commit, their_commit and merge_index; the object store they belong to;
\* and, for the record, the branch HEAD was on.
PendingMerge ==
    [ours : CommitIds, theirs : CommitIds, index : MergeIndex, inMemory : BOOLEAN,
     onto : Branches \cup {NoBranch}]

TypeOK ==
    /\ HistoryTypeOK
    /\ vtree \in Tree
    /\ inMemory \in BOOLEAN
    /\ merging \in [Threads -> PendingMerge \cup {NoMerge}]
    /\ edited \in SUBSET Paths
    /\ torn \in BOOLEAN

Init ==
    /\ HistoryInit
    /\ vtree = EmptyTree
    /\ inMemory = TRUE
    /\ merging = [t \in Threads |-> NoMerge]
    /\ edited = {}
    /\ torn = FALSE

-----------------------------------------------------------------------------
\* What callers read.
HeadTree == TreeAt(commits, HeadCommit)

\* readFile(), fileExists(): the working tree first, then HEAD's tree.
ReadFile(p) == IF vtree[p] # Absent THEN vtree[p] ELSE HeadTree[p]
FileExists(p) == ReadFile(p) # Absent

\* getStatus() of a virtual repository: every path of the working tree.
Status == {p \in Paths : vtree[p] # Absent}

\* A name resolves to a tag before a branch (the order of git_revparse_single).
Resolve(n) ==
    IF n \in TagNames /\ tag[n] # NoCommit THEN tag[n]
    ELSE IF n \in Branches THEN branch[n] ELSE NoCommit

\* On disk a reference is a file, so that no name may lie inside another; the
\* in-memory reference store is a map that takes any names.
Fits(n, refs) ==
    \A m \in DOMAIN refs :
        refs[m] # NoCommit => <<m, n>> \notin Inside /\ <<n, m>> \notin Inside

-----------------------------------------------------------------------------
\* Mutant: refilled without being cleared.
PopulateOver(tree) ==
    /\ vtree' = [p \in Paths |-> IF tree[p] # Absent THEN tree[p] ELSE vtree[p]]
    /\ edited' = {}
    /\ torn' = FALSE

\* The working tree is cleared and refilled from a tree.
Populate(tree) ==
    /\ vtree' = tree
    /\ edited' = {}
    /\ torn' = FALSE

\* The cancellation check inside the refill fires: it raises with the part
\* refilled so far in place.  Which files come first is abstracted.
PopulateCancelled(tree) ==
    /\ Cancellable
    /\ \E kept \in SUBSET {p \in Paths : tree[p] # Absent} :
          /\ \E p \in Paths \ kept : tree[p] # Absent
          /\ vtree' = [p \in Paths |-> IF p \in kept THEN tree[p] ELSE Absent]
    /\ edited' = {}
    /\ torn' = TRUE

WriteFile(p, content) ==
    /\ vtree' = [vtree EXCEPT ![p] = content]
    /\ edited' = edited \cup {p}
    /\ UNCHANGED <<historyVars, inMemory, merging, torn>>

DeleteFile(p) ==
    /\ vtree' = [vtree EXCEPT ![p] = Absent]
    /\ edited' = edited \cup {p}
    /\ UNCHANGED <<historyVars, inMemory, merging, torn>>

\* commit(): the whole working tree becomes a commit on HEAD's; vtree is not
\* cleared.  git_commit_create() refuses a root commit if Main has a tip.
Commit ==
    /\ vtree # EmptyTree
    /\ Len(commits) < MaxCommits
    /\ \/ FirstCommit(vtree) /\ (inMemory \/ Fits(Main, branch))
       \/ Grow(<<>>, vtree)
    /\ edited' = {}
    /\ torn' = FALSE
    /\ UNCHANGED <<vtree, inMemory, merging>>

-----------------------------------------------------------------------------
\* Mutant: git_branch_create() with force.
CreateBranchForced(n, c) ==
    /\ branch' = [branch EXCEPT ![n] = c]
    /\ UNCHANGED <<commits, tag, head, workVars, inMemory, merging>>

\* createBranch(): git_branch_create() without force, from any commit.
CreateBranch(n, c) ==
    /\ inMemory \/ Fits(n, branch)
    /\ AddBranch(n, c)
    /\ UNCHANGED <<workVars, inMemory, merging>>

\* Mutant: the reference is deleted without asking whether HEAD is on it.
DeleteBranchReference(n) ==
    /\ branch[n] # NoCommit
    /\ branch' = [branch EXCEPT ![n] = NoCommit]
    /\ UNCHANGED <<commits, tag, head, workVars, inMemory, merging>>

\* deleteBranch(): git_branch_delete() refuses the branch HEAD is on.
DeleteBranch(n) ==
    /\ branch[n] # NoCommit
    /\ DropBranch(n)
    /\ UNCHANGED <<workVars, inMemory, merging>>

CreateTag(n, c) ==
    /\ inMemory \/ Fits(n, tag)
    /\ AddTag(n, c)
    /\ UNCHANGED <<workVars, inMemory, merging>>

DeleteTag(n) ==
    /\ tag[n] # NoCommit
    /\ DropTag(n)
    /\ UNCHANGED <<workVars, inMemory, merging>>

\* checkout() by name: the tree of what the name resolves to, then HEAD: on
\* the branch of that name if there is one, else detached.
CheckoutName(n) ==
    /\ Resolve(n) # NoCommit
    /\ Populate(commits[Resolve(n)].tree)
    /\ SwitchHead(IF n \in Branches /\ branch[n] # NoCommit
                  THEN SymbolicTo(n) ELSE DetachedAt(Resolve(n)))
    /\ UNCHANGED <<inMemory, merging>>

CheckoutCommit(c) ==
    /\ Populate(commits[c].tree)
    /\ SwitchHead(DetachedAt(c))
    /\ UNCHANGED <<inMemory, merging>>

\* checkout() cancelled: it raises before HEAD moves.
CheckoutCancelled(c) ==
    /\ PopulateCancelled(commits[c].tree)
    /\ UNCHANGED <<historyVars, inMemory, merging>>

-----------------------------------------------------------------------------
\* merge() of commit t that is ahead of HEAD.
IsAhead(t) ==
    /\ HeadCommit # NoCommit
    /\ t # HeadCommit
    /\ Reaches(commits, t, HeadCommit)

MergeFastForward(t) ==
    /\ IsAhead(t)
    /\ Populate(commits[t].tree)
    /\ FastForward(t)
    /\ UNCHANGED <<inMemory, merging>>

MergeFastForwardCancelled(t) ==
    /\ IsAhead(t)
    /\ PopulateCancelled(commits[t].tree)
    /\ UNCHANGED <<historyVars, inMemory, merging>>

\* Neither commit has the other in its history: a three-way merge.
HasDiverged(t) ==
    /\ HeadCommit # NoCommit
    /\ ~Reaches(commits, t, HeadCommit)
    /\ ~Reaches(commits, HeadCommit, t)

\* Mutant: the commit is created on no reference, then HEAD's is redirected.
CreateMergeCommitUnchecked(ours, theirs, tree) ==
    /\ Len(commits) < MaxCommits
    /\ commits' = Append(commits, NewCommit(commits, <<ours, theirs>>, tree))
    /\ MoveHead(Len(commits) + 1)
    /\ UNCHANGED tag
    /\ Populate(tree)

\* Mutant: the working tree is not refilled from the merge index.
CreateMergeCommitOnly(ours, theirs, tree) ==
    /\ Len(commits) < MaxCommits
    /\ HeadCommit = ours
    /\ Grow(<<theirs>>, tree)
    /\ UNCHANGED workVars

(***************************************************************************)
(* createMergeCommit(): git_commit_create() on the reference HEAD now      *)
(* designates refuses if its tip is no longer the first parent.  The       *)
(* commit is in place before the working tree is refilled.                 *)
(***************************************************************************)
CreateMergeCommit(ours, theirs, tree) ==
    /\ Len(commits) < MaxCommits
    /\ HeadCommit = ours
    /\ Grow(<<theirs>>, tree)
    /\ Populate(tree) \/ PopulateCancelled(tree)

MergeClean(t) ==
    /\ HasDiverged(t)
    /\ \E idx \in MergeIndexes(commits, HeadCommit, t) :
          /\ Conflicted(idx) = {}
          /\ CreateMergeCommit(HeadCommit, t, idx)
    /\ UNCHANGED <<inMemory, merging>>

\* Strategies "ours" and "theirs".
MergeFavor(t) ==
    /\ HasDiverged(t)
    /\ \E idx \in MergeIndexes(commits, HeadCommit, t), side \in {HeadCommit, t} :
          /\ Conflicted(idx) # {}
          /\ CreateMergeCommit(HeadCommit, t, TakeSide(idx, commits[side].tree))
    /\ UNCHANGED <<inMemory, merging>>

\* Strategy "callback", phase 1: analysed, conflicts collected, lock released.
MergeAsk(thread, t) ==
    /\ merging[thread] = NoMerge
    /\ HasDiverged(t)
    /\ \E idx \in MergeIndexes(commits, HeadCommit, t) :
          /\ Conflicted(idx) # {}
          /\ merging' = [merging EXCEPT ![thread] =
                [ours |-> HeadCommit, theirs |-> t, index |-> idx,
                 inMemory |-> inMemory, onto |-> head.branch]]
    /\ UNCHANGED <<historyVars, workVars, inMemory>>

\* Mutant: conflicts the resolver left are not looked for.
MergeResolvedPartly(thread) ==
    LET m == merging[thread]
    IN  /\ m # NoMerge
        /\ m.inMemory = inMemory
        /\ CreateMergeCommit(m.ours, m.theirs, m.index)
        /\ merging' = [merging EXCEPT ![thread] = NoMerge]
        /\ UNCHANGED inMemory

\* Phase 3: the resolver gave content for every conflict.  The commits found
\* in phase 1 must still belong to the repository object in use.
MergeResolved(thread) ==
    LET m == merging[thread]
    IN  /\ m # NoMerge
        /\ m.inMemory = inMemory
        /\ \E chosen \in [Conflicted(m.index) -> Blobs] :
              CreateMergeCommit(m.ours, m.theirs,
                  [p \in Paths |-> IF p \in DOMAIN chosen
                                   THEN chosen[p] ELSE m.index[p]])
        /\ merging' = [merging EXCEPT ![thread] = NoMerge]
        /\ UNCHANGED inMemory

\* The resolver raised, was cancelled or left a conflict, no_commit was set,
\* or the commit was refused: merge() ends with nothing changed.
MergeEnds(thread) ==
    /\ merging[thread] # NoMerge
    /\ merging' = [merging EXCEPT ![thread] = NoMerge]
    /\ UNCHANGED <<historyVars, workVars, inMemory>>

-----------------------------------------------------------------------------
\* What is left of references written to files, outer names first.
OnDisk(refs) ==
    [n \in DOMAIN refs |->
        IF \E m \in DOMAIN refs : refs[m] # NoCommit /\ <<m, n>> \in Inside
        THEN NoCommit ELSE refs[n]]

\* migrateToDisk(): objects, references and HEAD are copied into a fresh bare
\* repository, whose own HEAD stands if there is none to copy.  A reference
\* that cannot be written there is skipped without an error.
MigrateToDisk ==
    /\ inMemory
    /\ inMemory' = FALSE
    /\ branch' = OnDisk(branch)
    /\ tag' = OnDisk(tag)
    /\ head' = IF head = NoHead THEN SymbolicTo(DefaultBranch) ELSE head
    /\ UNCHANGED commits

\* addRemote(): the first remote takes the repository out of memory; after
\* that, remotes change nothing that is modelled here.
AddRemote ==
    /\ MayAddRemote
    /\ MigrateToDisk
    /\ UNCHANGED <<workVars, merging>>

Next ==
    \/ \E p \in Paths : DeleteFile(p) \/ \E content \in Blobs : WriteFile(p, content)
    \/ Commit
    \/ \E n \in Branches : DeleteBranch(n) \/ \E c \in CommitIds : CreateBranch(n, c)
    \/ \E n \in TagNames : DeleteTag(n) \/ \E c \in CommitIds : CreateTag(n, c)
    \/ \E n \in Branches \cup TagNames : CheckoutName(n)
    \/ \E c \in CommitIds :
          \/ CheckoutCommit(c)
          \/ CheckoutCancelled(c)
          \/ MergeFastForward(c)
          \/ MergeFastForwardCancelled(c)
          \/ MergeClean(c)
          \/ MergeFavor(c)
          \/ \E thread \in Threads : MergeAsk(thread, c)
    \/ \E thread \in Threads : MergeResolved(thread) \/ MergeEnds(thread)
    \/ AddRemote

Spec == Init /\ [][Next]_vars

-----------------------------------------------------------------------------
\* Off the paths edited since, the working tree is HEAD's tree: whatever
\* order writes, commits, checkouts, fast-forwards and merges (one of another
\* thread finishing included) come in, a commit() never drops or reverts a
\* file its caller did not touch - unless a repopulation was cancelled, or a
\* tag hides a branch of the same name (Resolve).
WorkingTreeMatchesHead ==
    ~torn => \A p \in Paths \ edited : vtree[p] = HeadTree[p]

\* A tree that merges o and t takes every change only one of them made since
\* their merge base.
TakesBothSides(cs, o, t, tree) ==
    \A b \in MergeBases(cs, o, t), p \in Paths :
        MergeBases(cs, o, t) = {b} =>
            /\ cs[o].tree[p] = cs[b].tree[p] => tree[p] = cs[t].tree[p]
            /\ cs[t].tree[p] = cs[b].tree[p] => tree[p] = cs[o].tree[p]

\* No merge commit loses a change of a parent, although its tree was computed
\* before the resolver ran and it is committed after (phases 1 and 3 of merge).
MergeKeepsBothSides ==
    \A c \in CommitIds : Len(commits[c].parents) = 2 =>
        TakesBothSides(commits, commits[c].parents[1], commits[c].parents[2],
                       commits[c].tree)

\* The repository keeps the promises of GitHistory.
ImplementsHistory == HistorySpec

-----------------------------------------------------------------------------
\* What documentation says and the code does not do.

\* merge() "merges the specified ref into the current branch": a merge whose
\* resolver was asked about one branch does not commit on another.
MergeLandsOnItsBranch ==
    [][\A thread \in Threads : MergeResolved(thread)
          => head.branch = merging[thread].onto]_vars
=============================================================================
