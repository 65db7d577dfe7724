------------------------------ MODULE GitDisk ------------------------------
(***************************************************************************)
(* A GitRepository opened on a directory (QoreGitRepository with m_virtual *)
(* clear): HEAD's tree, the index and the working directory are three      *)
(* trees, and m_virtual_tree, which a virtual repository lives on, is a    *)
(* fourth that reads look into first.  Every method holds m_lock, so each  *)
(* is one action; the program around it edits the working directory        *)
(* directly (EditFile).                                                    *)
(*                                                                         *)
(* The index is the one m_repo keeps in memory: a method whose             *)
(* git_index_write() fails has changed it all the same.  A guard that      *)
(* fails is the method raising with nothing changed.  Tags and remotes are *)
(* left to GitRepository and GitRemote; the repository is not bare.        *)
(***************************************************************************)
EXTENDS GitHistory

CONSTANTS
    Failures,   \* TRUE if the file system may refuse a write
    MaxCommits, \* bound: commits that are created
    MaxStashes  \* bound: stashes that are held at a time

ASSUME DiskAssumption ==
    Failures \in BOOLEAN /\ MaxCommits \in Nat /\ MaxStashes \in Nat

VARIABLES
    index,      \* the index, conflicts included
    workdir,    \* the working directory
    vtree,      \* m_virtual_tree, Absent where it has no entry
    stashes,    \* the stashes, most recent first
    touched,    \* history: paths that were written, staged, edited or popped
                \*   and are not settled by a commit, a checkout or a stash
    behind      \* history: HEAD moved, or the index, without the other

diskVars == <<index, workdir, vtree, stashes, touched, behind>>
vars == <<historyVars, diskVars>>

\* A stash: HEAD's tree when it was saved, and the files of that moment.
StashRecord == [base : Tree, work : Tree]

DiskTypeOK ==
    /\ HistoryTypeOK
    /\ index \in MergeIndex
    /\ workdir \in Tree
    /\ vtree \in Tree
    /\ stashes \in Seq(StashRecord)
    /\ touched \in SUBSET Paths
    /\ behind \in BOOLEAN

\* GitRepository::init(): HEAD leads to a branch that has no commit yet.
Init ==
    /\ commits = <<>>
    /\ branch = [n \in Branches |-> NoCommit]
    /\ tag = [n \in TagNames |-> NoCommit]
    /\ head = SymbolicTo(DefaultBranch)
    /\ index = EmptyTree
    /\ workdir = EmptyTree
    /\ vtree = EmptyTree
    /\ stashes = <<>>
    /\ touched = {}
    /\ behind = FALSE

-----------------------------------------------------------------------------
HeadTree == TreeAt(commits, HeadCommit)

\* readFile(), fileExists(), listFiles(): neither the index nor the working
\* directory is looked at.
ReadFile(p) == IF vtree[p] # Absent THEN vtree[p] ELSE HeadTree[p]

\* getStatus(): what differs between HEAD, the index and the working directory.
Status == {p \in Paths : index[p] # HeadTree[p] \/ workdir[p] # index[p]}

\* What git_checkout_tree() changes, HEAD's tree being its baseline.
Changed(target) == {p \in Paths : target[p] # HeadTree[p]}

\* Mutant: GIT_CHECKOUT_FORCE.
CheckoutForced(target) ==
    /\ index' = [p \in Paths |-> IF p \in Changed(target) THEN target[p] ELSE index[p]]
    /\ workdir' = [p \in Paths |-> IF p \in Changed(target) THEN target[p] ELSE workdir[p]]
    /\ touched' = touched \ Changed(target)
    /\ UNCHANGED <<vtree, stashes>>

(***************************************************************************)
(* git_checkout_tree() with GIT_CHECKOUT_SAFE: it raises, with nothing     *)
(* changed, if the index has conflicts or a file it would change was       *)
(* edited; m_virtual_tree is not told.                                     *)
(***************************************************************************)
CheckoutTree(target) ==
    /\ Conflicted(index) = {}
    /\ \A p \in Changed(target) : workdir[p] \in {HeadTree[p], target[p]}
    /\ index' = [p \in Paths |-> IF p \in Changed(target) THEN target[p] ELSE index[p]]
    /\ workdir' = [p \in Paths |-> IF p \in Changed(target) THEN target[p] ELSE workdir[p]]
    /\ touched' = touched \ Changed(target)
    /\ UNCHANGED <<vtree, stashes>>

-----------------------------------------------------------------------------
\* The program writes or removes a file of the working directory itself.
EditFile(p, content) ==
    /\ workdir' = [workdir EXCEPT ![p] = content]
    /\ touched' = touched \cup {p}
    /\ UNCHANGED <<historyVars, index, vtree, stashes, behind>>

\* add(): git_index_add_bypath() settles a conflict of the path.
AddToIndex(p) ==
    /\ workdir[p] # Absent
    /\ index' = [index EXCEPT ![p] = workdir[p]]
    /\ touched' = touched \cup {p}
    /\ UNCHANGED <<historyVars, workdir, vtree, stashes, behind>>

RemoveFromIndex(p) ==
    /\ index' = [index EXCEPT ![p] = Absent]
    /\ touched' = touched \cup {p}
    /\ UNCHANGED <<historyVars, workdir, vtree, stashes, behind>>

\* writeFile(): m_virtual_tree, then the working directory, then the index.
WriteFile(p, content) ==
    /\ vtree' = [vtree EXCEPT ![p] = content]
    /\ workdir' = [workdir EXCEPT ![p] = content]
    /\ index' = [index EXCEPT ![p] = content]
    /\ touched' = touched \cup {p}
    /\ UNCHANGED <<historyVars, stashes, behind>>

\* The sandbox or open() refuses the file, or part of it only is written (some
\* other content): it raises, with m_virtual_tree already changed.
WriteFileFails(p, content) ==
    /\ Failures
    /\ vtree' = [vtree EXCEPT ![p] = content]
    /\ \E written \in Blobs \cup {workdir[p]} : workdir' = [workdir EXCEPT ![p] = written]
    /\ touched' = touched \cup {p}
    /\ UNCHANGED <<historyVars, index, stashes, behind>>

DeleteFile(p) ==
    /\ vtree' = [vtree EXCEPT ![p] = Absent]
    /\ workdir' = [workdir EXCEPT ![p] = Absent]
    /\ index' = [index EXCEPT ![p] = Absent]
    /\ touched' = touched \cup {p}
    /\ UNCHANGED <<historyVars, stashes, behind>>

\* The sandbox refuses the file: only m_virtual_tree has lost it.
DeleteFileFails(p) ==
    /\ Failures
    /\ vtree' = [vtree EXCEPT ![p] = Absent]
    /\ UNCHANGED <<historyVars, index, workdir, stashes, touched, behind>>

\* The file cannot be removed, which nobody looks at: the index loses it all the
\* same.
DeleteFileStays(p) ==
    /\ Failures
    /\ vtree' = [vtree EXCEPT ![p] = Absent]
    /\ index' = [index EXCEPT ![p] = Absent]
    /\ touched' = touched \cup {p}
    /\ UNCHANGED <<historyVars, workdir, stashes, behind>>

-----------------------------------------------------------------------------
\* Mutant: the conflicts of a popped stash are committed.
CommitConflicts ==
    /\ Len(commits) < MaxCommits
    /\ commits' = Append(commits, NewCommit(commits,
            IF HeadCommit = NoCommit THEN <<>> ELSE <<HeadCommit>>, index))
    /\ MoveHead(Len(commits) + 1)
    /\ touched' = {p \in touched : workdir[p] # index[p]}
    /\ behind' = FALSE
    /\ UNCHANGED <<tag, index, workdir, vtree, stashes>>

\* commit(): the tree of the index, an empty one included, on HEAD's commit if
\* there is one; a conflict in the index is refused.
Commit ==
    /\ Len(commits) < MaxCommits
    /\ Conflicted(index) = {}
    /\ commits' = Append(commits, NewCommit(commits,
            IF HeadCommit = NoCommit THEN <<>> ELSE <<HeadCommit>>, index))
    /\ MoveHead(Len(commits) + 1)
    /\ touched' = {p \in touched : workdir[p] # index[p]}
    /\ behind' = FALSE
    /\ UNCHANGED <<tag, index, workdir, vtree, stashes>>

CreateBranch(n, c) ==
    /\ AddBranch(n, c)
    /\ UNCHANGED diskVars

DeleteBranch(n) ==
    /\ branch[n] # NoCommit
    /\ DropBranch(n)
    /\ UNCHANGED diskVars

\* checkout(): the files first, then HEAD.
Checkout(n) ==
    /\ branch[n] # NoCommit
    /\ CheckoutTree(commits[branch[n]].tree)
    /\ SwitchHead(SymbolicTo(n))
    /\ UNCHANGED behind

CheckoutCommit(c) ==
    /\ CheckoutTree(commits[c].tree)
    /\ SwitchHead(DetachedAt(c))
    /\ UNCHANGED behind

\* HEAD cannot be written: checkout() returns as if it had been, and merge()
\* raises after a fast-forward, with the files already changed.
CheckoutHeadStays(c) ==
    /\ Failures
    /\ CheckoutTree(commits[c].tree)
    /\ behind' = TRUE
    /\ UNCHANGED historyVars

-----------------------------------------------------------------------------
\* Mutant: the reference moves, the files do not.
FastForwardReference(t) ==
    /\ t # HeadCommit
    /\ FastForward(t)
    /\ UNCHANGED diskVars

\* merge() of a commit that is ahead of HEAD.
MergeFastForward(t) ==
    /\ t # HeadCommit
    /\ FastForward(t)
    /\ CheckoutTree(commits[t].tree)
    /\ UNCHANGED behind

\* Mutant: the parents the other way round.
MergeCommitSwapped(t) ==
    /\ HeadCommit # NoCommit
    /\ Len(commits) < MaxCommits
    /\ ~Reaches(commits, t, HeadCommit)
    /\ ~Reaches(commits, HeadCommit, t)
    /\ \E idx \in MergeIndexes(commits, HeadCommit, t) :
       \E chosen \in [Conflicted(idx) -> Content] :
          commits' = Append(commits, NewCommit(commits, <<t, HeadCommit>>,
               [p \in Paths |-> IF p \in DOMAIN chosen THEN chosen[p] ELSE idx[p]]))
    /\ MoveHead(Len(commits) + 1)
    /\ behind' = TRUE
    /\ UNCHANGED <<tag, index, workdir, vtree, stashes, touched>>

(***************************************************************************)
(* merge() of diverged commits, at the moment createMergeCommit() commits; *)
(* how the strategies and the resolver choose is in GitRepository.  Neither*)
(* the index nor the working directory follows.                            *)
(***************************************************************************)
MergeCommit(t) ==
    /\ HeadCommit # NoCommit
    /\ Len(commits) < MaxCommits
    /\ ~Reaches(commits, t, HeadCommit)
    /\ ~Reaches(commits, HeadCommit, t)
    /\ \E idx \in MergeIndexes(commits, HeadCommit, t) :
       \E chosen \in [Conflicted(idx) -> Content] :
          Grow(<<t>>, [p \in Paths |-> IF p \in DOMAIN chosen THEN chosen[p] ELSE idx[p]])
    /\ behind' = TRUE
    /\ UNCHANGED <<index, workdir, vtree, stashes, touched>>

-----------------------------------------------------------------------------
Tracked == {p \in Paths : index[p] # Absent \/ HeadTree[p] # Absent}

\* stash(): the tracked files are saved and everything tracked returns to
\* HEAD's tree.  A file taken out of the index only may or may not be saved.
Stash ==
    /\ HeadCommit # NoCommit
    /\ Len(stashes) < MaxStashes
    /\ Conflicted(index) = {}
    /\ \E p \in Tracked : index[p] # HeadTree[p] \/ workdir[p] # HeadTree[p]
    /\ \E left \in SUBSET {p \in Tracked : index[p] = Absent} :
          stashes' = <<[base |-> HeadTree,
                        work |-> [p \in Paths |->
                            IF p \in left THEN Absent
                            ELSE IF p \in Tracked THEN workdir[p] ELSE HeadTree[p]]]>>
                     \o stashes
    /\ index' = HeadTree
    /\ workdir' = [p \in Paths |-> IF p \in Tracked THEN HeadTree[p] ELSE workdir[p]]
    /\ touched' = touched \ Tracked
    /\ behind' = FALSE
    /\ UNCHANGED <<historyVars, vtree>>

(***************************************************************************)
(* stashPop(): refused unless the index is HEAD's tree and no file in the  *)
(* way was edited; the stash is merged into HEAD's tree, conflicts are     *)
(* left in the index with markers in the file, and the stash is dropped.   *)
(* A file the stash added is staged, or not.                               *)
(***************************************************************************)
StashPop ==
    /\ stashes # <<>>
    /\ index = HeadTree
    /\ LET s == stashes[1]
           idx == [p \in Paths |-> MergedPath(s.base[p], HeadTree[p], s.work[p])]
           popped == {p \in Paths : idx[p] # HeadTree[p]}
       IN  /\ \A p \in popped : workdir[p] \in {HeadTree[p], idx[p]}
           /\ \E markers \in [Conflicted(idx) -> Blobs],
                 staged \in SUBSET {p \in popped \ Conflicted(idx) : HeadTree[p] = Absent} :
                 /\ workdir' = [p \in Paths |->
                        IF p \in DOMAIN markers THEN markers[p]
                        ELSE IF p \in popped THEN idx[p] ELSE workdir[p]]
                 /\ index' = [p \in Paths |->
                        IF p \in staged \cup Conflicted(idx) THEN idx[p] ELSE index[p]]
           /\ touched' = touched \cup popped
    /\ stashes' = Tail(stashes)
    /\ UNCHANGED <<historyVars, vtree, behind>>

Next ==
    \/ \E p \in Paths :
          \/ AddToIndex(p) \/ RemoveFromIndex(p)
          \/ DeleteFile(p) \/ DeleteFileFails(p) \/ DeleteFileStays(p)
          \/ \E content \in Content : EditFile(p, content)
          \/ \E content \in Blobs : WriteFile(p, content) \/ WriteFileFails(p, content)
    \/ Commit
    \/ \E n \in Branches :
          \/ DeleteBranch(n) \/ Checkout(n)
          \/ \E c \in CommitIds : CreateBranch(n, c)
    \/ \E c \in CommitIds :
          \/ CheckoutCommit(c) \/ CheckoutHeadStays(c)
          \/ MergeFastForward(c) \/ MergeCommit(c)
    \/ Stash \/ StashPop

Spec == Init /\ [][Next]_vars

-----------------------------------------------------------------------------
\* The promises of GitHistory, with the branch of the first commit being the
\* one HEAD of a fresh repository leads to, and a HEAD that leads to a branch
\* without commits taken for none.
History == INSTANCE GitHistory WITH
    Main <- DefaultBranch,
    head <- IF commits = <<>> THEN NoHead ELSE head

\* However add(), commit(), checkout(), merge() and stash() are mixed, the disk
\* repository rewrites no commit, redirects no branch and never loses HEAD.
KeepsHistoryPromises == History!HistorySpec

\* A file nobody touched is the same in the working directory and the index,
\* and is not listed by getStatus() unless HEAD or the index moved alone: so
\* checkouts, fast-forwards and stashes leave nothing for the next commit() to
\* change behind its caller's back.
UntouchedIsClean ==
    \A p \in Paths \ touched :
        workdir[p] = index[p] /\ (~behind => p \notin Status)

\* What a caller writes over or removes by name.
Edits(p) ==
    \/ \E content \in Content : EditFile(p, content)
    \/ \E content \in Blobs : WriteFile(p, content) \/ WriteFileFails(p, content)
    \/ DeleteFile(p)

\* A file changes because its caller asked for it, or what it held is in HEAD or
\* in a stash.  A file in HEAD but not in the index is excepted.
KeepsEdits ==
    \A p \in Paths : workdir'[p] # workdir[p] =>
        \/ Edits(p)
        \/ workdir[p] = HeadTree[p]
        \/ \E i \in DOMAIN stashes' : stashes'[i].work[p] = workdir[p]
        \/ index[p] = Absent /\ HeadTree[p] # Absent

\* checkout(), merge(), stash() and stashPop() replace the content of a file
\* only if HEAD has it or a stash keeps it (GIT_CHECKOUT_SAFE): no edit that
\* was never committed is lost.
NoEditIsLost == [][KeepsEdits]_vars

-----------------------------------------------------------------------------
\* What documentation and tests say and the code does not do.

\* readFile() "reads file content from the current tree": what it returns is in
\* HEAD's tree, in the index or in the working directory.
ReadIsCurrent == \A p \in Paths : ReadFile(p) \in {HeadTree[p], index[p], workdir[p]}

\* merge() "performs a git merge of the specified reference into the current
\* HEAD": the next commit() does not take back what was merged into a file that
\* nobody touched.
CommitKeepsMerged ==
    [][Commit => \A p \in Paths \ touched : index[p] = HeadTree[p]]_vars
=============================================================================
