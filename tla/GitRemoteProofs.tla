-------------------------- MODULE GitRemoteProofs --------------------------
(***************************************************************************)
(* Proofs about GitServer: its inductive invariant, and that no branch of  *)
(* the remote loses a commit.  Proofs about GitRemote: its types, that the *)
(* remote it pushes to keeps the promises of GitServer, and that tracking  *)
(* references are published.                                               *)
(***************************************************************************)
EXTENDS GitRemote, CommitGraphProofs

ServerTypeOK ==
    /\ commits \in Seq(CommitRecord)
    /\ server \in [Branches -> CommitIds \cup {NoCommit}]

ServerInv == ServerTypeOK /\ Ancestry(commits)

\* What every step keeps: the commits, and what a branch contains.
KeepsServer ==
    /\ CommitIds \subseteq CommitIds'
    /\ \A c \in CommitIds : commits'[c] = commits[c]
    /\ \A n \in Branches : server[n] # NoCommit
          => server'[n] # NoCommit /\ Reaches(commits', server'[n], server[n])

\* Commits that were made stay as they are, and ancestry with them.
LEMMA AppendKeeps ==
    ASSUME NEW cs \in Seq(CommitRecord), Ancestry(cs),
           NEW ps \in Seq(1..Len(cs)), NEW tree \in Tree
    PROVE  LET ds == Append(cs, NewCommit(cs, ps, tree))
           IN  /\ ds \in Seq(CommitRecord) /\ Ancestry(ds)
               /\ Len(ds) = Len(cs) + 1
               /\ \A c \in 1..Len(cs) : c \in 1..Len(ds) /\ ds[c] = cs[c]
<1> DEFINE ds == Append(cs, NewCommit(cs, ps, tree))
<1>1. Ancestry(ds)
  BY AppendAncestry
<1>2. Extends(ds, cs, ps, tree)
  BY AppendCommit
<1> HIDE DEF ds
<1>3. /\ ds \in Seq(CommitRecord) /\ Ancestry(ds)
      /\ Len(ds) = Len(cs) + 1
      /\ \A c \in 1..Len(cs) : c \in 1..Len(ds) /\ ds[c] = cs[c]
  BY <1>1, <1>2 DEF Extends
<1>. QED
  BY <1>3 DEF ds

\* commit() in any clone: the server does not change.
LEMMA AuthorStep ==
    ASSUME ServerInv, NEW ps \in Seq(CommitIds), NEW tree \in Tree, Author(ps, tree)
    PROVE  ServerInv' /\ KeepsServer /\ Len(commits) + 1 \in CommitIds'
<1>1. ps \in Seq(1..Len(commits)) /\ Len(commits) \in Nat
  BY DEF CommitIds, ServerInv, ServerTypeOK
<1>2. /\ commits' \in Seq(CommitRecord) /\ Ancestry(commits')
      /\ Len(commits') = Len(commits) + 1
      /\ \A c \in 1..Len(commits) : c \in 1..Len(commits') /\ commits'[c] = commits[c]
  BY <1>1, AppendKeeps DEF Author, ServerInv, ServerTypeOK
<1>3. CommitIds \subseteq CommitIds' /\ Len(commits) + 1 \in CommitIds'
  BY <1>1, <1>2 DEF CommitIds
<1>4. ASSUME NEW n \in Branches, server[n] # NoCommit
      PROVE  server'[n] # NoCommit /\ Reaches(commits', server'[n], server[n])
  <2>1. server[n] \in 1..Len(commits) /\ server' = server
    BY <1>4 DEF ServerInv, ServerTypeOK, CommitIds, Author
  <2>. QED
    BY <1>2, <1>4, <2>1 DEF ServerInv, Ancestry, Reaches
<1>5. server' \in [Branches -> CommitIds' \cup {NoCommit}]
  BY <1>3 DEF ServerInv, ServerTypeOK, Author
<1>. QED
  BY <1>2, <1>3, <1>4, <1>5 DEF ServerInv, ServerTypeOK, KeepsServer, CommitIds

\* The commit commit() makes reaches what its parents do.
LEMMA AuthorReach ==
    ASSUME ServerInv, NEW ps \in Seq(CommitIds), NEW tree \in Tree, Author(ps, tree)
    PROVE  /\ Len(commits) \in Nat /\ Len(commits') = Len(commits) + 1
           /\ commits'[Len(commits) + 1].reach
                = {Len(commits) + 1} \cup UNION {commits[ps[i]].reach : i \in DOMAIN ps}
<1>1. ps \in Seq(1..Len(commits)) /\ commits \in Seq(CommitRecord)
  BY DEF CommitIds, ServerInv, ServerTypeOK
<1>2. Extends(commits', commits, ps, tree)
  BY <1>1, AppendCommit DEF Author
<1>. QED
  BY <1>1, <1>2 DEF Extends

\* The sequences of parents there are.
LEMMA SmallSequences ==
    ASSUME NEW S
    PROVE  <<>> \in Seq(S) /\ \A a, b \in S : <<a>> \in Seq(S) /\ <<a, b>> \in Seq(S)
OBVIOUS

\* The invariant is inductive, and steps move branches only forward.
LEMMA ServerStep ==
    ASSUME ServerInv, [ServerNext]_serverVars
    PROVE  ServerInv' /\ KeepsServer
<1>1. \A n \in Branches : server[n] # NoCommit => Reaches(commits, server[n], server[n])
  BY DEF ServerInv, ServerTypeOK, CommitIds, Ancestry
<1>2. ASSUME NEW c \in CommitIds, NEW n \in Branches, Advance(n, c)
      PROVE  ServerInv' /\ KeepsServer
  <2>1. server' \in [Branches -> CommitIds \cup {NoCommit}] /\ commits' = commits
    BY <1>2 DEF Advance, ServerInv, ServerTypeOK
  <2>2. \A m \in Branches : server[m] # NoCommit
           => server'[m] # NoCommit /\ Reaches(commits', server'[m], server[m])
    BY <1>1, <1>2 DEF Advance, ServerInv, ServerTypeOK, CommitIds, NoCommit
  <2>. QED
    BY <2>1, <2>2 DEF ServerInv, ServerTypeOK, KeepsServer, CommitIds
<1>3. ASSUME NEW tree \in Tree,
             \/ Author(<<>>, tree)
             \/ \E a \in CommitIds : Author(<<a>>, tree)
             \/ \E a, b \in CommitIds : Author(<<a, b>>, tree)
      PROVE  ServerInv' /\ KeepsServer
  <2>1. PICK ps \in Seq(CommitIds) : Author(ps, tree)
    BY <1>3, SmallSequences
  <2>. QED
    BY <2>1, AuthorStep
<1>4. CASE UNCHANGED serverVars
  BY <1>1, <1>4 DEF serverVars, ServerInv, ServerTypeOK, KeepsServer, CommitIds
<1>. QED
  BY <1>2, <1>3, <1>4 DEF ServerNext

LEMMA ServerInitInv == ServerInit => ServerInv
<1>1. CASE ServerInit /\ commits = <<>>
  BY <1>1 DEF ServerInit, ServerInv, ServerTypeOK, CommitIds, Ancestry
<1>2. ASSUME NEW tree \in Tree, commits = <<NewCommit(<<>>, <<>>, tree)>>,
             server = [n \in Branches |-> IF n = Main THEN 1 ELSE NoCommit]
      PROVE  ServerInv
  <2> DEFINE none == <<>>
             ds == Append(none, NewCommit(none, <<>>, tree))
  <2>1. none \in Seq(CommitRecord) /\ Ancestry(none) /\ Len(none) = 0
    BY DEF Ancestry
  <2>2. commits = ds /\ <<>> \in Seq(1..Len(none))
    BY <1>2
  <2> HIDE DEF none
  <2>3. ds \in Seq(CommitRecord) /\ Ancestry(ds) /\ Len(ds) = Len(none) + 1
    BY <2>1, <2>2, AppendKeeps
  <2> HIDE DEF ds
  <2>4. commits \in Seq(CommitRecord) /\ Ancestry(commits) /\ Len(commits) = 1
    BY <2>1, <2>2, <2>3
  <2>5. server \in [Branches -> {1, NoCommit}]
    BY <1>2
  <2>. QED
    BY <2>4, <2>5 DEF ServerInv, ServerTypeOK, CommitIds
<1>. QED
  BY <1>1, <1>2 DEF ServerInit

-----------------------------------------------------------------------------
\* The branches of the remote lead to commits that exist, and ancestry is
\* reflexive and transitive: the inductive invariant of the shared remote.
THEOREM ServerInvariant == ServerSpec => []ServerInv
<1>1. ServerInv /\ [ServerNext]_serverVars => ServerInv'
  BY ServerStep
<1>. QED
  BY <1>1, ServerInitInv, PTL DEF ServerSpec

\* Whatever implements GitServer never takes a commit off a branch.
THEOREM ServerKept == ServerSpec => ServerMovesForward
<1>1. ServerInv /\ [ServerNext]_serverVars
        => [\A n \in Branches : server[n] # NoCommit
              => server'[n] # NoCommit /\ Reaches(commits', server'[n], server[n])]_serverVars
  BY ServerStep DEF KeepsServer
<1>. QED
  BY <1>1, ServerInvariant, PTL DEF ServerSpec, ServerMovesForward

-----------------------------------------------------------------------------
\* Clones whose references are in a set S of commits.
ClonesOver(S) ==
    [branch  : [Branches -> S],
     track   : [Branches -> S],
     fetched : S,
     head    : [branch : Branches \cup {NoBranch}, commit : S]]

\* A push under way would move the server forward from what it told.
SoundPush(p) ==
    /\ p.branch \in Branches
    /\ p.new # NoCommit
    /\ p.old # NoCommit => Reaches(commits, p.new, p.old)

\* The inductive invariant: types, ancestry, pushes that were let through, and
\* the branch a pull() has chosen.
RemoteInv ==
    /\ TypeOK
    /\ Ancestry(commits)
    /\ \A c \in Clones : pushing[c] = NoPush \/ SoundPush(pushing[c])
    /\ \A c \in Clones, t \in Threads :
          pulling[c][t].at = "chosen" => pulling[c][t].branch # NoBranch

\* What a step of a clone does to what the clones hold: commits a step makes are
\* in S; a tracking reference stays, or becomes what the server has.
ClonesStep(S) ==
    /\ clone' \in [Clones -> ClonesOver(S)]
    /\ \A c \in Clones, n \in Branches :
          clone'[c].track[n] \in {clone[c].track[n], server'[n]}

PullsStep ==
    /\ pulling' \in [Clones -> [Threads -> Pull]]
    /\ \A c \in Clones, t \in Threads :
          pulling'[c][t].at = "chosen" => pulling'[c][t].branch # NoBranch

PushesStep ==
    /\ pushing' \in [Clones -> Push]
    /\ \A c \in Clones : pushing'[c] = NoPush \/ SoundPush(pushing'[c])

-----------------------------------------------------------------------------
\* A clone with another local branch, tracking reference or HEAD.
WithBranch(r, n, x) == [r EXCEPT !.branch[n] = x]
WithTrack(r, n, x) == [r EXCEPT !.track[n] = x]
WithHead(r, n, x) == [r EXCEPT !.head = [branch |-> n, commit |-> x]]

LEMMA WithBranchType ==
    ASSUME NEW S, NEW r \in ClonesOver(S), NEW n \in Branches, NEW x \in S
    PROVE  WithBranch(r, n, x) \in ClonesOver(S) /\ WithBranch(r, n, x).track = r.track
BY DEF WithBranch, ClonesOver

LEMMA WithTrackType ==
    ASSUME NEW S, NEW r \in ClonesOver(S), NEW n \in Branches, NEW x \in S
    PROVE  /\ WithTrack(r, n, x) \in ClonesOver(S)
           /\ WithTrack(r, n, x).track[n] = x
           /\ \A m \in Branches \ {n} : WithTrack(r, n, x).track[m] = r.track[m]
BY DEF WithTrack, ClonesOver

LEMMA WithHeadType ==
    ASSUME NEW S, NEW r \in ClonesOver(S), NEW n \in Branches \cup {NoBranch}, NEW x \in S
    PROVE  WithHead(r, n, x) \in ClonesOver(S) /\ WithHead(r, n, x).track = r.track
BY DEF WithHead, ClonesOver

\* HEAD leads to a commit of the clone, and moving it changes no other reference.
LEMMA HeadOfType ==
    ASSUME NEW S, NEW r \in ClonesOver(S)
    PROVE  HeadOf(r) \in S
BY DEF HeadOf, ClonesOver

LEMMA MovedType ==
    ASSUME NEW S, NEW r \in ClonesOver(S), NEW x \in S
    PROVE  Moved(r, x) \in ClonesOver(S) /\ Moved(r, x).track = r.track
BY DEF Moved, ClonesOver

LEMMA MoreCommits ==
    ASSUME NEW S, NEW R, S \subseteq R
    PROVE  ClonesOver(S) \subseteq ClonesOver(R)
BY DEF ClonesOver

\* fetch() leaves tracking references alone or sets them to the server's.
LEMMA FetchedType ==
    ASSUME NEW S, NEW r \in ClonesOver(S), server \in [Branches -> S], NoCommit \in S,
           NEW f \in Fetched(r)
    PROVE  /\ f \in ClonesOver(S)
           /\ f.head = r.head /\ f.branch = r.branch
           /\ \A n \in Branches : f.track[n] \in {r.track[n], server[n]}
           /\ \A n \in Branches : server[n] # NoCommit => f.track[n] = server[n]
<1> DEFINE tips == {server[n] : n \in Branches} \ {NoCommit}
<1>1. PICK first \in IF tips = {} THEN {NoCommit} ELSE tips :
         f = [r EXCEPT !.track = [n \in Branches |-> IF server[n] # NoCommit
                                                     THEN server[n] ELSE @[n]],
                       !.fetched = first]
  BY DEF Fetched
<1>2. first \in S
  OBVIOUS
<1>. QED
  BY <1>1, <1>2 DEF ClonesOver

\* One clone changes.
LEMMA OneClone ==
    ASSUME NEW S, clone \in [Clones -> ClonesOver(S)], NEW c \in Clones,
           NEW r \in ClonesOver(S), clone' = [clone EXCEPT ![c] = r],
           \A n \in Branches : r.track[n] \in {clone[c].track[n], server'[n]}
    PROVE  ClonesStep(S)
BY DEF ClonesStep

-----------------------------------------------------------------------------
\* merge() in a clone makes at most one commit, of commits the clone names.
LEMMA MergeMakes ==
    ASSUME RemoteInv, NEW c \in Clones, NEW theirs \in Ref, NEW s, NEW conflicts,
           Merge(c, theirs, s, conflicts)
    PROVE  [ServerNext]_serverVars /\ ClonesStep(Ref')
<1> DEFINE r == clone[c]
           ours == HeadOf(r)
<1>1. /\ commits \in Seq(CommitRecord) /\ Len(commits) \in Nat
      /\ clone \in [Clones -> ClonesOver(Ref)]
      /\ r \in ClonesOver(Ref)
      /\ ours \in CommitIds /\ theirs \in CommitIds
  <2>1. clone \in [Clones -> ClonesOver(Ref)]
    BY DEF RemoteInv, TypeOK, Clone, ClonesOver
  <2>2. r \in ClonesOver(Ref)
    BY <2>1
  <2>3. ours \in Ref
    BY <2>2, HeadOfType
  <2>4. ours # NoCommit /\ theirs # NoCommit
    BY DEF Merge
  <2>5. commits \in Seq(CommitRecord) /\ Len(commits) \in Nat
    BY DEF RemoteInv, TypeOK
  <2>. QED
    BY <2>1, <2>2, <2>3, <2>4, <2>5 DEF Ref
<1>2. CASE UNCHANGED <<commits, server, clone>>
  BY <1>1, <1>2 DEF serverVars, ClonesStep, Ref, CommitIds
<1>3. CASE clone' = [clone EXCEPT ![c] = Moved(r, theirs)] /\ UNCHANGED <<commits, server>>
  <2>1. Moved(r, theirs) \in ClonesOver(Ref) /\ Moved(r, theirs).track = r.track
    BY <1>1, MovedType DEF Ref
  <2>2. ClonesStep(Ref)
    BY <1>1, <1>3, <2>1, OneClone
  <2>. QED
    BY <1>3, <2>2 DEF serverVars, Ref, CommitIds
<1>4. ASSUME NEW idx \in MergeIndexes(commits, ours, theirs), NEW side \in {ours, theirs},
             Author(<<ours, theirs>>, TakeSide(idx, commits[side].tree)),
             clone' = [clone EXCEPT ![c] = Moved(r, Len(commits) + 1)]
      PROVE  [ServerNext]_serverVars /\ ClonesStep(Ref')
  <2>1. commits[side] \in CommitRecord
    BY <1>1 DEF CommitIds
  <2>2. TakeSide(idx, commits[side].tree) \in Tree
    BY <2>1, TakeSideIsTree DEF CommitRecord, MergeIndexes
  <2>3. ServerNext
    BY <1>1, <1>4, <2>2 DEF ServerNext
  <2>4. Len(commits') = Len(commits) + 1
    BY <1>1, <1>4 DEF Author
  <2>5. Ref \subseteq Ref' /\ Len(commits) + 1 \in Ref'
    BY <1>1, <2>4 DEF Ref, CommitIds
  <2>6. clone \in [Clones -> ClonesOver(Ref')] /\ r \in ClonesOver(Ref')
    BY <1>1, <2>5, MoreCommits
  <2>7. /\ Moved(r, Len(commits) + 1) \in ClonesOver(Ref')
        /\ Moved(r, Len(commits) + 1).track = r.track
    BY <2>5, <2>6, MovedType
  <2>. QED
    BY <1>4, <2>3, <2>6, <2>7, OneClone
<1>. QED
  BY <1>2, <1>3, <1>4 DEF Merge

\* What the invariant says of one clone and its commits.
LEMMA CloneFacts ==
    ASSUME RemoteInv, NEW c \in Clones
    PROVE  /\ commits \in Seq(CommitRecord) /\ Len(commits) \in Nat
           /\ server \in [Branches -> Ref]
           /\ clone \in [Clones -> ClonesOver(Ref)]
           /\ clone[c] \in ClonesOver(Ref)
           /\ HeadOf(clone[c]) \in Ref
           /\ PullsStep \/ pulling' # pulling
           /\ PushesStep \/ pushing' # pushing
<1>1. clone \in [Clones -> ClonesOver(Ref)]
  BY DEF RemoteInv, TypeOK, Clone, ClonesOver
<1>2. clone[c] \in ClonesOver(Ref)
  BY <1>1
<1>3. PullsStep \/ pulling' # pulling
  BY DEF RemoteInv, TypeOK, PullsStep
<1>4. PushesStep \/ pushing' # pushing
  BY DEF RemoteInv, TypeOK, PushesStep, SoundPush
<1>. QED
  BY <1>1, <1>2, <1>3, <1>4, HeadOfType DEF RemoteInv, TypeOK

\* What a pull() has chosen is a commit, or nothing.
LEMMA TheirsType ==
    ASSUME RemoteInv, NEW c \in Clones, NEW t \in Threads, pulling[c][t].at = "chosen"
    PROVE  Theirs(c, t) \in Ref
<1>1. pulling[c][t] \in Pull
  BY DEF RemoteInv, TypeOK
<1>2. pulling[c][t].branch \in Branches
  BY <1>1 DEF RemoteInv, Pull
<1>. QED
  BY <1>2, CloneFacts DEF Theirs, ClonesOver

\* A pull() changes its own locals only.
LEMMA OnePull ==
    ASSUME RemoteInv, NEW c \in Clones, NEW t \in Threads, NEW q \in Pull,
           q.at = "chosen" => q.branch # NoBranch,
           pulling' = [pulling EXCEPT ![c][t] = q]
    PROVE  PullsStep
<1>1. pulling \in [Clones -> [Threads -> Pull]]
  BY DEF RemoteInv, TypeOK
<1>2. pulling' \in [Clones -> [Threads -> Pull]]
  BY <1>1
<1>3. \A d \in Clones, u \in Threads :
        pulling'[d][u] = IF d = c /\ u = t THEN q ELSE pulling[d][u]
  BY <1>1
<1>. QED
  BY <1>2, <1>3 DEF PullsStep, RemoteInv

\* push() changes its own clone's locals only.
LEMMA OnePush ==
    ASSUME RemoteInv, NEW c \in Clones, NEW p \in Push,
           p = NoPush \/ SoundPush(p), pushing' = [pushing EXCEPT ![c] = p]
    PROVE  PushesStep
BY DEF RemoteInv, TypeOK, PushesStep

LEMMA NoPushType == NoPush \in Push /\ NoPull \in Pull /\ NoPull.at = "idle"
BY DEF NoPush, Push, NoPull, Pull, Ref

-----------------------------------------------------------------------------
\* The push that was let through still fits where the server is compared.
LEMMA ServerTakesAdvance ==
    ASSUME RemoteInv, NEW c \in Clones, ~Unlocked(c), ServerTakes(pushing[c]),
           UNCHANGED commits
    PROVE  /\ ServerNext
           /\ pushing[c].branch \in Branches /\ pushing[c].new \in CommitIds
           /\ server'[pushing[c].branch] = pushing[c].new
<1> DEFINE p == pushing[c]
<1>1. p \in Push /\ SoundPush(p) /\ server \in [Branches -> Ref]
  BY DEF RemoteInv, TypeOK, Unlocked
<1>2. p.branch \in Branches /\ p.new \in CommitIds
  BY <1>1 DEF SoundPush, Push, Ref
<1>3. Advance(p.branch, p.new)
  BY <1>1 DEF Advance, ServerTakes, SoundPush
<1>. QED
  BY <1>1, <1>2, <1>3 DEF ServerNext, ServerTakes

\* Each step of the clones is a step of the remote or leaves it alone, and
\* keeps the invariant of the rest.
LEMMA RemoteStep ==
    ASSUME RemoteInv, Next
    PROVE  [ServerNext]_serverVars /\ ClonesStep(Ref') /\ PullsStep /\ PushesStep
<1>. DEFINE Goal == [ServerNext]_serverVars /\ ClonesStep(Ref') /\ PullsStep /\ PushesStep
<1>1. PICK c \in Clones :
        \/ \E tree \in Tree : Commit(c, tree)
        \/ Fetch(c) \/ PushEnd(c) \/ PushBreaks(c)
        \/ \E n \in Branches :
              \/ Connect(c, n) \/ PushStart(c, n)
              \/ Checkout(c, n) \/ CheckoutTracking(c, n)
              \/ \E s \in Strategies \cup {"detect"} : MergeBranch(c, n, s)
              \/ \E x \in CommitIds : CreateBranch(c, n, x)
        \/ \E t \in Threads :
              \/ PullFetch(c, t) \/ PullChoose(c, t) \/ PullMerge(c, t)
              \/ PullRaises(c, t) \/ PullReturns(c, t)
  BY DEF Next
<1>. DEFINE r == clone[c]
<1>2. /\ commits \in Seq(CommitRecord) /\ Len(commits) \in Nat
      /\ server \in [Branches -> Ref]
      /\ clone \in [Clones -> ClonesOver(Ref)]
      /\ r \in ClonesOver(Ref)
      /\ HeadOf(r) \in Ref
      /\ PullsStep \/ pulling' # pulling
      /\ PushesStep \/ pushing' # pushing
  BY CloneFacts
<1>3. NoPush \in Push /\ NoPull \in Pull /\ NoPull.at = "idle"
  BY NoPushType
<1>4. Main \in Branches /\ NoBranch \notin Branches /\ NoCommit \in Ref
  BY MainAssumption, RemoteAssumption DEF Ref
<1>5. UNCHANGED clone => ClonesStep(Ref)
  BY <1>2 DEF ClonesStep
<1>6. UNCHANGED commits => Ref' = Ref
  BY DEF Ref, CommitIds
<1>7. ASSUME NEW tree \in Tree, Commit(c, tree)
      PROVE  Goal
  <2> DEFINE id == Len(commits) + 1
  <2>1. \E ps \in Seq(CommitIds) : Author(ps, tree)
    BY <1>2, <1>7, SmallSequences DEF Commit, Ref
  <2>2. ServerNext
    BY <1>2, <1>7 DEF Commit, ServerNext, Ref
  <2>3. Len(commits') = id /\ UNCHANGED server
    BY <1>2, <2>1 DEF Author
  <2>4. Ref \subseteq Ref' /\ id \in Ref' /\ NoCommit \in Ref'
    BY <1>2, <2>3 DEF Ref, CommitIds
  <2>5. clone \in [Clones -> ClonesOver(Ref')] /\ r \in ClonesOver(Ref')
    BY <1>2, <2>4, MoreCommits
  <2>6. \E s \in ClonesOver(Ref') : clone' = [clone EXCEPT ![c] = s] /\ s.track = r.track
    <3>1. CASE clone' = [clone EXCEPT ![c] = Moved(r, id)]
      BY <2>4, <2>5, <3>1, MovedType
    <3>2. CASE clone' = [clone EXCEPT
                ![c].branch[Main] = id, ![c].head = [branch |-> Main, commit |-> NoCommit]]
      <4> DEFINE q == WithBranch(r, Main, id)
                 s == WithHead(q, Main, NoCommit)
      <4>1. q \in ClonesOver(Ref') /\ q.track = r.track
        BY <1>4, <2>4, <2>5, WithBranchType
      <4>2. s \in ClonesOver(Ref') /\ s.track = q.track
        BY <1>4, <2>4, <4>1, WithHeadType
      <4>3. clone' = [clone EXCEPT ![c] = s]
        BY <2>5, <3>2 DEF ClonesOver, WithBranch, WithHead
      <4>. QED
        BY <4>1, <4>2, <4>3
    <3>. QED
      BY <1>7, <3>1, <3>2 DEF Commit
  <2>7. ClonesStep(Ref')
    BY <2>5, <2>6, OneClone
  <2>. QED
    BY <1>2, <1>7, <2>2, <2>7 DEF Commit
<1>8. ASSUME NEW n \in Branches, NEW x \in CommitIds, CreateBranch(c, n, x)
      PROVE  Goal
  <2> DEFINE s == WithBranch(r, n, x)
  <2>1. s \in ClonesOver(Ref) /\ s.track = r.track
    <3>1. x \in Ref
      BY DEF Ref
    <3>. QED
      BY <1>2, <3>1, WithBranchType
  <2>2. clone' = [clone EXCEPT ![c] = s] /\ UNCHANGED server
    BY <1>8 DEF CreateBranch, WithBranch
  <2>3. ClonesStep(Ref)
    BY <1>2, <2>1, <2>2, OneClone
  <2>. QED
    BY <1>2, <1>6, <1>8, <2>3 DEF CreateBranch, serverVars
<1>9. ASSUME NEW n \in Branches, Checkout(c, n) \/ CheckoutTracking(c, n)
      PROVE  Goal
  <2>1. r.track[n] \in Ref
    BY <1>2 DEF ClonesOver
  <2>2. PICK b \in Branches \cup {NoBranch}, x \in Ref :
          clone' = [clone EXCEPT ![c].head = [branch |-> b, commit |-> x]]
    BY <1>4, <1>9, <2>1 DEF Checkout, CheckoutTracking
  <2> DEFINE s == WithHead(r, b, x)
  <2>3. s \in ClonesOver(Ref) /\ s.track = r.track
    BY <1>2, WithHeadType
  <2>4. clone' = [clone EXCEPT ![c] = s]
    BY <2>2 DEF WithHead
  <2>5. ClonesStep(Ref)
    BY <1>2, <2>3, <2>4, OneClone
  <2>. QED
    BY <1>2, <1>6, <1>9, <2>5 DEF Checkout, CheckoutTracking, serverVars
<1>10. ASSUME NEW f \in Fetched(r), clone' = [clone EXCEPT ![c] = f],
              UNCHANGED <<commits, server>>
       PROVE  [ServerNext]_serverVars /\ ClonesStep(Ref')
  <2>1. /\ f \in ClonesOver(Ref)
        /\ \A n \in Branches : f.track[n] \in {r.track[n], server[n]}
    BY <1>2, <1>4, FetchedType
  <2>2. ClonesStep(Ref)
    BY <1>2, <1>10, <2>1, OneClone
  <2>. QED
    BY <1>6, <1>10, <2>2 DEF serverVars
<1>11. CASE Fetch(c)
  BY <1>2, <1>10, <1>11 DEF Fetch
<1>12. ASSUME NEW n \in Branches, Connect(c, n)
       PROVE  Goal
  <2>1. PICK f \in Fetched(r) : clone' = [clone EXCEPT
            ![c] = [f EXCEPT !.head = [branch |-> NoBranch, commit |-> server[n]]]]
    BY <1>12 DEF Connect
  <2> DEFINE s == WithHead(f, NoBranch, server[n])
  <2>2. /\ f \in ClonesOver(Ref)
        /\ \A m \in Branches : f.track[m] \in {r.track[m], server[m]}
    BY <1>2, <1>4, FetchedType
  <2>3. s \in ClonesOver(Ref) /\ s.track = f.track
    <3>1. server[n] \in Ref /\ NoBranch \in Branches \cup {NoBranch}
      BY <1>2
    <3>. QED
      BY <2>2, <3>1, WithHeadType
  <2>4. server' = server /\ clone' = [clone EXCEPT ![c] = s]
    BY <1>12, <2>1 DEF Connect, WithHead
  <2> HIDE DEF s, r
  <2>5. \A m \in Branches : s.track[m] \in {r.track[m], server'[m]}
    BY <2>2, <2>3, <2>4
  <2>6. /\ server \in [Branches -> Ref]
        /\ clone \in [Clones -> ClonesOver(Ref)]
    BY <1>2
  <2>7. ClonesStep(Ref)
    BY <2>3, <2>4, <2>5, <2>6, OneClone DEF r
  <2>. QED
    BY <1>2, <1>6, <1>12, <2>7 DEF Connect, serverVars
<1>13. ASSUME NEW n \in Branches, PushStart(c, n)
       PROVE  Goal
  <2> DEFINE p == [branch |-> n, old |-> server[n], new |-> r.branch[n]]
  <2>1. p \in Push
    BY <1>2 DEF Push, ClonesOver
  <2>2. SoundPush(p)
    BY <1>13 DEF PushStart, MayPush, SoundPush
  <2>3. PushesStep
    BY <1>13, <2>1, <2>2, OnePush DEF PushStart
  <2>. QED
    BY <1>2, <1>5, <1>6, <1>13, <2>3 DEF PushStart, serverVars
<1>14. PushEnd(c) \/ PushBreaks(c) => PushesStep
  BY <1>3, OnePush DEF PushEnd, PushBreaks
<1>15. CASE PushEnd(c)
  <2> DEFINE p == pushing[c]
  <2>1. CASE ServerTakes(p) /\ clone' = [clone EXCEPT ![c].track[p.branch] = p.new]
    <3> DEFINE s == WithTrack(r, p.branch, p.new)
    <3>1. /\ ServerNext /\ p.branch \in Branches /\ p.new \in CommitIds
          /\ server'[p.branch] = p.new
      BY <1>15, <2>1, ServerTakesAdvance DEF PushEnd
    <3>2. /\ s \in ClonesOver(Ref)
          /\ s.track[p.branch] = p.new
          /\ \A m \in Branches \ {p.branch} : s.track[m] = r.track[m]
      <4>1. p.new \in Ref
        BY <3>1 DEF Ref
      <4>. QED
        BY <1>2, <3>1, <4>1, WithTrackType
    <3>3. clone' = [clone EXCEPT ![c] = s]
      BY <2>1 DEF WithTrack
    <3> HIDE DEF s, p
    <3>4. \A m \in Branches : s.track[m] \in {r.track[m], server'[m]}
      BY <3>1, <3>2
    <3>5. ClonesStep(Ref)
      BY <1>2, <3>2, <3>3, <3>4, OneClone
    <3>. QED
      BY <1>2, <1>6, <1>14, <1>15, <3>1, <3>5 DEF PushEnd
  <2>2. CASE UNCHANGED <<server, clone>>
    BY <1>2, <1>5, <1>6, <1>14, <1>15, <2>2 DEF PushEnd, serverVars
  <2>. QED
    BY <1>15, <2>1, <2>2 DEF PushEnd
<1>16. CASE PushBreaks(c)
  <2>1. [ServerNext]_serverVars
    BY <1>16, ServerTakesAdvance DEF PushBreaks, serverVars
  <2>. QED
    BY <1>2, <1>5, <1>6, <1>14, <1>16, <2>1 DEF PushBreaks
<1>17. ASSUME NEW n \in Branches, NEW s, MergeBranch(c, n, s)
       PROVE  Goal
  <2>1. r.branch[n] \in Ref
    BY <1>2 DEF ClonesOver
  <2>2. [ServerNext]_serverVars /\ ClonesStep(Ref')
    BY <1>17, <2>1, MergeMakes DEF MergeBranch
  <2>. QED
    BY <1>2, <1>17, <2>2 DEF MergeBranch
<1>18. ASSUME NEW t \in Threads
       PROVE  pulling[c][t] \in Pull
  BY DEF RemoteInv, TypeOK
<1>19. ASSUME NEW t \in Threads, PullFetch(c, t)
       PROVE  Goal
  <2>1. [NoPull EXCEPT !.at = "fetched"] \in Pull
    BY DEF NoPull, Pull
  <2>2. [NoPull EXCEPT !.at = "fetched"].at # "chosen"
    BY DEF NoPull
  <2>3. PullsStep
    BY <1>19, <2>1, <2>2, OnePull DEF PullFetch
  <2>. QED
    BY <1>2, <1>10, <1>19, <2>3 DEF PullFetch
<1>20. ASSUME NEW t \in Threads, PullChoose(c, t)
       PROVE  Goal
  <2> DEFINE q == [NoPull EXCEPT !.at = "chosen", !.branch = r.head.branch,
                                 !.tracked = r.track[r.head.branch] # NoCommit]
  <2>1. q \in Pull /\ q.branch # NoBranch
    <3>1. r.head.branch \in Branches
      BY <1>2, <1>20 DEF PullChoose, ClonesOver
    <3>2. (r.track[r.head.branch] # NoCommit) \in BOOLEAN
      OBVIOUS
    <3>. QED
      BY <1>4, <3>1, <3>2 DEF NoPull, Pull
  <2>2. pulling' = [pulling EXCEPT ![c][t] = q]
    BY <1>20 DEF PullChoose
  <2>3. PullsStep
    <3> HIDE DEF q
    <3>. QED
      BY <2>1, <2>2, OnePull
  <2>. QED
    BY <1>2, <1>5, <1>6, <1>20, <2>3 DEF PullChoose, serverVars
<1>21. ASSUME NEW t \in Threads, PullMerge(c, t)
       PROVE  Goal
  <2>1. Theirs(c, t) \in Ref
    BY <1>21, TheirsType DEF PullMerge
  <2>2. PICK s \in Strategies, conflicts \in BOOLEAN :
          /\ Merge(c, Theirs(c, t), s, conflicts)
          /\ pulling' = [pulling EXCEPT ![c][t].at = "merged", ![c][t].conflicts = conflicts]
    BY <1>21 DEF PullMerge
  <2>3. [ServerNext]_serverVars /\ ClonesStep(Ref')
    BY <2>1, <2>2, MergeMakes
  <2> DEFINE q == [pulling[c][t] EXCEPT !.at = "merged", !.conflicts = conflicts]
  <2>4. q \in Pull /\ q.at = "merged"
    BY <1>18 DEF Pull
  <2>5. pulling' = [pulling EXCEPT ![c][t] = q]
    <3>1. pulling \in [Clones -> [Threads -> Pull]]
      BY DEF RemoteInv, TypeOK
    <3>. QED
      BY <2>2, <3>1 DEF Pull
  <2>6. PullsStep
    <3> HIDE DEF q
    <3>. QED
      BY <2>4, <2>5, OnePull
  <2>. QED
    BY <1>2, <1>21, <2>3, <2>6 DEF PullMerge
<1>22. ASSUME NEW t \in Threads, PullRaises(c, t) \/ PullReturns(c, t)
       PROVE  Goal
  <2>1. PullsStep
    BY <1>3, <1>22, OnePull DEF PullRaises, PullReturns
  <2>. QED
    BY <1>2, <1>5, <1>6, <1>22, <2>1 DEF PullRaises, PullReturns, serverVars
<1>. QED
  BY <1>1, <1>7, <1>8, <1>9, <1>11, <1>12, <1>13, <1>15, <1>16, <1>17, <1>19, <1>20,
     <1>21, <1>22

-----------------------------------------------------------------------------
\* addRemote() makes clones of the invariant.
LEMMA RemoteInit == Init => ServerInit /\ RemoteInv /\ TrackingIsPublished
<1>. SUFFICES ASSUME Init PROVE ServerInit /\ RemoteInv /\ TrackingIsPublished
  OBVIOUS
<1>1. ServerInit /\ ServerTypeOK /\ Ancestry(commits)
  BY ServerInitInv DEF Init, ServerInv
<1>2. NewClone \in Clone /\ \A n \in Branches : NewClone.track[n] = NoCommit
  BY RemoteAssumption DEF NewClone, Clone, Ref
<1>3. \A c \in Clones : clone[c] = NewClone /\ pushing[c] = NoPush
  BY DEF Init
<1>4. \A c \in Clones, t \in Threads : pulling[c][t] = NoPull
  BY DEF Init
<1>5. TypeOK
  BY <1>1, <1>2, NoPushType DEF Init, TypeOK, ServerTypeOK, Ref
<1>. QED
  BY <1>1, <1>2, <1>3, <1>4, <1>5, NoPushType DEF RemoteInv, TrackingIsPublished

\* The server's part of the invariant is the one of GitServer.
LEMMA RemoteServer == RemoteInv => ServerInv
BY DEF RemoteInv, TypeOK, ServerInv, ServerTypeOK, Ref

\* The invariant of the clones is inductive.
LEMMA RemoteInvStep ==
    ASSUME RemoteInv, [Next]_vars
    PROVE  RemoteInv' /\ [ServerNext]_serverVars
<1>1. CASE Next
  <2>1. [ServerNext]_serverVars /\ ClonesStep(Ref') /\ PullsStep /\ PushesStep
    BY <1>1, RemoteStep
  <2>2. ServerInv' /\ KeepsServer
    BY <2>1, RemoteServer, ServerStep
  <2>3. Ref \subseteq Ref'
    BY <2>2 DEF KeepsServer, Ref
  <2>4. clone' \in [Clones -> Clone']
    BY <2>1 DEF ClonesStep, ClonesOver, Clone
  <2>5. pushing' \in [Clones -> Push']
    <3>1. Push \subseteq Push'
      BY <2>3 DEF Push
    <3>. QED
      BY <2>1, <3>1 DEF PushesStep
  <2>6. TypeOK'
    BY <2>1, <2>2, <2>4, <2>5 DEF TypeOK, ServerInv, ServerTypeOK, PullsStep, Pull, Ref
  <2>7. ASSUME NEW c \in Clones
        PROVE  pushing'[c] = NoPush' \/ SoundPush(pushing[c])'
    <3>1. pushing'[c] = NoPush \/ SoundPush(pushing'[c])
      BY <2>1 DEF PushesStep
    <3>2. pushing'[c] \in Push
      BY <2>1 DEF PushesStep
    <3>3. ASSUME SoundPush(pushing'[c])
          PROVE  SoundPush(pushing[c])'
      <4>1. pushing'[c].new \in CommitIds
        BY <3>2, <3>3 DEF SoundPush, Push, Ref
      <4>2. commits'[pushing'[c].new] = commits[pushing'[c].new]
        BY <2>2, <4>1 DEF KeepsServer
      <4>. QED
        BY <3>3, <4>2 DEF SoundPush, Reaches
    <3>. QED
      BY <3>1, <3>3 DEF NoPush
  <2>. QED
    BY <2>1, <2>2, <2>6, <2>7 DEF RemoteInv, PullsStep, ServerInv
<1>2. CASE UNCHANGED vars
  <2>1. RemoteInv'
    BY <1>2 DEF vars, RemoteInv, TypeOK, SoundPush, Ref, CommitIds, Clone, Push, Pull, NoPush
  <2>. QED
    BY <1>2, <2>1 DEF vars, serverVars
<1>. QED
  BY <1>1, <1>2

\* commit() moves HEAD's branch, or makes Main, to a commit of what HEAD had.
LEMMA CommitMoves ==
    ASSUME RemoteInv, NEW c \in Clones, NEW tree \in Tree, Commit(c, tree)
    PROVE  LET r  == clone[c]
               s  == clone'[c]
               id == Len(commits) + 1
               b  == IF HeadOf(r) = NoCommit THEN Main ELSE r.head.branch
           IN  /\ id \in CommitIds' /\ UNCHANGED server
               /\ clone' = [clone EXCEPT ![c] = s]
               /\ s.track = r.track /\ s.fetched = r.fetched /\ s.head.branch = b
               /\ HeadOf(s) = id
               /\ \A n \in Branches : s.branch[n] = IF n = b THEN id ELSE r.branch[n]
               /\ commits'[id].reach
                    = {id} \cup (IF HeadOf(r) = NoCommit THEN {} ELSE commits[HeadOf(r)].reach)
<1> DEFINE r  == clone[c]
           s  == clone'[c]
           id == Len(commits) + 1
           b  == IF HeadOf(r) = NoCommit THEN Main ELSE r.head.branch
<1>1. /\ r \in ClonesOver(Ref) /\ clone \in [Clones -> ClonesOver(Ref)]
      /\ HeadOf(r) \in Ref /\ ServerInv
  BY CloneFacts, RemoteServer
<1>2. CASE /\ HeadOf(r) # NoCommit
           /\ Author(<<HeadOf(r)>>, tree)
           /\ clone' = [clone EXCEPT ![c] = Moved(r, id)]
  <2> DEFINE ps == <<HeadOf(r)>>
  <2>1. HeadOf(r) \in CommitIds
    BY <1>1, <1>2 DEF Ref
  <2>2. ps \in Seq(CommitIds) /\ UNION {commits[ps[i]].reach : i \in DOMAIN ps}
                                   = commits[HeadOf(r)].reach
    <3>1. DOMAIN ps = {1} /\ ps[1] = HeadOf(r)
      OBVIOUS
    <3>. QED
      BY <2>1, <3>1, SmallSequences
  <2>3. /\ Len(commits) \in Nat /\ Len(commits') = id
        /\ commits'[id].reach = {id} \cup commits[HeadOf(r)].reach
    BY <1>1, <1>2, <2>2, AuthorReach
  <2>4. s = Moved(r, id)
    BY <1>1, <1>2
  <2>5. /\ s.track = r.track /\ s.fetched = r.fetched /\ s.head.branch = r.head.branch
        /\ \A n \in Branches : s.branch[n] = IF n = r.head.branch THEN id ELSE r.branch[n]
    BY <1>1, <2>4, RemoteAssumption DEF Moved, ClonesOver
  <2>8. HeadOf(s) = id
    BY <1>1, <2>4, RemoteAssumption DEF Moved, ClonesOver, HeadOf
  <2>6. UNCHANGED server /\ id \in CommitIds'
    BY <1>2, <2>3 DEF Author, CommitIds
  <2>7. clone' = [clone EXCEPT ![c] = s]
    <3> HIDE DEF s, r
    <3>. QED
      BY <1>2, <2>4
  <2>. QED
    BY <1>2, <2>3, <2>5, <2>6, <2>7, <2>8
<1>3. CASE /\ HeadOf(r) = NoCommit
           /\ Author(<<>>, tree)
           /\ clone' = [clone EXCEPT ![c].branch[Main] = id,
                                     ![c].head = [branch |-> Main, commit |-> NoCommit]]
  <2> DEFINE ps == <<>>
  <2>1. ps \in Seq(CommitIds) /\ UNION {commits[ps[i]].reach : i \in DOMAIN ps} = {}
    OBVIOUS
  <2>2. /\ Len(commits) \in Nat /\ Len(commits') = id
        /\ commits'[id].reach = {id}
    BY <1>1, <1>3, <2>1, AuthorReach
  <2>3. s = [r EXCEPT !.branch[Main] = id, !.head = [branch |-> Main, commit |-> NoCommit]]
    BY <1>1, <1>3
  <2>4. /\ s.track = r.track /\ s.fetched = r.fetched /\ s.head.branch = Main
        /\ \A n \in Branches : s.branch[n] = IF n = Main THEN id ELSE r.branch[n]
    BY <1>1, <2>3 DEF ClonesOver
  <2>7. HeadOf(s) = id
    BY <2>4, MainAssumption, RemoteAssumption DEF HeadOf
  <2>5. UNCHANGED server /\ id \in CommitIds'
    BY <1>3, <2>2 DEF Author, CommitIds
  <2>6. clone' = [clone EXCEPT ![c] = s]
    <3>1. clone' = [clone EXCEPT ![c] = [clone[c] EXCEPT
              !.branch[Main] = id, !.head = [branch |-> Main, commit |-> NoCommit]]]
      BY <1>3
    <3>2. clone'[c] = [clone[c] EXCEPT
              !.branch[Main] = id, !.head = [branch |-> Main, commit |-> NoCommit]]
      BY <2>3
    <3>. QED
      BY <3>1, <3>2, Zenon
  <2>. QED
    BY <1>3, <2>2, <2>4, <2>5, <2>6, <2>7
<1>. QED
  BY <1>2, <1>3 DEF Commit

\* merge() moves HEAD, if it moves it, to a commit that contains what HEAD had and
\* what was merged, and nothing else that was there.
MergesInto(c, theirs, x) ==
    LET r == clone[c]
        ours == HeadOf(r)
    IN  /\ clone' = [clone EXCEPT ![c] = Moved(r, x)]
        /\ x \in CommitIds'
        /\ commits[ours].reach \subseteq commits'[x].reach
        /\ commits'[x].reach \cap CommitIds \subseteq commits[ours].reach \cup commits[theirs].reach

LEMMA MergeMoves ==
    ASSUME RemoteInv, NEW c \in Clones, NEW theirs \in Ref, NEW s, NEW conflicts,
           Merge(c, theirs, s, conflicts)
    PROVE  /\ UNCHANGED server
           /\ HeadOf(clone[c]) \in CommitIds /\ theirs \in CommitIds
           /\ UNCHANGED <<commits, clone>> \/ \E x \in CommitIds' : MergesInto(c, theirs, x)
<1> DEFINE r == clone[c]
           ours == HeadOf(r)
           id == Len(commits) + 1
<1>1. ServerInv /\ ours \in CommitIds /\ theirs \in CommitIds
  BY CloneFacts, RemoteServer DEF Merge, Ref
<1>2. CASE UNCHANGED <<commits, server, clone>>
  BY <1>1, <1>2
<1>3. CASE /\ Reaches(commits, theirs, ours)
           /\ clone' = [clone EXCEPT ![c] = Moved(r, theirs)]
           /\ UNCHANGED <<commits, server>>
  <2>1. commits[ours].reach \subseteq commits[theirs].reach
    BY <1>1, <1>3 DEF ServerInv, Ancestry, Reaches, CommitIds
  <2>. QED
    BY <1>1, <1>3, <2>1 DEF MergesInto, CommitIds
<1>4. ASSUME NEW idx \in MergeIndexes(commits, ours, theirs), NEW side \in {ours, theirs},
             Author(<<ours, theirs>>, TakeSide(idx, commits[side].tree)),
             clone' = [clone EXCEPT ![c] = Moved(r, id)]
      PROVE  UNCHANGED server /\ MergesInto(c, theirs, id) /\ id \in CommitIds'
  <2> DEFINE ps == <<ours, theirs>>
  <2>1. commits[side] \in CommitRecord
    BY <1>1 DEF ServerInv, ServerTypeOK, CommitIds
  <2>2. TakeSide(idx, commits[side].tree) \in Tree
    BY <2>1, TakeSideIsTree DEF CommitRecord, MergeIndexes
  <2>3. ps \in Seq(CommitIds)
    BY <1>1, SmallSequences
  <2>4. DOMAIN ps = {1, 2} /\ ps[1] = ours /\ ps[2] = theirs
    OBVIOUS
  <2>5. /\ Len(commits) \in Nat /\ Len(commits') = id
        /\ commits'[id].reach = {id} \cup UNION {commits[ps[i]].reach : i \in DOMAIN ps}
    BY <1>1, <1>4, <2>2, <2>3, AuthorReach
  <2>6. UNION {commits[ps[i]].reach : i \in DOMAIN ps}
          = commits[ours].reach \cup commits[theirs].reach
    BY <2>4
  <2>7. id \in CommitIds' /\ id \notin CommitIds
    BY <2>5 DEF CommitIds
  <2>. QED
    BY <1>4, <2>5, <2>6, <2>7 DEF MergesInto, Author
<1>. QED
  BY <1>1, <1>2, <1>3, <1>4 DEF Merge

\* What a local branch had, it keeps.
LocalBranchesKept ==
    \A c \in Clones, n \in Branches : clone[c].branch[n] # NoCommit
        => /\ clone'[c].branch[n] # NoCommit
           /\ Reaches(commits', clone'[c].branch[n], clone[c].branch[n])

\* A step that moves no branch of a clone that there was.
LEMMA BranchesStay ==
    ASSUME RemoteInv, KeepsServer,
           \A c \in Clones, n \in Branches : clone[c].branch[n] # NoCommit
              => clone'[c].branch[n] = clone[c].branch[n]
    PROVE  LocalBranchesKept
<1>. SUFFICES ASSUME NEW c \in Clones, NEW n \in Branches, clone[c].branch[n] # NoCommit
              PROVE  Reaches(commits', clone[c].branch[n], clone[c].branch[n])
  BY DEF LocalBranchesKept
<1>1. clone[c].branch[n] \in CommitIds
  BY CloneFacts DEF ClonesOver, Ref
<1>. QED
  BY <1>1 DEF KeepsServer, RemoteInv, Ancestry, Reaches, CommitIds

\* A step that moves HEAD of one clone to a commit that contains what it had.
LEMMA HeadMoves ==
    ASSUME RemoteInv, KeepsServer, NEW c \in Clones, NEW x \in CommitIds',
           clone' = [clone EXCEPT ![c] = Moved(clone[c], x)],
           HeadOf(clone[c]) # NoCommit => Reaches(commits', x, HeadOf(clone[c]))
    PROVE  LocalBranchesKept
<1>1. clone \in [Clones -> ClonesOver(Ref)]
  BY CloneFacts
<1>2. NoCommit \notin CommitIds'
  BY DEF CommitIds, NoCommit
<1>3. ASSUME NEW d \in Clones, NEW n \in Branches, clone[d].branch[n] # NoCommit
      PROVE  \/ clone'[d].branch[n] = clone[d].branch[n]
             \/ /\ clone'[d].branch[n] # NoCommit
                /\ Reaches(commits', clone'[d].branch[n], clone[d].branch[n])
  <2>1. CASE d = c /\ n = clone[c].head.branch
    <3>1. HeadOf(clone[c]) = clone[c].branch[n] /\ clone'[c].branch[n] = x
      BY <1>1, <2>1, RemoteAssumption DEF HeadOf, Moved, ClonesOver
    <3>. QED
      BY <1>2, <1>3, <2>1, <3>1
  <2>2. CASE d # c \/ n # clone[c].head.branch
    BY <1>1, <2>2 DEF Moved, ClonesOver
  <2>. QED
    BY <2>1, <2>2
<1>4. ASSUME NEW d \in Clones, NEW n \in Branches, clone[d].branch[n] # NoCommit,
             clone'[d].branch[n] = clone[d].branch[n]
      PROVE  Reaches(commits', clone[d].branch[n], clone[d].branch[n])
  <2>1. clone[d].branch[n] \in CommitIds
    BY <1>1, <1>4 DEF ClonesOver, Ref
  <2>. QED
    BY <2>1 DEF KeepsServer, RemoteInv, Ancestry, Reaches, CommitIds
<1>. QED
  BY <1>3, <1>4 DEF LocalBranchesKept

\* However the threads interleave, no step takes a commit off a local branch.
LEMMA LocalStep ==
    ASSUME RemoteInv, [Next]_vars
    PROVE  LocalBranchesKept
<1>1. KeepsServer
  BY RemoteInvStep, RemoteServer, ServerStep
<1>2. CASE UNCHANGED vars
  BY <1>1, <1>2, BranchesStay DEF vars
<1>3. ASSUME NEW c \in Clones
      PROVE  /\ clone \in [Clones -> ClonesOver(Ref)] /\ clone[c] \in ClonesOver(Ref)
             /\ RemoteInv'
  BY CloneFacts, RemoteInvStep
<1>4. ASSUME NEW c \in Clones, NEW tree \in Tree, Commit(c, tree)
      PROVE  LocalBranchesKept
  <2> DEFINE r  == clone[c]
             id == Len(commits) + 1
  <2>1. /\ id \in CommitIds'
        /\ HeadOf(r) # NoCommit => commits'[id].reach = {id} \cup commits[HeadOf(r)].reach
    BY <1>4, CommitMoves
  <2>2. CASE HeadOf(r) # NoCommit
    <3>1. clone' = [clone EXCEPT ![c] = Moved(r, id)]
      BY <1>4, <2>2 DEF Commit
    <3>2. HeadOf(r) \in CommitIds
      BY <2>2, CloneFacts DEF Ref
    <3>3. Reaches(commits', id, HeadOf(r))
      BY <2>1, <2>2, <3>2 DEF Reaches, RemoteInv, Ancestry, CommitIds
    <3>. QED
      BY <1>1, <2>1, <3>1, <3>3, HeadMoves
  <2>3. CASE HeadOf(r) = NoCommit
    <3>1. /\ r.branch[Main] = NoCommit
          /\ clone' = [clone EXCEPT ![c].branch[Main] = id,
                                    ![c].head = [branch |-> Main, commit |-> NoCommit]]
      BY <1>4, <2>3 DEF Commit
    <3>2. \A d \in Clones, n \in Branches : clone[d].branch[n] # NoCommit
             => clone'[d].branch[n] = clone[d].branch[n]
      BY <1>3, <3>1 DEF ClonesOver
    <3>. QED
      BY <1>1, <3>2, BranchesStay
  <2>. QED
    BY <2>2, <2>3
<1>5. ASSUME NEW c \in Clones, NEW theirs \in Ref, NEW s, NEW conflicts,
             Merge(c, theirs, s, conflicts)
      PROVE  LocalBranchesKept
  <2>1. CASE UNCHANGED <<commits, clone>>
    BY <1>1, <2>1, BranchesStay
  <2>2. ASSUME NEW x \in CommitIds', MergesInto(c, theirs, x)
        PROVE  LocalBranchesKept
    <3>1. HeadOf(clone[c]) \in CommitIds
      BY <1>5, MergeMoves
    <3>2. Reaches(commits', x, HeadOf(clone[c]))
      BY <2>2, <3>1 DEF MergesInto, Reaches, RemoteInv, Ancestry, CommitIds
    <3>. QED
      BY <1>1, <2>2, <3>2, HeadMoves DEF MergesInto
  <2>. QED
    BY <1>5, <2>1, <2>2, MergeMoves
<1>6. ASSUME NEW c \in Clones, NEW f \in Fetched(clone[c]), NEW h
      PROVE  f.branch = clone[c].branch /\ [f EXCEPT !.head = h].branch = f.branch
  <2>1. PICK first : f = [clone[c] EXCEPT
            !.track = [n \in Branches |-> IF server[n] # NoCommit THEN server[n] ELSE @[n]],
            !.fetched = first]
    BY <1>6 DEF Fetched
  <2>. QED
    BY <1>3, <2>1 DEF ClonesOver
<1>7. ASSUME NEW c \in Clones, NEW s, clone' = [clone EXCEPT ![c] = s],
             s.branch = clone[c].branch
      PROVE  LocalBranchesKept
  <2>1. \A d \in Clones : clone'[d].branch = clone[d].branch
    BY <1>3, <1>7
  <2>. QED
    BY <1>1, <2>1, BranchesStay
<1>8. ASSUME NEW c \in Clones, Fetch(c) \/ \E t \in Threads : PullFetch(c, t)
      PROVE  LocalBranchesKept
  <2>1. PICK f \in Fetched(clone[c]) : clone' = [clone EXCEPT ![c] = f]
    BY <1>8 DEF Fetch, PullFetch
  <2>. QED
    BY <1>6, <1>7, <2>1
<1>9. ASSUME NEW c \in Clones, NEW n \in Branches, Connect(c, n)
      PROVE  LocalBranchesKept
  <2> DEFINE h == [branch |-> NoBranch, commit |-> server[n]]
  <2>1. PICK f \in Fetched(clone[c]) : clone' = [clone EXCEPT ![c] = [f EXCEPT !.head = h]]
    BY <1>9 DEF Connect
  <2> HIDE DEF h
  <2>2. [f EXCEPT !.head = h].branch = clone[c].branch
    BY <1>6
  <2> DEFINE s == [f EXCEPT !.head = h]
  <2>3. clone' = [clone EXCEPT ![c] = s] /\ s.branch = clone[c].branch
    BY <2>1, <2>2
  <2> HIDE DEF s
  <2>. QED
    BY <1>7, <2>3
<1>10. ASSUME NEW c \in Clones, NEW h, clone' = [clone EXCEPT ![c].head = h]
       PROVE  LocalBranchesKept
  <2>1. [clone[c] EXCEPT !.head = h].branch = clone[c].branch
    BY <1>3 DEF ClonesOver
  <2>. QED
    BY <1>7, <1>10, <2>1
<1>11. ASSUME NEW c \in Clones, NEW n \in Branches, Checkout(c, n) \/ CheckoutTracking(c, n)
       PROVE  LocalBranchesKept
  BY <1>10, <1>11 DEF Checkout, CheckoutTracking
<1>12. ASSUME NEW c \in Clones, NEW n \in Branches, NEW x \in CommitIds, CreateBranch(c, n, x)
       PROVE  LocalBranchesKept
  <2>1. clone[c].branch[n] = NoCommit /\ clone' = [clone EXCEPT ![c].branch[n] = x]
    BY <1>12 DEF CreateBranch
  <2>2. \A d \in Clones, m \in Branches : clone[d].branch[m] # NoCommit
           => clone'[d].branch[m] = clone[d].branch[m]
    BY <1>3, <2>1 DEF ClonesOver
  <2>. QED
    BY <1>1, <2>2, BranchesStay
<1>13. ASSUME NEW c \in Clones, PushEnd(c)
       PROVE  LocalBranchesKept
  <2>1. \A d \in Clones : clone'[d].branch = clone[d].branch
    BY <1>3, <1>13 DEF PushEnd, ClonesOver
  <2>. QED
    BY <1>1, <2>1, BranchesStay
<1>14. ASSUME UNCHANGED clone
       PROVE  LocalBranchesKept
  BY <1>1, <1>14, BranchesStay
<1>15. ASSUME NEW c \in Clones, NEW n \in Branches, NEW s, MergeBranch(c, n, s)
       PROVE  LocalBranchesKept
  <2>1. clone[c].branch[n] \in Ref
    BY <1>3 DEF ClonesOver
  <2>. QED
    BY <1>5, <1>15, <2>1 DEF MergeBranch
<1>16. ASSUME NEW c \in Clones, NEW t \in Threads, PullMerge(c, t)
       PROVE  LocalBranchesKept
  <2>1. Theirs(c, t) \in Ref
    BY <1>16, TheirsType DEF PullMerge
  <2>. QED
    BY <1>5, <1>16, <2>1 DEF PullMerge
<1>17. ASSUME NEW c \in Clones, NEW t \in Threads,
              PullChoose(c, t) \/ PullRaises(c, t) \/ PullReturns(c, t)
       PROVE  LocalBranchesKept
  BY <1>14, <1>17 DEF PullChoose, PullRaises, PullReturns
<1>18. ASSUME NEW c \in Clones, PushBreaks(c) \/ \E n \in Branches : PushStart(c, n)
       PROVE  LocalBranchesKept
  BY <1>14, <1>18 DEF PushBreaks, PushStart
<1>. QED
  BY <1>2, <1>4, <1>8, <1>9, <1>13, <1>15, <1>16, <1>17, <1>18, <1>11, <1>12 DEF Next

\* A tracking reference stays or follows the server, which only moves on.
LEMMA TrackingStep ==
    ASSUME RemoteInv, TrackingIsPublished, [Next]_vars
    PROVE  TrackingIsPublished'
<1>1. CASE Next
  <2>1. ClonesStep(Ref') /\ RemoteInv' /\ KeepsServer /\ ServerInv'
    BY <1>1, RemoteStep, RemoteInvStep, RemoteServer, ServerStep
  <2>. SUFFICES ASSUME NEW c \in Clones, NEW n \in Branches,
                       clone'[c].track[n] # NoCommit
                PROVE  server'[n] # NoCommit
                       /\ Reaches(commits', server'[n], clone'[c].track[n])
    BY DEF TrackingIsPublished, NoCommit
  <2>2. server'[n] # NoCommit => server'[n] \in 1..Len(commits')
    BY <2>1 DEF ServerInv, ServerTypeOK, CommitIds
  <2>3. CASE clone'[c].track[n] = server'[n]
    BY <2>1, <2>2, <2>3 DEF ServerInv, Ancestry
  <2>4. CASE clone'[c].track[n] = clone[c].track[n]
    <3>1. server[n] # NoCommit /\ Reaches(commits, server[n], clone[c].track[n])
      BY <2>4 DEF TrackingIsPublished
    <3>2. server[n] \in CommitIds
      BY <3>1, RemoteServer DEF ServerInv, ServerTypeOK
    <3>3. commits'[server[n]] = commits[server[n]] /\ server'[n] # NoCommit
          /\ Reaches(commits', server'[n], server[n])
      BY <2>1, <3>1, <3>2 DEF KeepsServer
    <3>4. commits'[server[n]].reach \subseteq commits'[server'[n]].reach
      BY <2>1, <2>2, <3>3 DEF ServerInv, Ancestry, Reaches
    <3>. QED
      BY <2>4, <3>1, <3>3, <3>4 DEF Reaches
  <2>. QED
    BY <2>1, <2>3, <2>4 DEF ClonesStep
<1>2. CASE UNCHANGED vars
  BY <1>2 DEF vars, TrackingIsPublished, Reaches
<1>. QED
  BY <1>1, <1>2

\* The state of the clones keeps its types, and with it the rest of the
\* invariant: a push under way moves the server forward from what it told.
THEOREM RemoteType == Spec => [](RemoteInv /\ TypeOK)
<1>1. RemoteInv /\ [Next]_vars => RemoteInv'
  BY RemoteInvStep
<1>2. RemoteInv => TypeOK
  BY DEF RemoteInv
<1>. QED
  BY <1>1, <1>2, RemoteInit, PTL DEF Spec

\* However the pushes, pulls and merges of any number of clones interleave, the
\* remote does what GitServer allows.
THEOREM RemoteImplementsServer == Spec => ImplementsServer
<1>1. RemoteInv /\ [Next]_vars => [ServerNext]_serverVars
  BY RemoteInvStep
<1>. QED
  BY <1>1, RemoteInit, RemoteType, PTL DEF Spec, ServerSpec, ImplementsServer

\* No push, refused, broken off or overtaken, takes a commit off a branch.
THEOREM RemoteMovesForward == Spec => ServerMovesForward
BY RemoteImplementsServer, ServerKept, PTL DEF ImplementsServer

\* What a clone takes for published is on the branch of the remote.
THEOREM RemoteTracking == Spec => []TrackingIsPublished
<1>1. RemoteInv /\ TrackingIsPublished /\ [Next]_vars => TrackingIsPublished'
  BY TrackingStep
<1>. QED
  BY <1>1, RemoteInit, RemoteType, PTL DEF Spec

\* No method of a clone, and no order in which its threads run them, takes a
\* commit off a local branch.
THEOREM RemoteBranches == Spec => BranchesMoveForward
<1>1. RemoteInv /\ [Next]_vars
        => [\A c \in Clones, n \in Branches :
              clone[c].branch[n] # NoCommit /\ clone'[c].branch[n] # NoCommit
              => Reaches(commits', clone'[c].branch[n], clone[c].branch[n])]_vars
  BY LocalStep DEF LocalBranchesKept
<1>. QED
  BY <1>1, RemoteType, PTL DEF Spec, BranchesMoveForward

-----------------------------------------------------------------------------
\* What pull() needs of its callers: no checkout() in the clone while a thread of
\* it is in a pull() ...
NoCheckoutInPulls ==
    [][\A c \in Clones, t \in Threads : pulling[c][t].at \in {"fetched", "chosen"}
          => \A n \in Branches : ~Checkout(c, n) /\ ~CheckoutTracking(c, n)]_vars

\* ... and it is called with a HEAD that has a commit and, if HEAD is on a branch,
\* the remote has a branch of that name.
PullsServerBranches ==
    [][\A c \in Clones, t \in Threads : PullFetch(c, t)
          => /\ HeadOf(clone[c]) # NoCommit
             /\ clone[c].head.branch # NoBranch => server[clone[c].head.branch] # NoCommit]_vars

\* Then HEAD's branch is tracked as long as the pull lasts, and what was chosen is
\* that tracking branch.
PullsTrack ==
    \A c \in Clones, t \in Threads :
        LET r == clone[c]
            p == pulling[c][t]
        IN  p.at \in {"fetched", "chosen"} =>
               /\ HeadOf(r) # NoCommit
               /\ r.head.branch # NoBranch => r.track[r.head.branch] # NoCommit
               /\ p.at = "chosen" => p.tracked /\ r.head.branch = p.branch

\* Of all steps, those of other clones, threads and commits included, only a
\* checkout switches a HEAD that leads to a commit.
LEMMA OnlyCheckoutSwitches ==
    ASSUME RemoteInv, Next, NEW c \in Clones, HeadOf(clone[c]) # NoCommit,
           \A n \in Branches : ~Checkout(c, n) /\ ~CheckoutTracking(c, n)
    PROVE  clone'[c].head.branch = clone[c].head.branch /\ HeadOf(clone'[c]) # NoCommit
<1> DEFINE r == clone[c]
           Goal == clone'[c].head.branch = r.head.branch /\ HeadOf(clone'[c]) # NoCommit
<1>1. /\ clone \in [Clones -> ClonesOver(Ref)] /\ r \in ClonesOver(Ref)
      /\ NoBranch \notin Branches /\ DefaultBranch \in Branches
  BY CloneFacts, RemoteAssumption
<1>2. ASSUME clone'[c].head = r.head, clone'[c].branch = r.branch
      PROVE  Goal
  BY <1>2 DEF HeadOf
<1>3. ASSUME NEW d \in Clones, NEW s, clone' = [clone EXCEPT ![d] = s],
             d # c \/ (s.head = r.head /\ s.branch = r.branch)
      PROVE  Goal
  BY <1>1, <1>2, <1>3
<1>4. UNCHANGED clone => Goal
  BY <1>2
<1>5. ASSUME NEW d \in Clones, NEW tree \in Tree, Commit(d, tree)
      PROVE  Goal
  <2>1. CASE d = c
    <3>1. /\ Len(commits) + 1 # NoCommit
          /\ HeadOf(clone'[c]) = Len(commits) + 1
          /\ clone'[c].head.branch = r.head.branch
      BY <1>5, <2>1, CommitMoves DEF RemoteInv, TypeOK, NoCommit
    <3>. QED
      BY <3>1
  <2>2. CASE d # c
    <3>1. clone' = [clone EXCEPT ![d] = clone'[d]]
      BY <1>5, CommitMoves
    <3>2. clone'[c] = clone[c]
      BY <1>1, <2>2, <3>1
    <3>. QED
      BY <1>2, <3>2
  <2>. QED
    BY <2>1, <2>2
<1>6. ASSUME NEW d \in Clones, Fetch(d) \/ \E t \in Threads : PullFetch(d, t)
      PROVE  Goal
  <2>1. PICK f \in Fetched(clone[d]) : clone' = [clone EXCEPT ![d] = f]
    BY <1>6 DEF Fetch, PullFetch
  <2>2. f.head = clone[d].head /\ f.branch = clone[d].branch
    BY <1>1, CloneFacts, FetchedType DEF Ref
  <2>3. clone'[c].head = r.head /\ clone'[c].branch = r.branch
    BY <1>1, <2>1, <2>2
  <2>. QED
    BY <1>2, <2>3
<1>7. ASSUME NEW d \in Clones, PushEnd(d)
      PROVE  Goal
  BY <1>1, <1>2, <1>7 DEF PushEnd, ClonesOver
<1>8. ASSUME NEW d \in Clones, NEW n \in Branches, Connect(d, n)
      PROVE  Goal
  <2>1. HeadOf(NewClone) = NoCommit
    BY <1>1 DEF NewClone, HeadOf
  <2>2. d # c
    BY <1>8, <2>1 DEF Connect
  <2>. QED
    BY <1>3, <1>8, <2>2 DEF Connect
<1>9. ASSUME NEW d \in Clones, NEW n \in Branches, Checkout(d, n) \/ CheckoutTracking(d, n)
      PROVE  Goal
  <2>1. d # c
    BY <1>9
  <2>2. clone'[c] = clone[c]
    BY <1>1, <1>9, <2>1 DEF Checkout, CheckoutTracking
  <2>. QED
    BY <1>2, <2>2
<1>10. ASSUME NEW d \in Clones, NEW theirs \in Ref, NEW s, NEW conflicts,
              Merge(d, theirs, s, conflicts)
       PROVE  Goal
  <2>1. CASE UNCHANGED clone
    BY <1>4, <2>1
  <2>2. ASSUME NEW x \in CommitIds', MergesInto(d, theirs, x)
        PROVE  Goal
    <3>1. clone' = [clone EXCEPT ![d] = Moved(clone[d], x)] /\ x # NoCommit
      BY <2>2 DEF MergesInto, CommitIds, NoCommit
    <3>2. CASE d = c
      BY <1>1, <3>1, <3>2 DEF Moved, HeadOf, ClonesOver
    <3>. QED
      BY <1>3, <3>1, <3>2
  <2>. QED
    BY <1>10, <2>1, <2>2, MergeMoves
<1>11. ASSUME NEW d \in Clones, NEW n \in Branches, NEW s, MergeBranch(d, n, s)
       PROVE  Goal
  <2>1. clone[d].branch[n] \in Ref
    BY <1>1 DEF ClonesOver
  <2>. QED
    BY <1>10, <1>11, <2>1 DEF MergeBranch
<1>12. ASSUME NEW d \in Clones, NEW t \in Threads, PullMerge(d, t)
       PROVE  Goal
  <2>1. Theirs(d, t) \in Ref
    BY <1>12, TheirsType DEF PullMerge
  <2>. QED
    BY <1>10, <1>12, <2>1 DEF PullMerge
<1>13. ASSUME NEW d \in Clones, NEW n \in Branches, NEW x \in CommitIds, CreateBranch(d, n, x)
       PROVE  Goal
  <2>1. clone[d].branch[n] = NoCommit /\ clone' = [clone EXCEPT ![d].branch[n] = x]
    BY <1>13 DEF CreateBranch
  <2>2. CASE d = c
    <3>1. r.head.branch # n
      BY <1>1, <2>1, <2>2 DEF HeadOf
    <3>. QED
      BY <1>1, <2>1, <2>2, <3>1 DEF HeadOf, ClonesOver
  <2>3. CASE d # c
    BY <1>1, <1>2, <2>1, <2>3
  <2>. QED
    BY <2>2, <2>3
<1>14. ASSUME NEW d \in Clones,
              \/ PushBreaks(d) \/ \E n \in Branches : PushStart(d, n)
              \/ \E t \in Threads :
                    PullChoose(d, t) \/ PullRaises(d, t) \/ PullReturns(d, t)
       PROVE  Goal
  BY <1>4, <1>14 DEF PushBreaks, PushStart, PullChoose, PullRaises, PullReturns
<1>. QED
  BY <1>5, <1>6, <1>7, <1>8, <1>9, <1>11, <1>12, <1>13, <1>14 DEF Next

\* A branch that is tracked stays so, since what it tracks stays on the remote.
LEMMA TrackedStays ==
    ASSUME RemoteInv, TrackingIsPublished, Next, NEW c \in Clones, NEW n \in Branches,
           clone[c].track[n] # NoCommit
    PROVE  clone'[c].track[n] # NoCommit
<1>1. server[n] # NoCommit
  BY DEF TrackingIsPublished
<1>2. server'[n] # NoCommit
  BY <1>1, RemoteStep, RemoteServer, ServerStep DEF KeepsServer
<1>. QED
  BY <1>2, RemoteStep DEF ClonesStep

\* A step takes a pull to "fetched" in PullFetch and to "chosen" in PullChoose only.
LEMMA OnlyItsSections ==
    ASSUME RemoteInv, Next, NEW c \in Clones, NEW t \in Threads,
           pulling'[c][t].at \in {"fetched", "chosen"}
    PROVE  \/ pulling'[c][t] = pulling[c][t]
           \/ PullFetch(c, t) /\ pulling'[c][t].at = "fetched"
           \/ /\ PullChoose(c, t) /\ clone' = clone
              /\ pulling'[c][t].branch = clone[c].head.branch
              /\ pulling'[c][t].tracked = (clone[c].track[clone[c].head.branch] # NoCommit)
<1>1. pulling \in [Clones -> [Threads -> Pull]]
  BY DEF RemoteInv, TypeOK
<1>2. UNCHANGED pulling => pulling'[c][t] = pulling[c][t]
  OBVIOUS
<1>3. ASSUME NEW d \in Clones, NEW u \in Threads, NEW p,
             pulling' = [pulling EXCEPT ![d][u] = p], c # d \/ t # u
      PROVE  pulling'[c][t] = pulling[c][t]
  BY <1>1, <1>3
<1>4. ASSUME NEW d \in Clones, NEW u \in Threads, NEW p,
             pulling' = [pulling EXCEPT ![d][u] = p], c = d, t = u
      PROVE  pulling'[c][t] = p
  BY <1>1, <1>4
<1>5. ASSUME NEW d \in Clones, NEW u \in Threads, PullChoose(d, u)
      PROVE  \/ pulling'[c][t] = pulling[c][t]
             \/ /\ PullChoose(c, t) /\ clone' = clone
                /\ pulling'[c][t].branch = clone[c].head.branch
                /\ pulling'[c][t].tracked = (clone[c].track[clone[c].head.branch] # NoCommit)
  <2> DEFINE p == [NoPull EXCEPT !.at = "chosen", !.branch = clone[d].head.branch,
                        !.tracked = clone[d].track[clone[d].head.branch] # NoCommit]
  <2>1. pulling' = [pulling EXCEPT ![d][u] = p] /\ clone' = clone
    BY <1>5 DEF PullChoose
  <2>2. /\ p.branch = clone[d].head.branch
        /\ p.tracked = (clone[d].track[clone[d].head.branch] # NoCommit)
    BY DEF NoPull
  <2> HIDE DEF p
  <2>. QED
    BY <1>3, <1>4, <1>5, <2>1, <2>2
<1>6. ASSUME NEW d \in Clones, NEW u \in Threads, PullFetch(d, u)
      PROVE  \/ pulling'[c][t] = pulling[c][t]
             \/ PullFetch(c, t) /\ pulling'[c][t].at = "fetched"
  <2> DEFINE p == [NoPull EXCEPT !.at = "fetched"]
  <2>1. pulling' = [pulling EXCEPT ![d][u] = p]
    BY <1>6 DEF PullFetch
  <2>2. p.at = "fetched"
    BY DEF NoPull
  <2> HIDE DEF p
  <2>. QED
    BY <1>3, <1>4, <1>6, <2>1, <2>2
<1>7. ASSUME NEW d \in Clones, NEW u \in Threads,
             \/ PullMerge(d, u) \/ PullRaises(d, u) \/ PullReturns(d, u)
      PROVE  pulling'[c][t] = pulling[c][t]
  <2>1. PICK p : pulling' = [pulling EXCEPT ![d][u] = p] /\ p.at \notin {"fetched", "chosen"}
    <3>2. CASE PullRaises(d, u) \/ PullReturns(d, u)
      <4>1. NoPull.at \notin {"fetched", "chosen"}
        BY DEF NoPull
      <4>2. pulling' = [pulling EXCEPT ![d][u] = NoPull]
        BY <3>2 DEF PullRaises, PullReturns
      <4>. QED
        BY <4>1, <4>2, Zenon
    <3>3. CASE PullMerge(d, u)
      <4>1. PICK conflicts \in BOOLEAN :
               pulling' = [pulling EXCEPT ![d][u].at = "merged", ![d][u].conflicts = conflicts]
        BY <3>3 DEF PullMerge
      <4>2. pulling' = [pulling EXCEPT ![d][u] =
                 [pulling[d][u] EXCEPT !.at = "merged", !.conflicts = conflicts]]
        BY <1>1, <4>1
      <4>3. [pulling[d][u] EXCEPT !.at = "merged", !.conflicts = conflicts].at = "merged"
        BY <1>1 DEF Pull
      <4>. QED
        BY <4>2, <4>3
    <3>. QED
      BY <1>7, <3>2, <3>3
  <2>. QED
    BY <1>3, <1>4, <2>1
<1>8. ASSUME NEW d \in Clones,
             \/ \E tree \in Tree : Commit(d, tree)
             \/ Fetch(d) \/ PushEnd(d) \/ PushBreaks(d)
             \/ \E n \in Branches :
                   \/ Connect(d, n) \/ PushStart(d, n)
                   \/ Checkout(d, n) \/ CheckoutTracking(d, n) \/ \E s : MergeBranch(d, n, s)
                   \/ \E x \in CommitIds : CreateBranch(d, n, x)
      PROVE  UNCHANGED pulling
  BY <1>8 DEF Commit, Fetch, PushEnd, PushBreaks, Connect, PushStart, Checkout,
              CheckoutTracking, MergeBranch, CreateBranch
<1>. QED
  BY <1>2, <1>5, <1>7, <1>8, <1>6 DEF Next

\* A step keeps the tracking of every pull, if these two conditions hold of it.
LEMMA PullsTrackStep ==
    ASSUME RemoteInv, TrackingIsPublished, PullsTrack, Next,
           \A c \in Clones, t \in Threads : pulling[c][t].at \in {"fetched", "chosen"}
              => \A n \in Branches : ~Checkout(c, n) /\ ~CheckoutTracking(c, n),
           \A c \in Clones, t \in Threads : PullFetch(c, t)
              => /\ HeadOf(clone[c]) # NoCommit
                 /\ clone[c].head.branch # NoBranch
                       => server[clone[c].head.branch] # NoCommit
    PROVE  PullsTrack'
<1>. SUFFICES ASSUME NEW c \in Clones, NEW t \in Threads,
                     pulling'[c][t].at \in {"fetched", "chosen"}
              PROVE  /\ HeadOf(clone'[c]) # NoCommit
                     /\ clone'[c].head.branch # NoBranch
                           => clone'[c].track[clone'[c].head.branch] # NoCommit
                     /\ pulling'[c][t].at = "chosen" =>
                           /\ pulling'[c][t].tracked
                           /\ clone'[c].head.branch = pulling'[c][t].branch
  BY DEF PullsTrack, NoCommit
<1>1. clone[c] \in ClonesOver(Ref) /\ clone \in [Clones -> ClonesOver(Ref)]
      /\ NoBranch \notin Branches
  BY CloneFacts, RemoteAssumption
<1>2. ASSUME pulling[c][t].at \in {"fetched", "chosen"}
      PROVE  /\ HeadOf(clone'[c]) # NoCommit
             /\ clone'[c].head.branch = clone[c].head.branch
             /\ clone[c].head.branch # NoBranch
                   => clone'[c].track[clone[c].head.branch] # NoCommit
  <2>1. clone'[c].head.branch = clone[c].head.branch /\ HeadOf(clone'[c]) # NoCommit
    BY <1>2, OnlyCheckoutSwitches DEF PullsTrack
  <2>2. ASSUME clone[c].head.branch # NoBranch
        PROVE  clone'[c].track[clone[c].head.branch] # NoCommit
    <3>1. clone[c].head.branch \in Branches
      BY <1>1, <2>2 DEF ClonesOver
    <3>2. clone[c].track[clone[c].head.branch] # NoCommit
      BY <1>2, <2>2 DEF PullsTrack
    <3>. QED
      BY <3>1, <3>2, TrackedStays
  <2>. QED
    BY <2>1, <2>2
<1>3. CASE pulling'[c][t] = pulling[c][t]
  BY <1>2, <1>3 DEF PullsTrack
<1>4. CASE PullFetch(c, t) /\ pulling'[c][t].at = "fetched"
  <2>1. PICK f \in Fetched(clone[c]) : clone' = [clone EXCEPT ![c] = f]
    BY <1>4 DEF PullFetch
  <2>2. /\ f.head = clone[c].head /\ f.branch = clone[c].branch
        /\ \A n \in Branches : server[n] # NoCommit => f.track[n] = server[n]
    BY <1>1, CloneFacts, FetchedType DEF Ref
  <2>3. clone'[c] = f /\ HeadOf(f) = HeadOf(clone[c])
    BY <1>1, <2>1, <2>2 DEF HeadOf
  <2>4. clone[c].head.branch \in Branches \cup {NoBranch}
    BY <1>1 DEF ClonesOver
  <2>. QED
    BY <1>4, <2>2, <2>3, <2>4
<1>5. CASE /\ PullChoose(c, t) /\ clone' = clone
           /\ pulling'[c][t].branch = clone[c].head.branch
           /\ pulling'[c][t].tracked = (clone[c].track[clone[c].head.branch] # NoCommit)
  <2>1. pulling[c][t].at = "fetched" /\ clone[c].head.branch # NoBranch
    BY <1>5 DEF PullChoose
  <2>2. clone[c].track[clone[c].head.branch] # NoCommit /\ HeadOf(clone[c]) # NoCommit
    BY <2>1 DEF PullsTrack
  <2>3. pulling'[c][t].tracked
    BY <1>5, <2>2, Zenon
  <2>. QED
    BY <1>5, <2>2, <2>3
<1>. QED
  BY <1>3, <1>4, <1>5, OnlyItsSections

\* If nobody checks out while a thread pulls, and pulls are called on branches the
\* remote has, the documentation is right: whatever else the threads of the clone
\* and other clones do between its sections - commit, merge, fetch, push, create
\* branches - pull() merges the tracking branch into the branch it was called on.
THEOREM PullMergesWithoutCheckout ==
    Spec /\ NoCheckoutInPulls /\ PullsServerBranches => PullMergesTrackingBranch
<1>1. Init => PullsTrack
  BY DEF Init, NoPull, PullsTrack
<1>2. /\ RemoteInv /\ TrackingIsPublished /\ PullsTrack /\ [Next]_vars
      /\ [\A c \in Clones, t \in Threads : pulling[c][t].at \in {"fetched", "chosen"}
             => \A n \in Branches : ~Checkout(c, n) /\ ~CheckoutTracking(c, n)]_vars
      /\ [\A c \in Clones, t \in Threads : PullFetch(c, t)
             => /\ HeadOf(clone[c]) # NoCommit
                /\ clone[c].head.branch # NoBranch
                      => server[clone[c].head.branch] # NoCommit]_vars
      => PullsTrack'
  <2>1. UNCHANGED vars /\ PullsTrack => PullsTrack'
    BY DEF vars, PullsTrack, NoCommit, HeadOf
  <2>. QED
    BY <2>1, PullsTrackStep
<1>3. PullsTrack
      => [\A c \in Clones, t \in Threads : PullMerge(c, t)
             => pulling[c][t].tracked /\ clone[c].head.branch = pulling[c][t].branch]_vars
  BY DEF PullsTrack, PullMerge
<1>. QED
  BY <1>1, <1>2, <1>3, RemoteType, RemoteTracking, PTL
  DEF Spec, NoCheckoutInPulls, PullsServerBranches, PullMergesTrackingBranch
=============================================================================
