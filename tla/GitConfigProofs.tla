-------------------------- MODULE GitConfigProofs --------------------------
(***************************************************************************)
(* Proofs about GitConfig: its types, that a proposal stays on a branch of *)
(* its own, that the remote and the local branches keep what they had,     *)
(* with the manager, the watcher and the other clients all at work, and    *)
(* when what publish() has committed reaches the remote.                   *)
(***************************************************************************)
EXTENDS GitConfig, GitRemoteProofs

\* Commit x, if it is one, does not contain commit id.
Avoids(cs, x, id) == x # NoCommit => ~Reaches(cs, x, id)

\* Of all that a clone r and the remote sv have, only branch n contains id.
OnlyOn(cs, r, sv, n, id) ==
    /\ r.branch[n] # NoCommit /\ Reaches(cs, r.branch[n], id)
    /\ \A m \in Branches \ {n} : Avoids(cs, r.branch[m], id)
    /\ \A m \in Branches : Avoids(cs, r.track[m], id) /\ Avoids(cs, sv[m], id)
    /\ Avoids(cs, r.fetched, id)

\* HEAD and the branches while a proposal m is under way in a clone r: its branch
\* is new, and HEAD is where the method has put it.
OnItsBranch(r, m) ==
    /\ m.base # NoBranch => r.branch[m.base] # NoCommit
    /\ m.at \notin {"called", "listed"} =>
          r.branch[m.target] # NoCommit /\ m.base # m.target
    /\ m.at \in {"called", "listed", "branched", "switched"} <=> m.id = NoCommit
    /\ m.at \in {"switched", "proposed"} => r.head.branch = m.target
    /\ m.at \in {"committed", "pushing"} =>
          r.head.branch = IF m.base # NoBranch THEN m.base ELSE m.target

\* And its commit, once made, is on that branch only.
ProposalInv ==
    /\ manager.at = "idle" => manager = NoMethod
    /\ manager.at = "pulling" => manager.target = NoBranch
    /\ manager.at \in {"called", "listed", "branched", "switched", "proposed"} =>
          manager.target # NoBranch
    /\ manager.target # NoBranch =>
          /\ OnItsBranch(Here, manager)
          /\ manager.id # NoCommit =>
                OnlyOn(commits, Here, server, manager.target, manager.id)

\* What a method has committed is on HEAD's branch until the push begins, and in
\* the push from then on.  (Of a proposal, ProposalInv says where it is.)
PushInv ==
    /\ manager.at = "committed" /\ manager.target = NoBranch =>
          Tip # NoCommit /\ Reaches(commits, Tip, manager.id)
    /\ manager.at = "pushing" =>
          pushing[Mine] # NoPush /\ Reaches(commits, pushing[Mine].new, manager.id)

\* The inductive invariant.
ConfigInv == RemoteInv /\ ConfigTypeOK /\ ProposalInv /\ PushInv

-----------------------------------------------------------------------------
\* What the invariant says of the repository and the manager's locals.
LEMMA HereFacts ==
    ASSUME RemoteInv, ConfigTypeOK
    PROVE  /\ Mine \in Clones /\ Manager \in Threads /\ Watcher \in Threads
           /\ clone \in [Clones -> ClonesOver(Ref)] /\ Here \in ClonesOver(Ref)
           /\ Tip \in Ref /\ Ref = CommitIds \cup {NoCommit} /\ NoCommit \notin CommitIds
           /\ worktree \in Tree /\ manager \in Method /\ seen \in Ref
           /\ Main \in Branches /\ NoBranch \notin Branches
           /\ server \in [Branches -> Ref]
<1>1. Mine \in Clones /\ Manager \in Threads /\ Watcher \in Threads
  BY ConfigAssumption
<1>2. clone \in [Clones -> ClonesOver(Ref)] /\ Here \in ClonesOver(Ref) /\ Tip \in Ref
      /\ server \in [Branches -> Ref]
  BY <1>1, CloneFacts DEF Here, Tip
<1>3. NoCommit \notin CommitIds /\ Ref = CommitIds \cup {NoCommit}
  BY DEF CommitIds, NoCommit, Ref
<1>. QED
  BY <1>1, <1>2, <1>3, MainAssumption, RemoteAssumption DEF ConfigTypeOK

\* The tree of a commit is one.
LEMMA TreeOfCommit ==
    ASSUME RemoteInv, NEW x \in Ref
    PROVE  TreeAt(commits, x) \in Tree /\ (x # NoCommit => commits[x].tree \in Tree)
<1>1. EmptyTree \in Tree
  BY DEF EmptyTree, Tree, Content
<1>2. commits \in Seq(CommitRecord)
  BY DEF RemoteInv, TypeOK
<1>3. ASSUME x # NoCommit
      PROVE  commits[x].tree \in Tree
  <2>1. commits[x] \in CommitRecord
    BY <1>2, <1>3 DEF Ref, CommitIds
  <2>. QED
    BY <2>1 DEF CommitRecord
<1>. QED
  BY <1>1, <1>3 DEF TreeAt

\* What a step of the other clients does: a commit on what the branch had.
LEMMA PeerStep ==
    ASSUME RemoteInv, NEW n \in Branches, NEW tree \in Tree, PeerPublishes(n, tree)
    PROVE  LET id == Len(commits) + 1
           IN  /\ RemoteInv' /\ KeepsServer /\ id \in CommitIds' /\ id \notin CommitIds
               /\ server' = [server EXCEPT ![n] = id]
               /\ commits'[id].reach = {id} \cup
                     (IF server[n] = NoCommit THEN {} ELSE commits[server[n]].reach)
<1> DEFINE id == Len(commits) + 1
           ps == IF server[n] = NoCommit THEN <<>> ELSE <<server[n]>>
<1>1. ServerInv /\ commits \in Seq(CommitRecord) /\ Len(commits) \in Nat
      /\ server \in [Branches -> Ref]
  BY RemoteServer DEF RemoteInv, TypeOK
<1>2. ps \in Seq(1..Len(commits))
      /\ UNION {commits[ps[i]].reach : i \in DOMAIN ps}
           = IF server[n] = NoCommit THEN {} ELSE commits[server[n]].reach
  <2>1. CASE server[n] = NoCommit
    BY <2>1
  <2>2. CASE server[n] # NoCommit
    <3>1. server[n] \in 1..Len(commits) /\ ps = <<server[n]>>
      BY <1>1, <2>2 DEF Ref, CommitIds
    <3>2. DOMAIN ps = {1} /\ ps[1] = server[n]
      BY <3>1
    <3>. QED
      BY <2>2, <3>1, <3>2, SmallSequences
  <2>. QED
    BY <2>1, <2>2
<1>3. commits' = Append(commits, NewCommit(commits, ps, tree))
      /\ server' = [server EXCEPT ![n] = id]
      /\ UNCHANGED <<clone, pulling, pushing>>
  BY DEF PeerPublishes
<1> HIDE DEF ps
<1>4. Ancestry(commits') /\ Extends(commits', commits, ps, tree)
  BY <1>1, <1>2, <1>3, AppendAncestry, AppendCommit DEF ServerInv
<1>5. /\ commits' \in Seq(CommitRecord) /\ Len(commits') = id
      /\ \A c \in 1..Len(commits) : c \in 1..Len(commits') /\ commits'[c] = commits[c]
      /\ commits'[id].reach = {id} \cup UNION {commits[ps[i]].reach : i \in DOMAIN ps}
  BY <1>4 DEF Extends
<1>6. CommitIds \subseteq CommitIds' /\ id \in CommitIds' /\ id \notin CommitIds
  BY <1>1, <1>5 DEF CommitIds
<1>7. Ref \subseteq Ref' /\ id \in Ref'
  BY <1>6 DEF Ref
<1>8. KeepsServer
  <2>1. \A m \in Branches : server[m] # NoCommit
           => server'[m] # NoCommit /\ Reaches(commits', server'[m], server[m])
    <3>. SUFFICES ASSUME NEW m \in Branches, server[m] # NoCommit
                  PROVE  server'[m] # NoCommit /\ Reaches(commits', server'[m], server[m])
      OBVIOUS
    <3>1. server[m] \in 1..Len(commits) /\ Reaches(commits, server[m], server[m])
      BY <1>1 DEF Ref, CommitIds, ServerInv, Ancestry
    <3>2. CASE m = n
      BY <1>1, <1>2, <1>3, <1>5, <3>1, <3>2 DEF Reaches, NoCommit
    <3>3. CASE m # n
      BY <1>1, <1>3, <1>5, <3>1, <3>3 DEF Reaches
    <3>. QED
      BY <3>2, <3>3
  <2>. QED
    BY <1>5, <1>6, <2>1 DEF KeepsServer, CommitIds
<1>9. TypeOK'
  <2>1. clone' \in [Clones -> Clone']
    <3>1. Clone \subseteq Clone'
      BY <1>7 DEF Clone
    <3>. QED
      BY <1>3, <3>1 DEF RemoteInv, TypeOK
  <2>2. pushing' \in [Clones -> Push']
    <3>1. Push \subseteq Push'
      BY <1>7 DEF Push
    <3>. QED
      BY <1>3, <3>1 DEF RemoteInv, TypeOK
  <2>3. server' \in [Branches -> Ref']
    BY <1>1, <1>3, <1>7
  <2>4. pulling' \in [Clones -> [Threads -> Pull]]
    BY <1>3 DEF RemoteInv, TypeOK
  <2>. QED
    BY <1>5, <2>1, <2>2, <2>3, <2>4 DEF TypeOK, Pull
<1>10. ASSUME NEW c \in Clones
       PROVE  pushing'[c] = NoPush' \/ SoundPush(pushing[c])'
  <2>1. pushing'[c] = pushing[c] /\ pushing[c] \in Push /\ NoPush' = NoPush
    BY <1>3 DEF RemoteInv, TypeOK, NoPush
  <2>2. ASSUME SoundPush(pushing[c])
        PROVE  SoundPush(pushing[c])'
    <3>1. pushing[c].new \in 1..Len(commits)
      BY <2>1, <2>2 DEF SoundPush, Push, Ref, CommitIds
    <3>. QED
      BY <1>5, <2>1, <2>2, <3>1 DEF SoundPush, Reaches
  <2>. QED
    BY <2>1, <2>2 DEF RemoteInv
<1>11. RemoteInv'
  BY <1>3, <1>4, <1>9, <1>10 DEF RemoteInv
<1>. QED
  BY <1>2, <1>3, <1>5, <1>6, <1>8, <1>11

-----------------------------------------------------------------------------
\* What the manager and the watcher do to the repository are its methods.
LEMMA ClientStep ==
    ASSUME ConfigInv,
           ManagerNext \/ WatcherNext \/ \E n \in Branches : Connected(n)
    PROVE  [Next]_vars
<1>1. /\ Mine \in Clones /\ Manager \in Threads /\ Watcher \in Threads
      /\ Here \in ClonesOver(Ref)
      /\ Tip \in Ref /\ Ref = CommitIds \cup {NoCommit} /\ NoCommit \notin CommitIds
      /\ worktree \in Tree /\ manager \in Method /\ NoBranch \notin Branches
  BY HereFacts DEF ConfigInv
<1>2. UNCHANGED remoteVars => [Next]_vars
  BY DEF remoteVars, vars
<1>3. ASSUME NEW tree \in Tree, Commit(Mine, tree)
      PROVE  Next
  BY <1>1, <1>3 DEF Next
<1>4. Fetch(Mine) \/ PushEnd(Mine) \/ PushBreaks(Mine) => Next
  BY <1>1 DEF Next
<1>5. ASSUME NEW n \in Branches,
             \/ Connect(Mine, n) \/ PushStart(Mine, n) \/ Checkout(Mine, n)
             \/ MergeBranch(Mine, n, "detect")
             \/ \E x \in CommitIds : CreateBranch(Mine, n, x)
      PROVE  Next
  BY <1>1, <1>5 DEF Next
<1>6. ASSUME NEW t \in {Manager, Watcher},
             \/ PullFetch(Mine, t) \/ PullChoose(Mine, t) \/ PullMerge(Mine, t)
             \/ PullRaises(Mine, t) \/ PullReturns(Mine, t)
      PROVE  Next
  BY <1>1, <1>6 DEF Next
<1>7. manager.target # NoBranch => manager.target \in Branches
  BY <1>1 DEF Method
<1>8. manager.base # NoBranch => manager.base \in Branches
  BY <1>1 DEF Method
<1>9. CASE \E q \in Paths, content \in Content : WriteConfig(q, content)
  BY <1>2, <1>9 DEF WriteConfig
<1>10. CASE PublishCommit
  BY <1>1, <1>3, <1>10 DEF PublishCommit
<1>11. CASE PublishPush
  <2>1. PushedBranch \in Branches
    BY <1>1, <1>7, <1>11 DEF PublishPush, PushStart, MayPush, PushedBranch, ClonesOver
  <2>. QED
    BY <1>5, <1>11, <2>1 DEF PublishPush
<1>12. CASE \/ PublishRefused \/ ProposeList \/ ProposeRaises
            \/ \E n \in Branches : ProposeCall(n)
            \/ \E q \in Paths : ProposeReadFile(q) \/ ProposeWrite(q)
  BY <1>2, <1>12 DEF PublishRefused, ProposeCall, ProposeList, ProposeReadFile, ProposeWrite,
     ProposeRaises, CheckoutCancelled
<1>13. CASE PublishEnd
  BY <1>4, <1>13 DEF PublishEnd
<1>14. CASE SyncFetch \/ SyncChoose \/ SyncMerge \/ SyncEnd
  BY <1>4, <1>6, <1>14 DEF SyncFetch, SyncChoose, SyncMerge, SyncEnd
<1>15. ASSUME NEW n \in Branches,
              \/ SwitchEnvironment(n) \/ ApplyProposal(n) \/ Connected(n)
              \/ \E x \in CommitIds : CreateEnvironment(n, x)
       PROVE  [Next]_vars
  BY <1>2, <1>5, <1>15 DEF SwitchEnvironment, CheckoutFiles, CheckoutCancelled, ApplyProposal,
     Connected, CreateEnvironment
<1>16. CASE ProposeBranch
  <2>1. manager.target \in Branches
    BY <1>7, <1>16 DEF ProposeBranch, ConfigInv, ProposalInv
  <2>2. CreateBranch(Mine, manager.target, Tip) => Tip \in CommitIds
    BY DEF CreateBranch, Named
  <2>. QED
    BY <1>2, <1>5, <1>16, <2>1, <2>2 DEF ProposeBranch
<1>17. CASE ProposeSwitch
  <2>1. manager.target \in Branches
    BY <1>7, <1>17 DEF ProposeSwitch, ConfigInv, ProposalInv
  <2>. QED
    BY <1>5, <1>17, <2>1 DEF ProposeSwitch, CheckoutFiles
<1>18. CASE ProposeCommit
  BY <1>1, <1>3, <1>18 DEF ProposeCommit
<1>19. CASE ProposeBack
  BY <1>2, <1>5, <1>8, <1>19 DEF ProposeBack, CheckoutFiles, remoteVars
<1>20. CASE WatcherNext
  BY <1>6, <1>20 DEF WatcherNext, PollFetch, PollChoose, PollMerge, PollRaises, PollNotify
<1>21. CASE ManagerNext
  <2>1. CASE \E n \in Branches :
                \/ SwitchEnvironment(n) \/ ApplyProposal(n) \/ ProposeCall(n)
                \/ \E x \in CommitIds : CreateEnvironment(n, x)
    BY <1>12, <1>15, <2>1
  <2>2. CASE \E q \in Paths : ProposeReadFile(q) \/ ProposeWrite(q)
    BY <1>12, <2>2
  <2>. QED
    BY <1>9, <1>10, <1>11, <1>12, <1>13, <1>14, <1>16, <1>17, <1>18, <1>19, <1>21, <2>1, <2>2
    DEF ManagerNext
<1>. QED
  BY <1>15, <1>20, <1>21

\* Every step keeps the invariant of the repository and what the remote has.
LEMMA RepositoryStep ==
    ASSUME ConfigInv, ConfigNext
    PROVE  RemoteInv' /\ KeepsServer
<1>1. RemoteInv /\ ServerInv
  BY RemoteServer DEF ConfigInv
<1>2. CASE ManagerNext \/ WatcherNext \/ \E n \in Branches : Connected(n)
  BY <1>1, <1>2, ClientStep, RemoteInvStep, ServerStep
<1>3. CASE \E n \in Branches, tree \in Tree : PeerPublishes(n, tree)
  BY <1>1, <1>3, PeerStep
<1>. QED
  BY <1>2, <1>3 DEF ConfigNext

-----------------------------------------------------------------------------
\* Types.
MethodOver(S) ==
    [at : {"idle", "committed", "pushing", "pulling",
           "called", "listed", "branched", "switched", "proposed"},
     id      : S,
     base    : Branches \cup {NoBranch},
     target  : Branches \cup {NoBranch},
     pending : SUBSET Paths,
     files   : Tree]

\* A step keeps the types of what the manager and the watcher hold.
LEMMA ConfigTypeStep ==
    ASSUME ConfigInv, ConfigNext
    PROVE  ConfigTypeOK'
<1>1. RemoteInv' /\ KeepsServer /\ RemoteInv
  BY RepositoryStep DEF ConfigInv
<1>2. /\ Mine \in Clones /\ Here \in ClonesOver(Ref) /\ Tip \in Ref
      /\ Ref = CommitIds \cup {NoCommit}
      /\ worktree \in Tree /\ manager \in Method /\ seen \in Ref
      /\ server \in [Branches -> Ref]
  BY HereFacts DEF ConfigInv
<1>3. Ref \subseteq Ref'
  BY <1>1 DEF KeepsServer, Ref
<1>4. manager \in MethodOver(Ref') /\ NoMethod \in MethodOver(Ref')
  <2>1. EmptyTree \in Tree /\ NoCommit \in Ref'
    BY DEF EmptyTree, Tree, Content, Ref
  <2>. QED
    BY <1>2, <1>3, <2>1 DEF Method, MethodOver, NoMethod
<1>5. ASSUME NEW at \in {"committed", "pushing", "pulling", "branched", "switched", "proposed"},
             NEW id \in Ref'
      PROVE  /\ [manager EXCEPT !.at = at] \in MethodOver(Ref')
             /\ [manager EXCEPT !.at = at, !.id = id] \in MethodOver(Ref')
  BY <1>4 DEF MethodOver
<1>6. NoCommit \in Ref'
  BY DEF Ref
<1>7. \A at \in {"committed", "pushing", "pulling", "branched", "switched", "proposed"} :
        Continue(at) => manager' \in MethodOver(Ref')
  BY <1>5, <1>6 DEF Continue
<1>8. Return => manager' \in MethodOver(Ref')
  BY <1>4 DEF Return
<1>9. manager' \in MethodOver(Ref')
  <2>1. ASSUME NEW tree \in Tree, Commit(Mine, tree)
        PROVE  Len(commits) + 1 \in Ref'
    BY <1>1, <1>2, <2>1, CommitMoves DEF Ref
  <2>2. CASE PublishCommit
    BY <1>2, <1>5, <2>1, <2>2 DEF PublishCommit
  <2>3. CASE ProposeCommit
    BY <1>2, <1>5, <2>1, <2>3 DEF ProposeCommit
  <2>4. ASSUME NEW n \in Branches, ProposeCall(n)
        PROVE  manager' \in MethodOver(Ref')
    <3> DEFINE base == IF Tip = NoCommit THEN NoBranch ELSE Here.head.branch
    <3>1. base \in Branches \cup {NoBranch}
      BY <1>2 DEF ClonesOver
    <3>2. manager' = [NoMethod EXCEPT !.at = "called", !.target = n, !.base = base]
      BY <2>4 DEF ProposeCall
    <3> HIDE DEF base
    <3>. QED
      BY <1>2, <1>4, <3>1, <3>2 DEF MethodOver
  <2>5. ASSUME NEW q \in Paths, ProposeReadFile(q) \/ ProposeWrite(q)
         PROVE  manager' \in MethodOver(Ref')
    <3> DEFINE content == IF worktree[q] # Absent THEN worktree[q] ELSE TreeAt(commits, Tip)[q]
    <3>1. TreeAt(commits, Tip) \in Tree /\ Absent \in Content
      BY <1>1, <1>2, TreeOfCommit DEF Content
    <3>2. content \in Content
      BY <1>2, <3>1 DEF Tree
    <3>3. PICK v \in Content, left \in SUBSET Paths :
             manager' = [manager EXCEPT !.pending = left, !.files[q] = v]
      <4>1. CASE ProposeReadFile(q)
        <5>1. manager' = [manager EXCEPT !.pending = manager.pending \ {q},
                                         !.files[q] = content]
          BY <1>2, <4>1 DEF ProposeReadFile, Method
        <5>2. manager.pending \ {q} \in SUBSET Paths
          BY <1>2 DEF Method
        <5> HIDE DEF content
        <5>. QED
          BY <3>2, <5>1, <5>2
      <4>2. CASE ProposeWrite(q)
        <5>1. manager' = [manager EXCEPT !.pending = manager.pending, !.files[q] = Absent]
          BY <1>2, <4>2 DEF ProposeWrite, Method
        <5>2. manager.pending \in SUBSET Paths
          BY <1>2 DEF Method
        <5>. QED
          BY <3>1, <5>1, <5>2
      <4>. QED
        BY <2>5, <4>1, <4>2
    <3> HIDE DEF content
    <3>4. [manager.files EXCEPT ![q] = v] \in Tree
      BY <1>2, <3>3 DEF Method, Tree
    <3>. QED
      BY <1>4, <3>3, <3>4 DEF MethodOver
  <2>6. CASE ProposeList
    BY <1>4, <2>6 DEF ProposeList, MethodOver
  <2>7. CASE PublishPush \/ PublishRefused \/ PublishEnd
    BY <1>7, <1>8, <2>7 DEF PublishPush, PublishRefused, PublishEnd
  <2>8. CASE SyncFetch \/ SyncChoose \/ SyncMerge \/ SyncEnd
    BY <1>4, <1>7, <1>8, <2>8 DEF SyncFetch, SyncChoose, SyncMerge, SyncEnd
  <2>9. CASE ProposeBranch \/ ProposeSwitch \/ ProposeBack \/ ProposeRaises
    BY <1>7, <1>8, <2>9 DEF ProposeBranch, ProposeSwitch, ProposeBack, ProposeRaises
  <2>10. ASSUME UNCHANGED manager
        PROVE  manager' \in MethodOver(Ref')
    BY <1>4, <2>10
  <2>11. CASE \/ WatcherNext \/ \E q \in Paths, content \in Content : WriteConfig(q, content)
            \/ \E n \in Branches :
                  \/ SwitchEnvironment(n) \/ ApplyProposal(n) \/ Connected(n)
                  \/ \E x \in CommitIds : CreateEnvironment(n, x)
                  \/ \E tree \in Tree : PeerPublishes(n, tree)
    BY <2>10, <2>11 DEF WatcherNext, WriteConfig, SwitchEnvironment, ApplyProposal, Connected,
       CreateEnvironment, PeerPublishes, PollFetch, PollChoose, PollMerge, PollRaises, PollNotify
  <2>. QED
    BY <2>2, <2>3, <2>4, <2>7, <2>8, <2>9, <2>11, <2>5, <2>6 DEF ConfigNext, ManagerNext
<1>10. worktree' \in Tree
  <2>1. FollowHead => worktree' \in Tree
    <3>1. HeadOf(clone'[Mine]) \in Ref'
      <4>1. clone' \in [Clones -> ClonesOver(Ref')]
        BY <1>1 DEF RemoteInv, TypeOK, Clone, ClonesOver
      <4>. QED
        BY <1>2, <4>1, HeadOfType
    <3>2. TreeAt(commits', HeadOf(clone'[Mine])) \in Tree
      <4>1. commits' \in Seq(CommitRecord)
        BY <1>1 DEF RemoteInv, TypeOK
      <4>2. HeadOf(clone'[Mine]) # NoCommit => commits'[HeadOf(clone'[Mine])] \in CommitRecord
        BY <3>1, <4>1 DEF Ref, CommitIds
      <4>3. EmptyTree \in Tree
        BY DEF EmptyTree, Tree, Content
      <4>. QED
        BY <4>2, <4>3 DEF TreeAt, CommitRecord
    <3>. QED
      BY <1>2, <3>2 DEF FollowHead
  <2>2. ASSUME NEW n \in Branches, CheckoutFiles(n)
        PROVE  worktree' \in Tree
    <3>1. Here.branch[n] \in Ref /\ Here.branch[n] # NoCommit
      BY <1>2, <2>2 DEF CheckoutFiles, Checkout, Here, ClonesOver
    <3>2. commits[Here.branch[n]].tree \in Tree
      BY <1>1, <3>1, TreeOfCommit
    <3>. QED
      BY <2>2, <3>2 DEF CheckoutFiles
  <2>3. ASSUME NEW n \in Branches, Connected(n)
        PROVE  worktree' \in Tree
    <3>1. server[n] \in Ref /\ server[n] # NoCommit
      BY <1>2, <2>3 DEF Connected, Connect
    <3>2. commits[server[n]].tree \in Tree
      BY <1>1, <3>1, TreeOfCommit
    <3>. QED
      BY <2>3, <3>2 DEF Connected
  <2>4. ASSUME NEW n \in Branches, CheckoutCancelled(n)
         PROVE  worktree' \in Tree
    <3>1. Here.branch[n] \in Ref /\ Here.branch[n] # NoCommit
      BY <1>2, <2>4 DEF CheckoutCancelled, Here, ClonesOver
    <3>2. commits[Here.branch[n]].tree \in Tree
      BY <1>1, <3>1, TreeOfCommit
    <3>. QED
      BY <2>4, <3>2 DEF CheckoutCancelled, Tree, Content
  <2>5. CASE \/ \E q \in Paths, content \in Content : WriteConfig(q, content)
             \/ \E q \in Paths : ProposeWrite(q)
    BY <1>2, <2>5 DEF WriteConfig, ProposeWrite, Tree, Method
  <2>6. CASE SyncMerge \/ PollMerge \/ \E n \in Branches : ApplyProposal(n)
    BY <2>1, <2>6 DEF SyncMerge, PollMerge, ApplyProposal
  <2>7. CASE ProposeSwitch \/ ProposeBack \/ ProposeRaises
             \/ \E n \in Branches : SwitchEnvironment(n)
    <3>1. manager.at = "branched" => manager.target \in Branches
      BY <1>2 DEF ConfigInv, ProposalInv, Method
    <3>2. manager.base # NoBranch => manager.base \in Branches
      BY <1>2 DEF Method
    <3>. QED
      BY <1>2, <2>2, <2>7, <2>4, <3>1, <3>2
      DEF ProposeSwitch, ProposeBack, ProposeRaises, SwitchEnvironment
  <2>8. ASSUME UNCHANGED worktree
        PROVE  worktree' \in Tree
    BY <1>2, <2>8
  <2>9. CASE \/ PublishCommit \/ PublishPush \/ PublishRefused \/ PublishEnd
            \/ SyncFetch \/ SyncChoose \/ SyncEnd
            \/ ProposeList \/ ProposeBranch \/ ProposeCommit
            \/ PollFetch \/ PollChoose \/ PollRaises \/ PollNotify
    BY <2>8, <2>9 DEF PublishCommit, PublishPush, PublishRefused, PublishEnd, SyncFetch,
       SyncChoose, SyncEnd, ProposeList, ProposeBranch, ProposeCommit, PollFetch, PollChoose,
       PollRaises, PollNotify
  <2>10. CASE \E n \in Branches, tree \in Tree : PeerPublishes(n, tree)
    BY <2>10, <2>8 DEF PeerPublishes
  <2>11. CASE \E n \in Branches :
                 \/ SwitchEnvironment(n) \/ ApplyProposal(n) \/ ProposeCall(n)
                 \/ \E x \in CommitIds : CreateEnvironment(n, x)
    <3>1. CASE \E n \in Branches : ProposeCall(n) \/ \E x \in CommitIds : CreateEnvironment(n, x)
      BY <2>8, <3>1 DEF ProposeCall, CreateEnvironment
    <3>. QED
      BY <2>6, <2>7, <2>11, <3>1
  <2>12. CASE \E q \in Paths : ProposeReadFile(q) \/ ProposeWrite(q)
    <3>1. CASE \E q \in Paths : ProposeReadFile(q)
      BY <2>8, <3>1 DEF ProposeReadFile
    <3>. QED
      BY <2>5, <2>12, <3>1
  <2>13. CASE ManagerNext
    BY <2>5, <2>6, <2>7, <2>9, <2>11, <2>12, <2>13 DEF ManagerNext
  <2>14. CASE WatcherNext
    BY <2>6, <2>9, <2>14 DEF WatcherNext
  <2>. QED
    BY <2>3, <2>10, <2>13, <2>14 DEF ConfigNext
<1>11. seen' \in Ref'
  <2>1. UNCHANGED seen => seen' \in Ref'
    BY <1>2, <1>3
  <2>2. CASE ManagerNext \/ \E n \in Branches, tree \in Tree : PeerPublishes(n, tree)
    <3>1. UNCHANGED seen
      BY <2>2 DEF ManagerNext, WriteConfig, PublishCommit, PublishPush, PublishRefused,
         PublishEnd, SyncFetch, SyncChoose, SyncMerge, SyncEnd, SwitchEnvironment,
         ApplyProposal, CreateEnvironment, ProposeCall, ProposeList, ProposeReadFile,
         ProposeBranch, ProposeSwitch, ProposeWrite, ProposeCommit, ProposeBack, ProposeRaises,
         PeerPublishes
    <3>. QED
      BY <2>1, <3>1
  <2>3. CASE WatcherNext
    BY <1>2, <1>3, <2>1, <2>3
       DEF WatcherNext, PollFetch, PollChoose, PollMerge, PollRaises, PollNotify
  <2>4. CASE \E n \in Branches : Connected(n)
    BY <1>2, <1>3, <2>4 DEF Connected
  <2>. QED
    BY <2>2, <2>3, <2>4 DEF ConfigNext
<1>12. MethodOver(Ref') = Method'
  BY DEF MethodOver, Method
<1>. QED
  BY <1>1, <1>9, <1>10, <1>11, <1>12 DEF ConfigTypeOK, RemoteInv

-----------------------------------------------------------------------------
\* The proposal of proposeChanges() and what the other threads do meanwhile.

\* A commit that others do not contain is not contained by making others.
LEMMA AvoidsKept ==
    ASSUME RemoteInv, KeepsServer, NEW x \in Ref, NEW id, Avoids(commits, x, id)
    PROVE  Avoids(commits', x, id)
BY DEF Avoids, KeepsServer, Reaches, Ref

\* The commit of a proposal is one of the commits, and its branch leads to one.
LEMMA OnlyOnTypes ==
    ASSUME RemoteInv, ConfigTypeOK, NEW n \in Branches, NEW id,
           OnlyOn(commits, Here, server, n, id)
    PROVE  id \in CommitIds /\ Here.branch[n] \in CommitIds
<1>1. Here.branch[n] \in CommitIds
  BY HereFacts DEF OnlyOn, ClonesOver
<1>. QED
  BY <1>1 DEF OnlyOn, RemoteInv, Ancestry, Reaches, CommitIds

\* fetch() brings only what the remote has.
LEMMA FetchKeepsApart ==
    ASSUME RemoteInv, ConfigTypeOK, NEW n \in Branches, NEW id,
           OnlyOn(commits, Here, server, n, id), NEW f \in Fetched(Here)
    PROVE  OnlyOn(commits, f, server, n, id)
<1>1. Here \in ClonesOver(Ref) /\ server \in [Branches -> Ref] /\ NoCommit \in Ref
  BY HereFacts DEF Ref
<1>2. \A m \in Branches : f.track[m] \in {Here.track[m], server[m]}
  BY <1>1, FetchedType
<1> DEFINE tips == {server[m] : m \in Branches} \ {NoCommit}
<1>3. PICK first \in IF tips = {} THEN {NoCommit} ELSE tips :
         f = [Here EXCEPT !.track = [m \in Branches |-> IF server[m] # NoCommit
                                                        THEN server[m] ELSE @[m]],
                          !.fetched = first]
  BY DEF Fetched
<1>4. f.branch = Here.branch /\ f.fetched = first
  BY <1>1, <1>3 DEF ClonesOver
<1>5. Avoids(commits, first, id)
  BY <1>3 DEF OnlyOn, Avoids
<1>. QED
  BY <1>2, <1>4, <1>5 DEF OnlyOn

\* merge() puts on HEAD's branch what was merged, and nothing on the others.
LEMMA MergeKeepsApart ==
    ASSUME RemoteInv, ConfigTypeOK, KeepsServer, NEW n \in Branches, NEW id,
           OnlyOn(commits, Here, server, n, id),
           NEW theirs \in Ref, Avoids(commits, theirs, id),
           NEW s, NEW conflicts, Merge(Mine, theirs, s, conflicts)
    PROVE  OnlyOn(commits', clone'[Mine], server', n, id)
<1>1. /\ Mine \in Clones /\ clone \in [Clones -> ClonesOver(Ref)] /\ Here \in ClonesOver(Ref)
      /\ NoBranch \notin Branches /\ NoCommit \notin CommitIds
      /\ server \in [Branches -> Ref]
  BY HereFacts
<1>2. id \in CommitIds /\ Here.branch[n] \in CommitIds
  BY OnlyOnTypes
<1>3. /\ UNCHANGED server
      /\ HeadOf(Here) \in CommitIds /\ theirs \in CommitIds
      /\ UNCHANGED <<commits, clone>> \/ \E x \in CommitIds' : MergesInto(Mine, theirs, x)
  BY <1>1, MergeMoves DEF Here
<1>4. CASE UNCHANGED <<commits, clone>>
  BY <1>3, <1>4 DEF Here
<1>5. ASSUME NEW x \in CommitIds', MergesInto(Mine, theirs, x)
      PROVE  OnlyOn(commits', clone'[Mine], server', n, id)
  <2> DEFINE r == clone'[Mine]
             ours == HeadOf(Here)
  <2>1. /\ commits[ours].reach \subseteq commits'[x].reach
        /\ commits'[x].reach \cap CommitIds
              \subseteq commits[ours].reach \cup commits[theirs].reach
        /\ x # NoCommit
    BY <1>5 DEF MergesInto, Here, CommitIds, NoCommit
  <2>2. r = Moved(Here, x)
    BY <1>1, <1>5 DEF MergesInto, Here
  <2>3. r.track = Here.track /\ r.fetched = Here.fetched
    BY <1>1, <2>2 DEF Moved, ClonesOver
  <2>4. \A m \in Branches : r.branch[m] =
           IF m = Here.head.branch THEN x ELSE Here.branch[m]
    BY <1>1, <2>2 DEF Moved, ClonesOver
  <2>5. \A m \in Branches : m = Here.head.branch => ours = Here.branch[m]
    BY <1>1 DEF HeadOf
  <2> HIDE DEF r, ours
  <2>6. ASSUME NEW m \in Branches \ {n}
        PROVE  Avoids(commits', r.branch[m], id)
    <3>1. CASE m = Here.head.branch
      <4>1. id \notin commits[ours].reach
        BY <1>3, <2>5, <3>1, <1>1 DEF OnlyOn, Avoids, Reaches, ours
      <4>2. id \notin commits[theirs].reach
        BY <1>1, <1>3 DEF Avoids, Reaches
      <4>. QED
        BY <1>2, <2>1, <2>4, <3>1, <4>1, <4>2 DEF Avoids, Reaches
    <3>2. CASE m # Here.head.branch
      <4>1. r.branch[m] = Here.branch[m] /\ Here.branch[m] \in Ref
        BY <1>1, <2>4, <3>2 DEF ClonesOver
      <4>. QED
        BY <4>1, AvoidsKept DEF OnlyOn
    <3>. QED
      BY <3>1, <3>2
  <2>7. r.branch[n] # NoCommit /\ Reaches(commits', r.branch[n], id)
    <3>1. CASE n = Here.head.branch
      BY <2>1, <2>4, <2>5, <3>1 DEF OnlyOn, Reaches
    <3>2. CASE n # Here.head.branch
      BY <1>2, <2>4, <3>2 DEF OnlyOn, KeepsServer, Reaches
    <3>. QED
      BY <3>1, <3>2
  <2>8. \A m \in Branches : Avoids(commits', r.track[m], id) /\ Avoids(commits', server'[m], id)
    <3>1. \A m \in Branches : Here.track[m] \in Ref /\ server[m] \in Ref
      BY <1>1 DEF ClonesOver
    <3>. QED
      BY <1>3, <2>3, <3>1, AvoidsKept DEF OnlyOn
  <2>9. Avoids(commits', r.fetched, id)
    <3>1. Here.fetched \in Ref
      BY <1>1 DEF ClonesOver
    <3>. QED
      BY <2>3, <3>1, AvoidsKept DEF OnlyOn
  <2>. QED
    BY <2>6, <2>7, <2>8, <2>9 DEF OnlyOn, r
<1>. QED
  BY <1>3, <1>4, <1>5

\* Another client publishes on what the remote has.
LEMMA PeerKeepsApart ==
    ASSUME RemoteInv, ConfigTypeOK, NEW n \in Branches, NEW id,
           OnlyOn(commits, Here, server, n, id),
           NEW m \in Branches, NEW tree \in Tree, PeerPublishes(m, tree)
    PROVE  OnlyOn(commits', clone'[Mine], server', n, id)
<1> DEFINE new == Len(commits) + 1
<1>1. /\ Here \in ClonesOver(Ref) /\ server \in [Branches -> Ref]
  BY HereFacts
<1>2. id \in CommitIds /\ Here.branch[n] \in CommitIds
  BY OnlyOnTypes
<1>3. /\ KeepsServer /\ new \in CommitIds' /\ new \notin CommitIds
      /\ server' = [server EXCEPT ![m] = new]
      /\ commits'[new].reach = {new} \cup
            (IF server[m] = NoCommit THEN {} ELSE commits[server[m]].reach)
  BY PeerStep
<1>4. clone'[Mine] = Here
  BY DEF PeerPublishes, Here
<1> HIDE DEF new
<1>5. Avoids(commits', new, id)
  BY <1>2, <1>3 DEF OnlyOn, Avoids, Reaches
<1>6. \A k \in Branches : Avoids(commits', server'[k], id)
  <2>1. \A k \in Branches : k # m => server'[k] = server[k] /\ server[k] \in Ref
    BY <1>1, <1>3
  <2>2. server'[m] = new
    BY <1>1, <1>3
  <2>. QED
    BY <1>3, <1>5, <2>1, <2>2, AvoidsKept DEF OnlyOn
<1>7. \A k \in Branches : Here.track[k] \in Ref /\ Here.branch[k] \in Ref
  BY <1>1 DEF ClonesOver
<1>8. Here.fetched \in Ref
  BY <1>1 DEF ClonesOver
<1>9. Reaches(commits', Here.branch[n], id) /\ Here.branch[n] # NoCommit
  BY <1>2, <1>3 DEF OnlyOn, KeepsServer, Reaches
<1>. QED
  BY <1>3, <1>4, <1>6, <1>7, <1>8, <1>9, AvoidsKept DEF OnlyOn

-----------------------------------------------------------------------------
\* A method that is over, or one that is no proposal.
LEMMA NoProposal ==
    ASSUME \/ manager' = NoMethod
           \/ manager'.target = NoBranch /\ manager'.at \in {"committed", "pushing", "pulling"}
    PROVE  ProposalInv'
<1>1. CASE manager' = NoMethod
  BY <1>1 DEF ProposalInv, NoMethod
<1>2. CASE manager'.target = NoBranch /\ manager'.at \in {"committed", "pushing", "pulling"}
  BY <1>2 DEF ProposalInv
<1>. QED
  BY <1>1, <1>2

\* While others take a step, HEAD stays on its branch and branches stay.
LEMMA OthersStep ==
    ASSUME ConfigInv, UNCHANGED manager,
           clone'[Mine].head.branch = Here.head.branch,
           \A n \in Branches : Here.branch[n] # NoCommit => clone'[Mine].branch[n] # NoCommit,
           manager.target # NoBranch /\ manager.id # NoCommit
             => OnlyOn(commits', clone'[Mine], server', manager.target, manager.id)
    PROVE  ProposalInv'
<1>1. manager \in Method
  BY DEF ConfigInv, ConfigTypeOK
<1>2. manager.target # NoBranch => OnItsBranch(Here, manager)
  BY DEF ConfigInv, ProposalInv
<1>3. manager.target # NoBranch => OnItsBranch(clone'[Mine], manager)
  BY <1>1, <1>2 DEF OnItsBranch, Method
<1>. QED
  BY <1>3 DEF ConfigInv, ProposalInv, Here, NoMethod

\* pull() of the watcher, or of sync(), between two steps of proposeChanges().
LEMMA PullStep ==
    ASSUME ConfigInv, KeepsServer, UNCHANGED manager, NEW t \in Threads,
           \/ PullFetch(Mine, t) \/ PullChoose(Mine, t) \/ PullMerge(Mine, t)
           \/ PullRaises(Mine, t) \/ PullReturns(Mine, t)
    PROVE  ProposalInv'
<1>1. /\ Mine \in Clones /\ clone \in [Clones -> ClonesOver(Ref)] /\ Here \in ClonesOver(Ref)
      /\ NoCommit \notin CommitIds /\ NoBranch \notin Branches /\ manager \in Method
      /\ RemoteInv /\ ConfigTypeOK
  BY HereFacts DEF ConfigInv
<1>2. manager.target # NoBranch => manager.target \in Branches
  BY <1>1 DEF Method
<1>3. manager.target # NoBranch /\ manager.id # NoCommit
        => OnlyOn(commits, Here, server, manager.target, manager.id)
  BY DEF ConfigInv, ProposalInv
<1>4. CASE PullFetch(Mine, t)
  <2>1. PICK f \in Fetched(Here) : clone' = [clone EXCEPT ![Mine] = f]
    BY <1>4 DEF PullFetch, Here
  <2>2. UNCHANGED <<commits, server>>
    BY <1>4 DEF PullFetch
  <2>3. clone'[Mine] = f /\ f.branch = Here.branch /\ f.head = Here.head
    <3>1. PICK first : f = [Here EXCEPT
              !.track = [n \in Branches |-> IF server[n] # NoCommit THEN server[n] ELSE @[n]],
              !.fetched = first]
      BY <2>1 DEF Fetched
    <3>. QED
      BY <1>1, <2>1, <3>1 DEF ClonesOver
  <2>4. manager.target # NoBranch /\ manager.id # NoCommit
          => OnlyOn(commits, f, server, manager.target, manager.id)
    BY <1>1, <1>2, <1>3, <2>1, FetchKeepsApart
  <2>. QED
    BY <2>2, <2>3, <2>4, OthersStep
<1>5. CASE PullChoose(Mine, t) \/ PullRaises(Mine, t) \/ PullReturns(Mine, t)
  <2>1. UNCHANGED <<commits, server, clone>>
    BY <1>5 DEF PullChoose, PullRaises, PullReturns
  <2>. QED
    BY <1>3, <2>1, OthersStep DEF Here
<1>6. CASE PullMerge(Mine, t)
  <2> DEFINE theirs == Theirs(Mine, t)
  <2>1. PICK s \in Strategies, conflicts \in BOOLEAN : Merge(Mine, theirs, s, conflicts)
    BY <1>6 DEF PullMerge
  <2>2. theirs \in Ref
    BY <1>1, <1>6, TheirsType DEF PullMerge
  <2>3. manager.target # NoBranch /\ manager.id # NoCommit => Avoids(commits, theirs, manager.id)
    <3>1. pulling[Mine][t].branch \in Branches
      <4>1. pulling[Mine][t] \in Pull
        BY <1>1 DEF RemoteInv, TypeOK
      <4>. QED
        BY <1>1, <1>6, <4>1 DEF PullMerge, RemoteInv, Pull
    <3>. QED
      BY <1>3, <3>1 DEF Theirs, OnlyOn, Here
  <2> HIDE DEF theirs
  <2>4. manager.target # NoBranch /\ manager.id # NoCommit
          => OnlyOn(commits', clone'[Mine], server', manager.target, manager.id)
    BY <1>1, <1>2, <1>3, <2>1, <2>2, <2>3, MergeKeepsApart
  <2>5. UNCHANGED <<commits, clone>> \/ \E x \in CommitIds' : MergesInto(Mine, theirs, x)
    BY <1>1, <2>1, <2>2, MergeMoves
  <2>6. /\ clone'[Mine].head.branch = Here.head.branch
        /\ \A n \in Branches : Here.branch[n] # NoCommit => clone'[Mine].branch[n] # NoCommit
    <3>1. CASE UNCHANGED clone
      BY <3>1 DEF Here
    <3>2. ASSUME NEW x \in CommitIds', MergesInto(Mine, theirs, x)
          PROVE  /\ clone'[Mine].head.branch = Here.head.branch
                 /\ \A n \in Branches :
                       Here.branch[n] # NoCommit => clone'[Mine].branch[n] # NoCommit
      <4>1. clone'[Mine] = Moved(Here, x) /\ x # NoCommit
        BY <1>1, <3>2 DEF MergesInto, Here, CommitIds, NoCommit
      <4>. QED
        BY <1>1, <4>1 DEF Moved, ClonesOver
    <3>. QED
      BY <2>5, <3>1, <3>2
  <2>. QED
    BY <2>4, <2>6, OthersStep
<1>. QED
  BY <1>4, <1>5, <1>6

\* Each step keeps the proposal apart.
LEMMA ProposalStep ==
    ASSUME ConfigInv, ConfigNext
    PROVE  ProposalInv'
<1>1. /\ Mine \in Clones /\ Manager \in Threads /\ Watcher \in Threads
      /\ clone \in [Clones -> ClonesOver(Ref)] /\ Here \in ClonesOver(Ref)
      /\ Tip \in Ref /\ Ref = CommitIds \cup {NoCommit} /\ NoCommit \notin CommitIds
      /\ worktree \in Tree /\ manager \in Method
      /\ Main \in Branches /\ NoBranch \notin Branches
      /\ server \in [Branches -> Ref]
      /\ RemoteInv /\ ConfigTypeOK /\ ProposalInv
  BY HereFacts DEF ConfigInv
<1>2. KeepsServer
  BY RepositoryStep
<1>3. manager.target # NoBranch => manager.target \in Branches
  BY <1>1 DEF Method
<1>4. manager.base # NoBranch => manager.base \in Branches
  BY <1>1 DEF Method
<1>5. Idle => manager = NoMethod
  BY <1>1 DEF Idle, ProposalInv
<1>6. CASE \/ \E q \in Paths, content \in Content : WriteConfig(q, content)
           \/ \E n \in Branches :
                 \/ SwitchEnvironment(n) \/ ApplyProposal(n) \/ Connected(n)
                 \/ \E x \in CommitIds : CreateEnvironment(n, x)
  <2>1. manager' = NoMethod
    BY <1>5, <1>6 DEF WriteConfig, SwitchEnvironment, ApplyProposal, Connected, CreateEnvironment
  <2>. QED
    BY <2>1, NoProposal
<1>7. CASE PublishRefused \/ PublishEnd \/ SyncEnd \/ ProposeRaises
  BY <1>7, NoProposal DEF PublishRefused, PublishEnd, SyncEnd, ProposeRaises, Return
<1>8. CASE PublishCommit \/ SyncFetch
  <2>1. manager = NoMethod
    BY <1>5, <1>8 DEF PublishCommit, SyncFetch
  <2>2. \/ manager' = [NoMethod EXCEPT !.at = "committed", !.id = Len(commits) + 1]
        \/ manager' = [NoMethod EXCEPT !.at = "pulling"]
        \/ manager' = NoMethod
    BY <1>8, <2>1 DEF PublishCommit, SyncFetch, Continue
  <2>. QED
    BY <2>2, NoProposal DEF NoMethod
<1>9. CASE SyncChoose \/ SyncMerge \/ WatcherNext
  BY <1>1, <1>2, <1>9, PullStep DEF SyncChoose, SyncMerge, WatcherNext, PollFetch,
     PollChoose, PollMerge, PollRaises, PollNotify
<1>10. ASSUME NEW n \in Branches, NEW tree \in Tree, PeerPublishes(n, tree)
       PROVE  ProposalInv'
  <2>1. manager.target # NoBranch /\ manager.id # NoCommit
          => OnlyOn(commits, Here, server, manager.target, manager.id)
    BY <1>1 DEF ProposalInv
  <2>2. manager.target # NoBranch /\ manager.id # NoCommit
          => OnlyOn(commits', clone'[Mine], server', manager.target, manager.id)
    BY <1>1, <1>3, <1>10, <2>1, PeerKeepsApart
  <2>3. UNCHANGED <<clone, manager>>
    BY <1>10 DEF PeerPublishes
  <2>. QED
    BY <2>2, <2>3, OthersStep DEF Here
<1>11. ASSUME NEW n \in Branches, ProposeCall(n)
       PROVE  ProposalInv'
  <2> DEFINE base == IF Tip = NoCommit THEN NoBranch ELSE Here.head.branch
  <2>1. manager' = [NoMethod EXCEPT !.at = "called", !.target = n, !.base = base]
        /\ UNCHANGED clone
    BY <1>11 DEF ProposeCall, remoteVars
  <2>2. base # NoBranch => Here.branch[base] # NoCommit
    BY DEF Tip, HeadOf
  <2> HIDE DEF base
  <2>3. /\ manager'.at = "called" /\ manager'.id = NoCommit
        /\ manager'.base = base /\ manager'.target = n
    BY <2>1 DEF NoMethod
  <2>4. OnItsBranch(clone'[Mine], manager')
    BY <2>1, <2>2, <2>3 DEF OnItsBranch, Here
  <2>. QED
    BY <1>1, <2>3, <2>4 DEF ProposalInv, Here
<1>12. CASE ProposeList \/ \E q \in Paths : ProposeReadFile(q) \/ ProposeWrite(q)
  <2>1. /\ manager.at \in {"called", "listed", "switched"} /\ manager.target # NoBranch
        /\ OnItsBranch(Here, manager) /\ manager.id = NoCommit
    BY <1>1, <1>12 DEF ProposeList, ProposeReadFile, ProposeWrite, ProposalInv, OnItsBranch
  <2>2. UNCHANGED clone
    BY <1>12 DEF ProposeList, ProposeReadFile, ProposeWrite, remoteVars
  <2>3. /\ \/ manager'.at = manager.at
           \/ manager.at = "called" /\ manager'.at = "listed"
        /\ manager'.id = manager.id /\ manager'.base = manager.base
        /\ manager'.target = manager.target
    <3>1. CASE ProposeList
      BY <1>1, <3>1 DEF ProposeList, Method
    <3>2. CASE \E q \in Paths : ProposeReadFile(q)
      BY <1>1, <3>2 DEF ProposeReadFile, Method
    <3>3. CASE \E q \in Paths : ProposeWrite(q)
      <4>1. PICK left : manager' = [manager EXCEPT !.files = left]
        BY <1>1, <3>3 DEF ProposeWrite, Method
      <4>. QED
        BY <1>1, <4>1 DEF Method
    <3>. QED
      BY <1>12, <3>1, <3>2, <3>3
  <2>4. OnItsBranch(Here, manager')
    BY <2>1, <2>3 DEF OnItsBranch
  <2>. QED
    BY <2>1, <2>2, <2>3, <2>4 DEF ProposalInv, Here
<1>13. CASE ProposeBranch
  <2> DEFINE n == manager.target
             r == clone'[Mine]
  <2>1. /\ manager.at = "listed" /\ n \in Branches /\ n # NoBranch /\ manager.id = NoCommit
        /\ OnItsBranch(Here, manager)
    BY <1>1, <1>3, <1>13 DEF ProposeBranch, ProposalInv, OnItsBranch
  <2>2. CASE CreateBranch(Mine, n, Tip) /\ Continue("branched")
    <3>1. /\ Here.branch[n] = NoCommit /\ Tip # NoCommit
          /\ clone' = [clone EXCEPT ![Mine].branch[n] = Tip]
      BY <1>1, <2>2 DEF CreateBranch, Named, Here
    <3>2. /\ r.head = Here.head
          /\ \A m \in Branches : r.branch[m] = IF m = n THEN Tip ELSE Here.branch[m]
      BY <1>1, <2>1, <3>1 DEF Here, ClonesOver
    <3>3. manager.base # NoBranch => Here.branch[manager.base] # NoCommit
      BY <2>1 DEF OnItsBranch
    <3>4. /\ manager'.at = "branched" /\ manager'.id = NoCommit
          /\ manager'.base = manager.base /\ manager'.target = n
      BY <1>1, <2>1, <2>2 DEF Continue, Method
    <3> HIDE DEF r, n
    <3>5. OnItsBranch(r, manager')
      BY <1>1, <1>4, <2>1, <3>1, <3>2, <3>3, <3>4 DEF OnItsBranch
    <3>. QED
      BY <2>1, <3>4, <3>5 DEF ProposalInv, Here, r
  <2>. QED
    BY <1>13, <2>2 DEF ProposeBranch
<1>14. ASSUME NEW n \in Branches, CheckoutFiles(n)
       PROVE  /\ UNCHANGED <<commits, server>>
              /\ clone'[Mine].head.branch = n /\ Here.branch[n] # NoCommit
              /\ clone'[Mine].branch = Here.branch
              /\ clone'[Mine].track = Here.track
              /\ clone'[Mine].fetched = Here.fetched
  BY <1>1, <1>14 DEF CheckoutFiles, Checkout, Here, ClonesOver
<1>15. CASE ProposeSwitch
  <2> DEFINE n == manager.target
             r == clone'[Mine]
  <2>1. /\ manager.at = "branched" /\ n \in Branches /\ n # NoBranch /\ manager.id = NoCommit
        /\ OnItsBranch(Here, manager)
    BY <1>1, <1>3, <1>15 DEF ProposeSwitch, ProposalInv, OnItsBranch
  <2>2. r.head.branch = n /\ r.branch = Here.branch
    BY <1>14, <1>15, <2>1 DEF ProposeSwitch
  <2>3. /\ manager'.at = "switched" /\ manager'.id = NoCommit
        /\ manager'.base = manager.base /\ manager'.target = n
    BY <1>1, <1>15, <2>1 DEF ProposeSwitch, Continue, Method
  <2> HIDE DEF r, n
  <2>4. OnItsBranch(r, manager')
    BY <2>1, <2>2, <2>3 DEF OnItsBranch, n
  <2>. QED
    BY <2>1, <2>3, <2>4 DEF ProposalInv, Here, r
<1>16. CASE ProposeCommit
  <2> DEFINE n  == manager.target
             r  == clone'[Mine]
             id == Len(commits) + 1
  <2>1. /\ manager.at = "switched" /\ n \in Branches /\ n # NoBranch /\ manager.id = NoCommit
        /\ OnItsBranch(Here, manager)
        /\ Here.head.branch = n /\ Here.branch[n] # NoCommit
    BY <1>1, <1>3, <1>16 DEF ProposeCommit, ProposalInv, OnItsBranch
  <2>2. HeadOf(Here) = Here.branch[n]
    BY <1>1, <2>1 DEF HeadOf
  <2>3. PICK tree \in Tree : Commit(Mine, tree)
    BY <1>1, <1>16 DEF ProposeCommit
  <2>4. /\ id \in CommitIds' /\ UNCHANGED server
        /\ r.track = Here.track /\ r.fetched = Here.fetched /\ r.head.branch = n
        /\ \A m \in Branches : r.branch[m] = IF m = n THEN id ELSE Here.branch[m]
        /\ id \in commits'[id].reach
    BY <1>1, <2>1, <2>2, <2>3, CommitMoves DEF Here
  <2>5. id \notin CommitIds /\ id # NoCommit
    BY <1>1 DEF RemoteInv, TypeOK, CommitIds, NoCommit
  <2>6. /\ manager'.at = "proposed" /\ manager'.id = id
        /\ manager'.base = manager.base /\ manager'.target = n
    BY <1>1, <1>16 DEF ProposeCommit, Method
  <2>7. ASSUME NEW x \in Ref
        PROVE  Avoids(commits', x, id)
    <3>1. Avoids(commits, x, id)
      BY <1>1, <2>5 DEF Avoids, Reaches, RemoteInv, Ancestry, CommitIds
    <3>. QED
      BY <1>1, <1>2, <3>1, AvoidsKept
  <2> HIDE DEF r, n, id
  <2>8. /\ \A m \in Branches : Here.branch[m] \in Ref /\ Here.track[m] \in Ref /\ server[m] \in Ref
        /\ Here.fetched \in Ref
    BY <1>1 DEF ClonesOver
  <2>9. OnlyOn(commits', r, server', n, id)
    BY <2>1, <2>4, <2>5, <2>7, <2>8 DEF OnlyOn, Reaches
  <2>10. OnItsBranch(r, manager')
    BY <1>1, <1>4, <2>1, <2>4, <2>5, <2>6 DEF OnItsBranch, n
  <2>. QED
    BY <2>1, <2>6, <2>9, <2>10 DEF ProposalInv, Here, r
<1>17. CASE ProposeBack
  <2> DEFINE n == manager.target
             r == clone'[Mine]
  <2>1. /\ manager.at = "proposed" /\ n \in Branches /\ n # NoBranch /\ manager.id # NoCommit
        /\ OnItsBranch(Here, manager) /\ Here.head.branch = n
        /\ OnlyOn(commits, Here, server, n, manager.id)
    BY <1>1, <1>3, <1>17 DEF ProposeBack, ProposalInv, OnItsBranch
  <2>2. /\ UNCHANGED <<commits, server>>
        /\ r.head.branch = IF manager.base # NoBranch THEN manager.base ELSE n
        /\ r.branch = Here.branch /\ r.track = Here.track /\ r.fetched = Here.fetched
    <3>1. CASE manager.base # NoBranch
      BY <1>4, <1>14, <1>17, <3>1 DEF ProposeBack
    <3>2. CASE manager.base = NoBranch
      BY <1>17, <2>1, <3>2 DEF ProposeBack, remoteVars, Here
    <3>. QED
      BY <3>1, <3>2
  <2>3. /\ manager'.at = "committed" /\ manager'.id = manager.id
        /\ manager'.base = manager.base /\ manager'.target = n
    BY <1>1, <1>17 DEF ProposeBack, Continue, Method
  <2> HIDE DEF r, n
  <2>4. OnItsBranch(r, manager')
    BY <2>1, <2>2, <2>3 DEF OnItsBranch, n
  <2>5. OnlyOn(commits', r, server', n, manager.id)
    BY <2>1, <2>2 DEF OnlyOn
  <2>. QED
    BY <2>1, <2>3, <2>4, <2>5 DEF ProposalInv, Here, r
<1>18. CASE PublishPush
  <2>1. manager.at = "committed" /\ UNCHANGED <<commits, server, clone>>
    BY <1>18 DEF PublishPush, PushStart
  <2>2. /\ manager'.at = "pushing" /\ manager'.id = manager.id
        /\ manager'.base = manager.base /\ manager'.target = manager.target
    BY <1>1, <1>18 DEF PublishPush, Continue, Method
  <2>3. CASE manager.target = NoBranch
    BY <2>2, <2>3, NoProposal
  <2>4. CASE manager.target # NoBranch
    <3>1. OnItsBranch(Here, manager)
          /\ (manager.id # NoCommit => OnlyOn(commits, Here, server, manager.target, manager.id))
      BY <1>1, <2>4 DEF ProposalInv
    <3>2. OnItsBranch(Here, manager')
      BY <2>1, <2>2, <3>1 DEF OnItsBranch
    <3>. QED
      BY <2>1, <2>2, <2>4, <3>1, <3>2 DEF ProposalInv, Here
  <2>. QED
    BY <2>3, <2>4
<1>. QED
  BY <1>6, <1>7, <1>8, <1>9, <1>10, <1>11, <1>13, <1>15, <1>16, <1>17, <1>18, <1>12
     DEF ConfigNext, ManagerNext

-----------------------------------------------------------------------------
\* pull() moves HEAD only to a commit that contains what it had.
LEMMA PullHead ==
    ASSUME RemoteInv, ConfigTypeOK, KeepsServer, Tip # NoCommit, NEW t \in Threads,
           \/ PullFetch(Mine, t) \/ PullChoose(Mine, t) \/ PullMerge(Mine, t)
           \/ PullRaises(Mine, t) \/ PullReturns(Mine, t)
    PROVE  /\ HeadOf(clone'[Mine]) # NoCommit
           /\ commits[Tip].reach \subseteq commits'[HeadOf(clone'[Mine])].reach
<1>1. /\ Mine \in Clones /\ clone \in [Clones -> ClonesOver(Ref)] /\ Here \in ClonesOver(Ref)
      /\ Tip \in CommitIds /\ NoCommit \notin CommitIds /\ NoBranch \notin Branches
  BY HereFacts
<1>2. commits'[Tip] = commits[Tip]
  BY <1>1 DEF KeepsServer
<1>3. CASE PullFetch(Mine, t)
  <2>1. PICK f \in Fetched(Here) : clone' = [clone EXCEPT ![Mine] = f]
    BY <1>3 DEF PullFetch, Here
  <2>2. PICK first : f = [Here EXCEPT
            !.track = [n \in Branches |-> IF server[n] # NoCommit THEN server[n] ELSE @[n]],
            !.fetched = first]
    BY <2>1 DEF Fetched
  <2>3. HeadOf(clone'[Mine]) = Tip
    BY <1>1, <2>1, <2>2 DEF ClonesOver, HeadOf, Tip
  <2>. QED
    BY <1>2, <2>3
<1>4. CASE PullChoose(Mine, t) \/ PullRaises(Mine, t) \/ PullReturns(Mine, t)
  BY <1>2, <1>4 DEF PullChoose, PullRaises, PullReturns, Tip, Here
<1>5. CASE PullMerge(Mine, t)
  <2> DEFINE theirs == Theirs(Mine, t)
  <2>1. PICK s \in Strategies, conflicts \in BOOLEAN : Merge(Mine, theirs, s, conflicts)
    BY <1>5 DEF PullMerge
  <2>2. theirs \in Ref
    BY <1>1, <1>5, TheirsType DEF PullMerge
  <2> HIDE DEF theirs
  <2>3. CASE UNCHANGED clone
    BY <1>2, <2>3 DEF Tip, Here
  <2>4. ASSUME NEW x \in CommitIds', MergesInto(Mine, theirs, x)
        PROVE  /\ HeadOf(clone'[Mine]) # NoCommit
               /\ commits[Tip].reach \subseteq commits'[HeadOf(clone'[Mine])].reach
    <3>1. /\ clone'[Mine] = Moved(Here, x) /\ x # NoCommit
          /\ commits[Tip].reach \subseteq commits'[x].reach
      BY <1>1, <2>4 DEF MergesInto, Tip, Here, CommitIds, NoCommit
    <3>2. HeadOf(Moved(Here, x)) = x
      BY <1>1 DEF HeadOf, Moved, ClonesOver
    <3>. QED
      BY <3>1, <3>2
  <2>. QED
    BY <1>1, <2>1, <2>2, <2>3, <2>4, MergeMoves
<1>. QED
  BY <1>3, <1>4, <1>5

\* Each step keeps what was committed in what is, or will be, pushed.
LEMMA PushStep ==
    ASSUME ConfigInv, ConfigNext
    PROVE  PushInv'
<1>1. /\ Mine \in Clones /\ Manager \in Threads /\ Watcher \in Threads
      /\ clone \in [Clones -> ClonesOver(Ref)] /\ Here \in ClonesOver(Ref)
      /\ Ref = CommitIds \cup {NoCommit} /\ NoCommit \notin CommitIds
      /\ worktree \in Tree /\ manager \in Method /\ Tip \in Ref
      /\ NoBranch \notin Branches
      /\ RemoteInv /\ ConfigTypeOK /\ ProposalInv /\ PushInv
  BY HereFacts DEF ConfigInv
<1>2. KeepsServer
  BY RepositoryStep
<1>3. Idle => manager = NoMethod
  BY <1>1 DEF Idle, ProposalInv
<1>4. ASSUME \/ manager' = NoMethod
             \/ manager'.at \notin {"committed", "pushing"}
             \/ manager'.at = "committed" /\ manager'.target # NoBranch
      PROVE  PushInv'
  BY <1>4 DEF PushInv, NoMethod
<1>5. CASE \/ \E q \in Paths, content \in Content : WriteConfig(q, content)
           \/ \E n \in Branches :
                 \/ SwitchEnvironment(n) \/ ApplyProposal(n) \/ Connected(n)
                 \/ \E x \in CommitIds : CreateEnvironment(n, x)
           \/ PublishRefused \/ PublishEnd \/ SyncEnd \/ ProposeRaises
  <2>1. manager' = NoMethod
    BY <1>3, <1>5 DEF WriteConfig, SwitchEnvironment, ApplyProposal, Connected,
       CreateEnvironment, PublishRefused, PublishEnd, SyncEnd, ProposeRaises, Return
  <2>. QED
    BY <1>4, <2>1
<1>6. CASE \/ SyncFetch \/ ProposeList \/ ProposeBranch \/ ProposeSwitch \/ ProposeCommit
           \/ \E n \in Branches : ProposeCall(n)
           \/ \E q \in Paths : ProposeReadFile(q) \/ ProposeWrite(q)
  <2>1. manager' = NoMethod \/ manager'.at \notin {"committed", "pushing"}
    BY <1>1, <1>3, <1>6 DEF SyncFetch, ProposeCall, ProposeList, ProposeReadFile, ProposeBranch,
       ProposeSwitch, ProposeWrite, ProposeCommit, Continue, Return, NoMethod, Method
  <2>. QED
    BY <1>4, <2>1
<1>7. CASE ProposeBack
  <2>1. manager'.at = "committed" /\ manager'.target # NoBranch
    BY <1>1, <1>7 DEF ProposeBack, Continue, Method, ProposalInv
  <2>. QED
    BY <1>4, <2>1
<1>8. CASE PublishCommit
  <2> DEFINE id == Len(commits) + 1
  <2>1. /\ HeadOf(clone'[Mine]) = id /\ id \in CommitIds'
        /\ id \in commits'[id].reach
    BY <1>1, <1>8, CommitMoves DEF PublishCommit
  <2>2. id # NoCommit
    BY <1>1 DEF RemoteInv, TypeOK, NoCommit
  <2>3. manager'.at = "committed" /\ manager'.id = id
    BY <1>1, <1>8 DEF PublishCommit, Method
  <2> HIDE DEF id
  <2>. QED
    BY <2>1, <2>2, <2>3 DEF PushInv, Tip, Here, Reaches, NoCommit
<1>9. CASE PublishPush
  <2> DEFINE p == [branch |-> PushedBranch, old |-> server[PushedBranch],
                   new |-> Here.branch[PushedBranch]]
  <2>1. /\ manager.at = "committed" /\ UNCHANGED commits
        /\ pushing' = [pushing EXCEPT ![Mine] = p]
        /\ PushedBranch # NoBranch /\ Here.branch[PushedBranch] # NoCommit
    BY <1>9 DEF PublishPush, PushStart, MayPush, Here
  <2>2. manager'.at = "pushing" /\ manager'.id = manager.id
    BY <1>1, <1>9 DEF PublishPush, Continue, Method
  <2>3. pushing'[Mine] = p
    BY <1>1, <2>1 DEF RemoteInv, TypeOK
  <2>4. p # NoPush /\ p.new = Here.branch[PushedBranch]
    BY <2>1 DEF NoPush
  <2>5. Reaches(commits, Here.branch[PushedBranch], manager.id)
    <3>1. CASE manager.target = NoBranch
      BY <1>1, <2>1, <3>1 DEF PushInv, PushedBranch, Tip, HeadOf
    <3>2. CASE manager.target # NoBranch
      <4>1. manager.id # NoCommit
        BY <1>1, <2>1, <3>2 DEF ProposalInv, OnItsBranch
      <4>. QED
        BY <1>1, <3>2, <4>1 DEF ProposalInv, OnlyOn, PushedBranch
    <3>. QED
      BY <3>1, <3>2
  <2> HIDE DEF p
  <2>. QED
    BY <2>1, <2>2, <2>3, <2>4, <2>5 DEF PushInv, NoPush
<1>10. ASSUME UNCHANGED <<manager, pushing>>,
              manager.at = "committed" /\ Tip # NoCommit =>
                 /\ HeadOf(clone'[Mine]) # NoCommit
                 /\ commits[Tip].reach \subseteq commits'[HeadOf(clone'[Mine])].reach
       PROVE  PushInv'
  <2>1. ASSUME manager.at = "pushing"
        PROVE  commits'[pushing[Mine].new] = commits[pushing[Mine].new]
    <3>1. SoundPush(pushing[Mine]) /\ pushing[Mine] \in Push
      BY <1>1, <2>1 DEF PushInv, RemoteInv, TypeOK
    <3>2. pushing[Mine].new \in CommitIds
      BY <1>1, <3>1 DEF SoundPush, Push
    <3>. QED
      BY <1>2, <3>2 DEF KeepsServer
  <2>. QED
    BY <1>1, <1>10, <2>1 DEF PushInv, Tip, Here, Reaches, NoPush, NoCommit
<1>11. CASE SyncChoose \/ SyncMerge \/ WatcherNext
  <2>1. PICK t \in Threads :
          \/ PullFetch(Mine, t) \/ PullChoose(Mine, t) \/ PullMerge(Mine, t)
          \/ PullRaises(Mine, t) \/ PullReturns(Mine, t)
    BY <1>1, <1>11 DEF SyncChoose, SyncMerge, WatcherNext, PollFetch, PollChoose, PollMerge,
       PollRaises, PollNotify
  <2>2. UNCHANGED <<manager, pushing>>
    BY <1>11, <2>1 DEF SyncChoose, SyncMerge, WatcherNext, PollFetch, PollChoose, PollMerge,
       PollRaises, PollNotify, PullFetch, PullChoose, PullMerge, PullRaises, PullReturns
  <2>. QED
    BY <1>1, <1>2, <1>10, <2>1, <2>2, PullHead
<1>12. ASSUME NEW n \in Branches, NEW tree \in Tree, PeerPublishes(n, tree)
       PROVE  PushInv'
  <2>1. UNCHANGED <<clone, manager, pushing>>
    BY <1>12 DEF PeerPublishes
  <2>2. Tip # NoCommit => commits'[Tip] = commits[Tip]
    BY <1>1, <1>2 DEF KeepsServer
  <2>. QED
    BY <1>10, <2>1, <2>2 DEF Tip, Here
<1>. QED
  BY <1>5, <1>6, <1>7, <1>8, <1>9, <1>11, <1>12 DEF ConfigNext, ManagerNext

-----------------------------------------------------------------------------
\* The invariant is inductive.
LEMMA ConfigInitInv == ConfigInit => ConfigInv /\ TrackingIsPublished
<1>. SUFFICES ASSUME ConfigInit PROVE ConfigInv /\ TrackingIsPublished
  OBVIOUS
<1>1. RemoteInv /\ TrackingIsPublished
  BY RemoteInit DEF ConfigInit
<1>2. worktree = EmptyTree /\ manager = NoMethod /\ seen = NoCommit
  BY DEF ConfigInit
<1>3. EmptyTree \in Tree /\ NoCommit \in Ref
  BY DEF EmptyTree, Tree, Content, Ref
<1>4. NoMethod \in Method
  BY <1>3 DEF NoMethod, Method
<1>5. ConfigTypeOK
  BY <1>1, <1>2, <1>3, <1>4 DEF ConfigTypeOK, RemoteInv
<1>6. ProposalInv /\ PushInv
  BY <1>2 DEF ProposalInv, PushInv, NoMethod
<1>. QED
  BY <1>1, <1>5, <1>6 DEF ConfigInv

LEMMA ConfigInvStep ==
    ASSUME ConfigInv, [ConfigNext]_configVars
    PROVE  ConfigInv'
<1>1. CASE ConfigNext
  BY <1>1, RepositoryStep, ConfigTypeStep, ProposalStep, PushStep DEF ConfigInv
<1>2. CASE UNCHANGED configVars
  <2>1. UNCHANGED vars /\ UNCHANGED <<worktree, manager, seen>>
    BY <1>2 DEF configVars, vars
  <2>2. RemoteInv'
    BY <2>1, RemoteInvStep DEF ConfigInv
  <2>3. ConfigTypeOK'
    <3>1. Ref' = Ref
      BY <2>1 DEF vars, Ref, CommitIds
    <3>. QED
      BY <2>1, <2>2, <3>1 DEF ConfigInv, ConfigTypeOK, RemoteInv, Method
  <2>4. ProposalInv'
    BY <2>1 DEF vars, ConfigInv, ProposalInv, OnItsBranch, OnlyOn, Avoids, Here, NoMethod
  <2>5. PushInv'
    BY <2>1 DEF vars, ConfigInv, PushInv, Tip, Here, NoPush
  <2>. QED
    BY <2>2, <2>3, <2>4, <2>5 DEF ConfigInv
<1>. QED
  BY <1>1, <1>2

\* What the manager, the watcher and the other clients keep of the remote, of the
\* tracking references and of the local branches.
LEMMA ConfigKeeps ==
    ASSUME ConfigInv, [ConfigNext]_configVars
    PROVE  /\ KeepsServer /\ LocalBranchesKept
           /\ TrackingIsPublished => TrackingIsPublished'
<1>1. RemoteInv /\ ServerInv
  BY RemoteServer DEF ConfigInv
<1>2. CASE [Next]_vars
  BY <1>1, <1>2, RemoteInvStep, ServerStep, LocalStep, TrackingStep
<1>3. ASSUME NEW n \in Branches, NEW tree \in Tree, PeerPublishes(n, tree)
      PROVE  /\ KeepsServer /\ LocalBranchesKept
             /\ TrackingIsPublished => TrackingIsPublished'
  <2>1. RemoteInv' /\ KeepsServer /\ ServerInv' /\ UNCHANGED clone
    <3>1. RemoteInv' /\ KeepsServer
      BY <1>1, <1>3, PeerStep
    <3>2. RemoteInv' => ServerInv'
      BY DEF RemoteInv, TypeOK, ServerInv, ServerTypeOK, Ref
    <3>. QED
      BY <1>3, <3>1, <3>2 DEF PeerPublishes
  <2>2. LocalBranchesKept
    BY <1>1, <2>1, BranchesStay
  <2>3. ASSUME TrackingIsPublished, NEW c \in Clones, NEW m \in Branches,
               clone[c].track[m] # NoCommit
        PROVE  server'[m] # NoCommit /\ Reaches(commits', server'[m], clone[c].track[m])
    <3>1. server[m] # NoCommit /\ Reaches(commits, server[m], clone[c].track[m])
      BY <2>3 DEF TrackingIsPublished
    <3>2. server[m] \in CommitIds
      BY <1>1, <3>1 DEF ServerInv, ServerTypeOK
    <3>3. commits'[server[m]] = commits[server[m]] /\ server'[m] # NoCommit
          /\ Reaches(commits', server'[m], server[m])
      BY <2>1, <3>1, <3>2 DEF KeepsServer
    <3>4. server'[m] \in 1..Len(commits')
      BY <2>1, <3>3 DEF ServerInv, ServerTypeOK, CommitIds
    <3>5. commits'[server[m]].reach \subseteq commits'[server'[m]].reach
      BY <2>1, <3>3, <3>4 DEF ServerInv, Ancestry, Reaches
    <3>. QED
      BY <3>1, <3>3, <3>5 DEF Reaches
  <2>. QED
    BY <2>1, <2>2, <2>3 DEF TrackingIsPublished, NoCommit
<1>4. CASE ManagerNext \/ WatcherNext \/ \E n \in Branches : Connected(n)
  BY <1>2, <1>4, ClientStep
<1>5. CASE UNCHANGED configVars
  BY <1>2, <1>5 DEF configVars, vars
<1>. QED
  BY <1>3, <1>4, <1>5 DEF ConfigNext

\* The invariant of the manager and the watcher holds in every state.
THEOREM ConfigInvariant == ConfigSpec => []ConfigInv
<1>1. ConfigInv /\ [ConfigNext]_configVars => ConfigInv'
  BY ConfigInvStep
<1>. QED
  BY <1>1, ConfigInitInv, PTL DEF ConfigSpec

\* What the manager and the watcher hold keeps its types.
THEOREM ConfigType == ConfigSpec => []ConfigTypeOK
<1>1. ConfigInv => ConfigTypeOK
  BY DEF ConfigInv
<1>. QED
  BY <1>1, ConfigInvariant, PTL

\* Until proposeChanges() pushes it, its commit is on the branch of the proposal
\* and not on the one the method was called on, where HEAD is again - for any
\* branches, whatever the watcher pulls and other clients publish meanwhile.
THEOREM ProposalStaysApart == ConfigSpec => []ProposalIsApart
<1>1. ConfigInv => ProposalIsApart
  <2>. SUFFICES ASSUME ConfigInv, manager.target # NoBranch, manager.id # NoCommit
                PROVE  /\ Reaches(commits, Here.branch[manager.target], manager.id)
                       /\ manager.base # NoBranch =>
                             /\ ~Reaches(commits, Here.branch[manager.base], manager.id)
                             /\ manager.at \in {"committed", "pushing"} =>
                                   Here.head.branch = manager.base
    BY DEF ProposalIsApart
  <2>1. /\ OnItsBranch(Here, manager)
        /\ OnlyOn(commits, Here, server, manager.target, manager.id)
    BY DEF ConfigInv, ProposalInv
  <2>2. manager.base \in Branches \cup {NoBranch}
    BY DEF ConfigInv, ConfigTypeOK, Method
  <2>. QED
    BY <2>1, <2>2 DEF OnItsBranch, OnlyOn, Avoids
<1>. QED
  BY <1>1, ConfigInvariant, PTL

\* A push of publish() or proposeChanges() carries the commit it was made for.
THEOREM PublishCarriesCommit == ConfigSpec => []PushCarriesCommit
<1>1. ConfigInv => PushCarriesCommit
  BY DEF ConfigInv, PushInv, PushCarriesCommit
<1>. QED
  BY <1>1, ConfigInvariant, PTL

\* No branch of the remote loses a commit, with peers that publish at any time.
THEOREM ConfigMovesForward == ConfigSpec => ServerMovesForward
<1>1. ConfigInv /\ [ConfigNext]_configVars
        => [\A n \in Branches : server[n] # NoCommit
              => server'[n] # NoCommit /\ Reaches(commits', server'[n], server[n])]_serverVars
  BY ConfigKeeps DEF KeepsServer
<1>. QED
  BY <1>1, ConfigInvariant, PTL DEF ConfigSpec, ServerMovesForward

\* Nor does a local branch, whatever the manager and the watcher do to it.
THEOREM ConfigBranches == ConfigSpec => BranchesMoveForward
<1>1. ConfigInv /\ [ConfigNext]_configVars
        => [\A c \in Clones, n \in Branches :
              clone[c].branch[n] # NoCommit /\ clone'[c].branch[n] # NoCommit
              => Reaches(commits', clone'[c].branch[n], clone[c].branch[n])]_vars
  BY ConfigKeeps DEF LocalBranchesKept
<1>. QED
  BY <1>1, ConfigInvariant, PTL DEF ConfigSpec, BranchesMoveForward

\* What the repository takes for published is published.
THEOREM ConfigTracking == ConfigSpec => []TrackingIsPublished
<1>1. ConfigInv /\ TrackingIsPublished /\ [ConfigNext]_configVars => TrackingIsPublished'
  BY ConfigKeeps
<1>. QED
  BY <1>1, ConfigInitInv, ConfigInvariant, PTL DEF ConfigSpec

-----------------------------------------------------------------------------
\* The branch a method publishes.
Publishing == IF manager.at = "pushing" THEN pushing[Mine].branch ELSE PushedBranch

\* What a method that publishes needs of its surroundings: what it has committed
\* contains what the remote has on the branch (the caller has synced, HEAD is on a
\* branch), no other client publishes to that branch until the push has ended, and
\* a connection that breaks does so after the server took the update.
Undisturbed ==
    /\ manager.at # "committed" /\ manager'.at = "committed" => MayPush(Mine, PushedBranch)'
    /\ manager.at \in {"committed", "pushing"} =>
          /\ \A n \in Branches, tree \in Tree : PeerPublishes(n, tree) => n # Publishing
          /\ PushBreaks(Mine) => server'[Publishing] = pushing[Mine].new

\* Then a push is possible from the commit on and the server's answer to it is
\* yes; and the manager's own pull() is over when it publishes.
PublishInv ==
    /\ manager.at # "pulling" => pulling[Mine][Manager].at = "idle"
    /\ manager.at = "committed" => MayPush(Mine, PushedBranch)
    /\ manager.at = "pushing" => server[pushing[Mine].branch] = pushing[Mine].old

\* What a pull() does to the repository while a method is about to push, or pushes.
LEMMA PullLeaves ==
    ASSUME RemoteInv, ConfigTypeOK, NEW t \in Threads,
           \/ PullFetch(Mine, t) \/ PullChoose(Mine, t) \/ PullMerge(Mine, t)
           \/ PullRaises(Mine, t) \/ PullReturns(Mine, t)
    PROVE  /\ UNCHANGED <<server, pushing>>
           /\ clone'[Mine].head.branch = Here.head.branch
           /\ \A s \in Threads \ {t} : pulling'[Mine][s] = pulling[Mine][s]
<1>1. /\ Mine \in Clones /\ clone \in [Clones -> ClonesOver(Ref)] /\ Here \in ClonesOver(Ref)
      /\ NoBranch \notin Branches /\ pulling \in [Clones -> [Threads -> Pull]]
  BY HereFacts DEF RemoteInv, TypeOK
<1>2. UNCHANGED pushing
  BY DEF PullFetch, PullChoose, PullMerge, PullRaises, PullReturns
<1>3. \A s \in Threads \ {t} : pulling'[Mine][s] = pulling[Mine][s]
  BY <1>1 DEF PullFetch, PullChoose, PullMerge, PullRaises, PullReturns
<1>4. CASE PullFetch(Mine, t)
  <2>1. UNCHANGED server
    BY <1>4 DEF PullFetch
  <2>2. PICK f \in Fetched(Here) : clone' = [clone EXCEPT ![Mine] = f]
    BY <1>4 DEF PullFetch, Here
  <2>3. f.head = Here.head
    BY <1>1 DEF Fetched, ClonesOver
  <2>. QED
    BY <1>1, <1>2, <1>3, <2>1, <2>2, <2>3
<1>5. CASE PullChoose(Mine, t) \/ PullRaises(Mine, t) \/ PullReturns(Mine, t)
  <2>1. UNCHANGED <<server, clone>>
    BY <1>5 DEF PullChoose, PullRaises, PullReturns
  <2>. QED
    BY <1>2, <1>3, <2>1 DEF Here
<1>6. CASE PullMerge(Mine, t)
  <2> DEFINE theirs == Theirs(Mine, t)
  <2>1. PICK s \in Strategies, conflicts \in BOOLEAN : Merge(Mine, theirs, s, conflicts)
    BY <1>6 DEF PullMerge
  <2>2. theirs \in Ref
    BY <1>1, <1>6, TheirsType DEF PullMerge
  <2> HIDE DEF theirs
  <2>3. /\ UNCHANGED server
        /\ UNCHANGED <<commits, clone>> \/ \E x \in CommitIds' : MergesInto(Mine, theirs, x)
    BY <1>1, <2>1, <2>2, MergeMoves
  <2>4. ASSUME NEW x \in CommitIds', MergesInto(Mine, theirs, x)
        PROVE  clone'[Mine].head.branch = Here.head.branch
    <3>1. clone'[Mine] = Moved(Here, x)
      BY <1>1, <2>4 DEF MergesInto, Here
    <3>. QED
      BY <1>1, <3>1 DEF Moved, ClonesOver
  <2>. QED
    BY <1>2, <1>3, <2>3, <2>4 DEF Here
<1>. QED
  BY <1>4, <1>5, <1>6

\* A branch that could be pushed can still be when it has moved forward and the
\* remote's branch of that name is where it was.
LEMMA StillMayPush ==
    ASSUME ConfigInv, RemoteInv', KeepsServer, LocalBranchesKept,
           NEW n \in Branches, MayPush(Mine, n), server'[n] = server[n]
    PROVE  MayPush(Mine, n)'
<1>1. /\ Mine \in Clones /\ Here \in ClonesOver(Ref) /\ Ref = CommitIds \cup {NoCommit}
      /\ server \in [Branches -> Ref]
  BY HereFacts DEF ConfigInv
<1>2. /\ Here.branch[n] # NoCommit /\ Here.branch[n] \in CommitIds
      /\ server[n] # NoCommit => Reaches(commits, Here.branch[n], server[n])
  BY <1>1 DEF MayPush, Here, ClonesOver
<1>3. /\ clone'[Mine].branch[n] # NoCommit
      /\ Reaches(commits', clone'[Mine].branch[n], Here.branch[n])
  BY <1>1, <1>2 DEF LocalBranchesKept, Here
<1>4. clone'[Mine].branch[n] \in 1..Len(commits')
  BY <1>1, <1>3 DEF RemoteInv, TypeOK, Clone, Ref, CommitIds
<1>5. commits'[Here.branch[n]].reach \subseteq commits'[clone'[Mine].branch[n]].reach
  BY <1>3, <1>4 DEF RemoteInv, Ancestry, Reaches
<1>6. commits'[Here.branch[n]] = commits[Here.branch[n]]
  BY <1>2 DEF KeepsServer
<1>7. server[n] # NoCommit => Reaches(commits', clone'[Mine].branch[n], server[n])
  BY <1>2, <1>5, <1>6 DEF Reaches
<1>8. n # NoBranch
  BY DEF MayPush
<1>. QED
  BY <1>3, <1>7, <1>8 DEF MayPush, NoCommit

\* The steps of the methods that do not publish, and the ones that end a method.
LEMMA NotPublishing ==
    ASSUME PublishInv,
           UNCHANGED pulling,
           manager'.at = "pulling" <=> manager.at = "pulling",
           manager'.at \notin {"committed", "pushing"}
    PROVE  PublishInv'
BY DEF PublishInv

\* Each step keeps a push possible, if nothing disturbs it.
LEMMA PublishStep ==
    ASSUME ConfigInv, PublishInv, ConfigNext, Undisturbed
    PROVE  PublishInv'
<1>1. /\ Mine \in Clones /\ Manager \in Threads /\ Watcher \in Threads /\ Manager # Watcher
      /\ Here \in ClonesOver(Ref) /\ manager \in Method
      /\ server \in [Branches -> Ref] /\ NoBranch \notin Branches
      /\ pulling \in [Clones -> [Threads -> Pull]] /\ pushing \in [Clones -> Push]
      /\ RemoteInv /\ ConfigTypeOK /\ ProposalInv
  BY HereFacts, ConfigAssumption DEF ConfigInv, RemoteInv, TypeOK
<1>2. RemoteInv' /\ KeepsServer /\ LocalBranchesKept
  BY RepositoryStep, ConfigKeeps
<1>3. Idle => manager = NoMethod
  BY <1>1 DEF Idle, ProposalInv
<1>4. CASE \/ \E q \in Paths, content \in Content : WriteConfig(q, content)
           \/ \E n \in Branches :
                 \/ SwitchEnvironment(n) \/ ApplyProposal(n) \/ Connected(n) \/ ProposeCall(n)
                 \/ \E x \in CommitIds : CreateEnvironment(n, x)
           \/ \E q \in Paths : ProposeReadFile(q) \/ ProposeWrite(q)
           \/ ProposeList \/ ProposeBranch \/ ProposeSwitch \/ ProposeCommit \/ ProposeRaises
           \/ PublishRefused \/ PublishEnd
  <2>1. manager.at # "pulling" /\ manager'.at \notin {"pulling", "committed", "pushing"}
    <3>1. CASE \/ \E q \in Paths, content \in Content : WriteConfig(q, content)
               \/ \E n \in Branches :
                     \/ SwitchEnvironment(n) \/ ApplyProposal(n) \/ Connected(n)
                     \/ \E x \in CommitIds : CreateEnvironment(n, x)
      BY <1>3, <3>1 DEF WriteConfig, SwitchEnvironment, ApplyProposal, Connected,
                        CreateEnvironment, NoMethod
    <3>2. CASE \E n \in Branches : ProposeCall(n)
      BY <1>3, <3>2 DEF ProposeCall, NoMethod
    <3>3. CASE ProposeList \/ ProposeBranch \/ ProposeSwitch
      BY <1>1, <3>3 DEF ProposeList, ProposeBranch, ProposeSwitch, Continue, Method
    <3>4. CASE ProposeRaises
      BY <3>4 DEF ProposeRaises, Return, NoMethod
    <3>5. CASE \E q \in Paths : ProposeReadFile(q) \/ ProposeWrite(q)
      BY <1>1, <3>5 DEF ProposeReadFile, ProposeWrite, Method
    <3>6. CASE ProposeCommit
      BY <1>1, <3>6 DEF ProposeCommit, Method
    <3>7. CASE PublishRefused \/ PublishEnd
      BY <3>7 DEF PublishRefused, PublishEnd, Return, NoMethod
    <3>. QED
      BY <1>4, <3>1, <3>2, <3>3, <3>7, <3>6, <3>5, <3>4
  <2>2. UNCHANGED pulling
    BY <1>4
    DEF WriteConfig, SwitchEnvironment, CheckoutFiles, Checkout, ApplyProposal, MergeBranch,
        CheckoutCancelled, Connected, Connect, CreateEnvironment, CreateBranch, ProposeCall,
        ProposeList, ProposeReadFile, ProposeBranch, ProposeSwitch, ProposeWrite, ProposeCommit,
        ProposeRaises, Commit, PublishRefused, PublishEnd, PushEnd, PushBreaks, remoteVars
  <2>. QED
    BY <2>1, <2>2, NotPublishing
<1>5. CASE PublishCommit \/ ProposeBack
  <2>1. manager.at \notin {"pulling", "committed"} /\ manager'.at = "committed"
    <3>1. CASE PublishCommit
      BY <1>3, <3>1 DEF PublishCommit, NoMethod
    <3>2. CASE ProposeBack
      BY <1>1, <3>2 DEF ProposeBack, Continue, Method
    <3>. QED
      BY <1>5, <3>1, <3>2
  <2>2. UNCHANGED pulling
    BY <1>5 DEF PublishCommit, ProposeBack, Commit, CheckoutFiles, Checkout, remoteVars
  <2>. QED
    BY <2>1, <2>2 DEF PublishInv, Undisturbed
<1>6. CASE PublishPush
  <2>1. /\ manager.at = "committed" /\ manager'.at = "pushing"
        /\ UNCHANGED <<pulling, server>>
        /\ pushing' = [pushing EXCEPT ![Mine] =
              [branch |-> PushedBranch, old |-> server[PushedBranch],
               new |-> clone[Mine].branch[PushedBranch]]]
    BY <1>1, <1>6 DEF PublishPush, PushStart, Continue, Method
  <2>2. pushing'[Mine].branch = PushedBranch /\ pushing'[Mine].old = server[PushedBranch]
    BY <1>1, <2>1
  <2>. QED
    BY <2>1, <2>2 DEF PublishInv
<1>7. CASE SyncFetch
  <2>1. manager = NoMethod
    BY <1>3, <1>7 DEF SyncFetch
  <2>2. CASE PullFetch(Mine, Manager) /\ Continue("pulling")
    BY <2>1, <2>2 DEF PublishInv, Continue, NoMethod
  <2>3. CASE Fetch(Mine) /\ UNCHANGED manager
    BY <2>1, <2>3 DEF PublishInv, Fetch, NoMethod
  <2>. QED
    BY <1>7, <2>2, <2>3 DEF SyncFetch
<1>8. CASE SyncChoose \/ SyncMerge
  <2>1. manager.at = "pulling" /\ UNCHANGED manager
    BY <1>8 DEF PublishInv, SyncChoose, SyncMerge, PullChoose, PullMerge
  <2>. QED
    BY <2>1 DEF PublishInv
<1>9. CASE SyncEnd
  <2>1. manager' = NoMethod /\ pulling' = [pulling EXCEPT ![Mine][Manager] = NoPull]
    BY <1>9 DEF SyncEnd, Return, PullReturns, PullRaises
  <2>2. pulling'[Mine][Manager] = NoPull
    BY <1>1, <2>1
  <2>. QED
    BY <2>1, <2>2 DEF PublishInv, NoMethod, NoPull
<1>10. ASSUME UNCHANGED <<manager, pushing>>,
              pulling'[Mine][Manager] = pulling[Mine][Manager],
              clone'[Mine].head.branch = Here.head.branch,
              manager.at \in {"committed", "pushing"} => server'[Publishing] = server[Publishing]
       PROVE  PublishInv'
  <2>1. PushedBranch' = PushedBranch
    BY <1>10 DEF PushedBranch, Here
  <2>2. ASSUME manager.at = "committed"
        PROVE  MayPush(Mine, PushedBranch)'
    <3>1. MayPush(Mine, PushedBranch) /\ Publishing = PushedBranch
      BY <2>2 DEF PublishInv, Publishing
    <3>2. PICK n \in Branches : n = PushedBranch
      BY <1>1, <3>1 DEF MayPush, PushedBranch, ClonesOver, Method
    <3>3. MayPush(Mine, n) /\ server'[n] = server[n]
      BY <1>10, <2>2, <3>1, <3>2
    <3>4. MayPush(Mine, n)'
      BY <1>2, <3>3, StillMayPush
    <3>. QED
      BY <2>1, <3>2, <3>4 DEF MayPush
  <2>3. manager.at = "pushing" => server'[pushing[Mine].branch] = pushing[Mine].old
    BY <1>10 DEF PublishInv, Publishing
  <2>. QED
    BY <1>10, <2>1, <2>2, <2>3 DEF PublishInv
<1>11. CASE WatcherNext
  <2>1. /\ \/ PullFetch(Mine, Watcher) \/ PullChoose(Mine, Watcher)
           \/ PullMerge(Mine, Watcher) \/ PullRaises(Mine, Watcher)
           \/ PullReturns(Mine, Watcher)
        /\ UNCHANGED manager
    BY <1>11 DEF WatcherNext, PollFetch, PollChoose, PollMerge, PollRaises, PollNotify
  <2>2. /\ UNCHANGED <<server, pushing>>
        /\ clone'[Mine].head.branch = Here.head.branch
        /\ pulling'[Mine][Manager] = pulling[Mine][Manager]
    BY <1>1, <2>1, PullLeaves
  <2>. QED
    BY <1>10, <2>1, <2>2
<1>12. ASSUME NEW n \in Branches, NEW tree \in Tree, PeerPublishes(n, tree)
       PROVE  PublishInv'
  <2>1. /\ UNCHANGED <<clone, pulling, pushing, manager>>
        /\ server' = [server EXCEPT ![n] = Len(commits) + 1]
    BY <1>12 DEF PeerPublishes
  <2>2. manager.at \in {"committed", "pushing"} => server'[Publishing] = server[Publishing]
    BY <1>1, <1>12, <2>1 DEF Undisturbed
  <2>. QED
    BY <1>10, <2>1, <2>2 DEF Here
<1>. QED
  BY <1>4, <1>5, <1>6, <1>7, <1>8, <1>9, <1>11, <1>12 DEF ConfigNext, ManagerNext

\* A method that publishes ends with its commit on the remote.
LEMMA PublishArrives ==
    ASSUME ConfigInv, PublishInv, ConfigNext, Undisturbed,
           manager.at \in {"committed", "pushing"}, manager'.at = "idle"
    PROVE  \E n \in Branches : server'[n] # NoCommit /\
              Reaches(commits', server'[n], manager.id)
<1>1. /\ Mine \in Clones /\ manager \in Method /\ pushing \in [Clones -> Push]
      /\ server \in [Branches -> Ref] /\ PushInv /\ RemoteInv
  BY HereFacts DEF ConfigInv, RemoteInv, TypeOK
<1>2. PublishRefused \/ PublishEnd
  <2>1. ~(SyncChoose \/ SyncMerge \/ SyncEnd)
    BY DEF PublishInv, SyncChoose, SyncMerge, SyncEnd, PullChoose, PullMerge, PullReturns,
           PullRaises
  <2>. QED
    BY <1>1, <2>1
    DEF ConfigNext, ManagerNext, WatcherNext, WriteConfig, PublishCommit, PublishPush,
        SyncFetch, SwitchEnvironment, ApplyProposal, CreateEnvironment, ProposeCall, ProposeList,
        ProposeReadFile, ProposeBranch, ProposeSwitch, ProposeWrite, ProposeCommit, ProposeBack,
        ProposeRaises, Idle, Continue,
        PollFetch, PollChoose, PollMerge, PollRaises, PollNotify, Connected, PeerPublishes,
        Method
<1>3. PublishEnd
  BY <1>2 DEF PublishRefused, PublishInv
<1> DEFINE p == pushing[Mine]
<1>4. /\ manager.at = "pushing" /\ p \in Push /\ SoundPush(p)
      /\ Reaches(commits, p.new, manager.id) /\ server[p.branch] = p.old
  BY <1>1, <1>3 DEF PublishEnd, PushInv, RemoteInv, PublishInv
<1>5. p.branch \in Branches /\ p.new # NoCommit
  BY <1>4 DEF SoundPush
<1>6. server'[p.branch] = p.new /\ UNCHANGED commits
  <2>1. CASE PushEnd(Mine)
    BY <1>1, <1>4, <1>5, <2>1 DEF PushEnd, ServerTakes
  <2>2. CASE PushBreaks(Mine)
    BY <1>4, <2>2 DEF PushBreaks, Undisturbed, Publishing
  <2>. QED
    BY <1>3, <2>1, <2>2 DEF PublishEnd
<1>. QED
  BY <1>4, <1>5, <1>6 DEF Reaches, NoCommit

\* Undisturbed, publish() and proposeChanges() do what the documentation says:
\* they return only when their commit is on a branch of the remote - although the
\* watcher may pull between any two of their steps, and other clients publish to
\* other branches.
THEOREM PublishArrivesIfUndisturbed ==
    ConfigSpec /\ [][Undisturbed]_configVars => PublishReachesRemote
<1>1. ConfigInit => PublishInv
  BY ConfigAssumption DEF ConfigInit, Init, PublishInv, NoMethod, NoPull
<1>2. ConfigInv /\ PublishInv /\ [ConfigNext]_configVars /\ [Undisturbed]_configVars
      => PublishInv'
  <2>1. ASSUME ConfigInv, PublishInv, UNCHANGED configVars
        PROVE  PublishInv'
    BY <2>1 DEF configVars, PublishInv, MayPush, PushedBranch, Here, Reaches, NoCommit
  <2>. QED
    BY <2>1, PublishStep
<1>3. ConfigInv /\ PublishInv /\ [ConfigNext]_configVars /\ [Undisturbed]_configVars
      => [manager.at \in {"committed", "pushing"} /\ manager'.at = "idle" =>
             \E n \in Branches : server'[n] # NoCommit /\
                 Reaches(commits', server'[n], manager.id)]_configVars
  BY PublishArrives
<1>. QED
  BY <1>1, <1>2, <1>3, ConfigInvariant, PTL DEF ConfigSpec, PublishReachesRemote
=============================================================================
