--------------------------- MODULE GitForgeProofs ---------------------------
(***************************************************************************)
(* Proofs about GitForge: rest_mutex does what it is for, and a helper for *)
(* GitLab that was given options never gets past it.                       *)
(***************************************************************************)
EXTENDS GitForge, TLAPS

\* Every step of every thread keeps the state well-formed.
LEMMA ForgeTypeStep == TypeOK /\ [Next]_vars => TypeOK'
<1>. SUFFICES ASSUME TypeOK, [Next]_vars PROVE TypeOK'
  OBVIOUS
<1>. USE DEF TypeOK, Places, Moves, Ends
<1>1. ASSUME NEW t \in Threads, Begin(t) \/ Call(t)
      PROVE  TypeOK'
  BY <1>1 DEF Begin, Call
<1>2. ASSUME NEW t \in Threads, LockForId(t) \/ LookUp(t) \/ LookUpRaises(t)
      PROVE  TypeOK'
  BY <1>2 DEF LockForId, LookUp, LookUpRaises
<1>3. ASSUME NEW t \in Threads, IdAnswered(t) \/ IdFails(t)
      PROVE  TypeOK'
  BY <1>3 DEF IdAnswered, IdFails
<1>4. ASSUME NEW t \in Threads, MakeClient(t) \/ MakeFails(t) \/ Answered(t) \/ Fails(t)
      PROVE  TypeOK'
  BY <1>4 DEF MakeClient, MakeFails, Answered, Fails
<1>5. CASE UNCHANGED vars
  BY <1>5 DEF vars
<1>. QED
  BY <1>1, <1>2, <1>3, <1>4, <1>5 DEF Next, ThreadNext

\* The inductive invariant: the lock is held by a thread exactly while it looks
\* the project id up.
HeldForLookup ==
    /\ NoThread \notin Threads
    /\ OneLookup
    /\ holder # NoThread => at[holder] \in {"looking", "asks"}

\* Every step of every thread keeps it.
LEMMA ForgeStep ==
    ASSUME TypeOK, HeldForLookup, [Next]_vars
    PROVE  HeldForLookup'
<1>. USE DEF HeldForLookup, TypeOK, OneLookup, Moves, Ends
<1>1. ASSUME NEW t \in Threads, Begin(t)
      PROVE  HeldForLookup'
  BY <1>1 DEF Begin
<1>2. ASSUME NEW t \in Threads, LockForId(t)
      PROVE  HeldForLookup'
  <2>1. CASE projectId
    BY <1>2, <2>1 DEF LockForId
  <2>2. CASE ~projectId
    BY <1>2, <2>2 DEF LockForId
  <2>. QED
    BY <2>1, <2>2
<1>3. ASSUME NEW t \in Threads, LookUp(t)
      PROVE  HeldForLookup'
  BY <1>3 DEF LookUp
<1>4. ASSUME NEW t \in Threads, LookUpRaises(t) \/ IdFails(t)
      PROVE  HeldForLookup'
  BY <1>4 DEF LookUpRaises, IdFails
<1>5. ASSUME NEW t \in Threads, IdAnswered(t)
      PROVE  HeldForLookup'
  BY <1>5 DEF IdAnswered
<1>6. ASSUME NEW t \in Threads, Call(t)
      PROVE  HeldForLookup'
  BY <1>6 DEF Call
<1>7. ASSUME NEW t \in Threads, MakeClient(t) \/ MakeFails(t)
      PROVE  HeldForLookup'
  BY <1>7 DEF MakeClient, MakeFails
<1>8. ASSUME NEW t \in Threads, Answered(t) \/ Fails(t)
      PROVE  HeldForLookup'
  <2>1. at' = [at EXCEPT ![t] = "idle"] /\ at[t] = "sent"
    BY <1>8 DEF Answered, Fails
  <2>2. holder' = holder /\ projectId' = projectId
    BY <1>8 DEF Answered, Fails
  <2>. QED
    BY <2>1, <2>2
<1>9. CASE UNCHANGED vars
  BY <1>9 DEF vars
<1>. QED
  BY <1>1, <1>2, <1>3, <1>4, <1>5, <1>6, <1>7, <1>8, <1>9 DEF Next, ThreadNext

\* The project id is looked up under the lock and by one thread at a time, and
\* by none once it is known.
THEOREM ForgeLooksUpOnce == NoThread \notin Threads /\ Spec => []OneLookup
<1>1. NoThread \notin Threads /\ Init => TypeOK /\ HeldForLookup
  BY DEF Init, HeldForLookup, TypeOK, OneLookup, Places
<1>2. TypeOK /\ HeldForLookup /\ [Next]_vars => (TypeOK /\ HeldForLookup)'
  BY ForgeStep, ForgeTypeStep
<1>3. HeldForLookup => OneLookup
  BY DEF HeldForLookup
<1>. QED
  BY <1>1, <1>2, <1>3, PTL DEF Spec

-----------------------------------------------------------------------------
\* A GitLab helper without a client: no call has got as far as to make one.
Stuck ==
    /\ TypeOK
    /\ forge = "gitlab" /\ ~rest /\ ~projectId
    /\ \A t \in Threads : at[t] \in {"idle", "awaits", "looking"}

\* The self-made lock error is for good: a GitLab helper made from options
\* never makes its client and never learns the project id, whatever calls its
\* threads make (getGitLabProjectId() holds rest_mutex when getRestClient()
\* asks for it).
THEOREM GitLabFromOptionsIsStuck ==
    Spec /\ forge = "gitlab" /\ ~rest => [](~rest /\ ~projectId)
<1>1. Init /\ forge = "gitlab" /\ ~rest => Stuck
  BY DEF Init, Stuck, TypeOK, Places
<1>2. ASSUME Stuck, [Next]_vars
      PROVE  Stuck'
  <2>. USE <1>2 DEF Stuck, TypeOK, Places, Moves, Ends
  <2>1. ASSUME NEW t \in Threads, Begin(t)
        PROVE  Stuck'
    BY <2>1 DEF Begin
  <2>2. ASSUME NEW t \in Threads, LockForId(t)
        PROVE  Stuck'
    BY <2>2 DEF LockForId
  <2>3. ASSUME NEW t \in Threads, LookUpRaises(t)
        PROVE  Stuck'
    BY <2>3 DEF LookUpRaises
  <2>4. ASSUME NEW t \in Threads,
               \/ LookUp(t) \/ IdAnswered(t) \/ IdFails(t)
               \/ Call(t) \/ MakeClient(t) \/ MakeFails(t) \/ Answered(t) \/ Fails(t)
        PROVE  FALSE
    BY <2>4 DEF LookUp, IdAnswered, IdFails, Call, MakeClient, MakeFails, Answered, Fails
  <2>5. CASE UNCHANGED vars
    BY <2>5 DEF vars
  <2>. QED
    BY <1>2, <2>1, <2>2, <2>3, <2>4, <2>5 DEF Next, ThreadNext
<1>3. Stuck => ~rest /\ ~projectId
  BY DEF Stuck
<1>. QED
  BY <1>1, <1>2, <1>3, PTL DEF Spec

-----------------------------------------------------------------------------
\* A helper for GitHub, or one that was given a client.
HasClientForId ==
    /\ TypeOK
    /\ forge = "github" \/ rest
    /\ forge = "github" => \A t \in Threads : at[t] \notin {"awaits", "looking", "asks"}
    /\ RaisesOnlyForRequests

\* No other helper raises the lock error: one for GitHub, or one made with a REST
\* client, raises only if a request or the making of the client failed, whatever
\* its threads call at once.
THEOREM OtherHelpersRaiseForRequests ==
    Spec /\ (forge = "github" \/ rest) => []RaisesOnlyForRequests
<1>1. Init /\ (forge = "github" \/ rest) => HasClientForId
  BY DEF Init, HasClientForId, TypeOK, Places, RaisesOnlyForRequests
<1>2. ASSUME HasClientForId, [Next]_vars
      PROVE  HasClientForId'
  <2>1. TypeOK'
    BY <1>2, ForgeTypeStep DEF HasClientForId
  <2>. USE <1>2, <2>1 DEF HasClientForId, TypeOK, Moves, Ends, RaisesOnlyForRequests
  <2>2. ASSUME NEW t \in Threads, Begin(t)
        PROVE  HasClientForId'
    BY <2>2 DEF Begin
  <2>3. ASSUME NEW t \in Threads, LockForId(t) \/ LookUp(t)
        PROVE  HasClientForId'
    BY <2>3 DEF LockForId, LookUp
  <2>4. ASSUME NEW t \in Threads
        PROVE  ~LookUpRaises(t)
    BY DEF LookUpRaises
  <2>5. ASSUME NEW t \in Threads, IdAnswered(t) \/ IdFails(t)
        PROVE  HasClientForId'
    BY <2>5 DEF IdAnswered, IdFails
  <2>6. ASSUME NEW t \in Threads, Call(t) \/ MakeClient(t) \/ MakeFails(t)
        PROVE  HasClientForId'
    BY <2>6 DEF Call, MakeClient, MakeFails
  <2>7. ASSUME NEW t \in Threads, Answered(t) \/ Fails(t)
        PROVE  HasClientForId'
    BY <2>7 DEF Answered, Fails
  <2>8. CASE UNCHANGED vars
    BY <2>8 DEF vars
  <2>. QED
    BY <1>2, <2>2, <2>3, <2>4, <2>5, <2>6, <2>7, <2>8 DEF Next, ThreadNext
<1>3. HasClientForId => RaisesOnlyForRequests
  BY DEF HasClientForId
<1>. QED
  BY <1>1, <1>2, <1>3, PTL DEF Spec
=============================================================================
