------------------------------ MODULE GitForge ------------------------------
(***************************************************************************)
(* A GitForgeHelper that several threads use: its REST client, made on     *)
(* first use if the constructor was given options, the GitLab project id,  *)
(* looked up on first use, and rest_mutex, which guards the making of both *)
(* and is not recursive.  What the requests carry is left out: a request   *)
(* is answered or it fails.                                                *)
(***************************************************************************)
CONSTANTS
    Threads,    \* the threads that call the helper
    NoThread    \* rest_mutex is free

VARIABLES
    forge,      \* forge_type
    rest,       \* TRUE once there is a REST client
    projectId,  \* TRUE once gitlab_project_id is set
    holder,     \* the thread that holds rest_mutex
    at,         \* where each thread is
    raised      \* what the last call of each thread raised, "none" if nothing

vars == <<forge, rest, projectId, holder, at, raised>>

\* getGitLabProjectId() "awaits" rest_mutex, then is in its own restCall(),
\* "looking" up the id with the lock held: it needs a client, then "asks".
\* The restCall() of the method itself is the "call": it may have to "make"
\* the client, then it is "sent".
Places == {"idle", "awaits", "looking", "asks", "call", "make", "sent"}

TypeOK ==
    /\ forge \in {"github", "gitlab"}
    /\ rest \in BOOLEAN
    /\ projectId \in BOOLEAN
    /\ holder \in Threads \cup {NoThread}
    /\ at \in [Threads -> Places]
    /\ raised \in [Threads ->
                      {"none", "request failed", "client failed", "lock error"}]

\* Both constructors, for both forges: with a client, or with options.
Init ==
    /\ forge \in {"github", "gitlab"}
    /\ rest \in BOOLEAN
    /\ projectId = FALSE
    /\ holder = NoThread
    /\ at = [t \in Threads |-> "idle"]
    /\ raised = [t \in Threads |-> "none"]

Moves(t, from, to) ==
    /\ at[t] = from
    /\ at' = [at EXCEPT ![t] = to]

Ends(t, from, error) ==
    /\ Moves(t, from, "idle")
    /\ raised' = [raised EXCEPT ![t] = error]

-----------------------------------------------------------------------------
\* createPullRequest(), listPullRequests(), getPullRequest(),
\* closePullRequest(): for GitLab the project id comes first.
Begin(t) ==
    /\ Moves(t, "idle", IF forge = "gitlab" /\ ~projectId THEN "awaits" ELSE "call")
    /\ UNCHANGED <<forge, rest, projectId, holder, raised>>

\* getGitLabProjectId() has the lock, and looks again if another thread was
\* faster.
LockForId(t) ==
    /\ holder = NoThread
    /\ IF projectId THEN Moves(t, "awaits", "call") /\ UNCHANGED holder
       ELSE Moves(t, "awaits", "looking") /\ holder' = t
    /\ UNCHANGED <<forge, rest, projectId, raised>>

LookUp(t) ==
    /\ rest
    /\ Moves(t, "looking", "asks")
    /\ UNCHANGED <<forge, rest, projectId, holder, raised>>

\* getRestClient() locks rest_mutex again: the thread holds it already, so
\* AutoLock raises, and the lock of getGitLabProjectId() is released.
LookUpRaises(t) ==
    /\ ~rest
    /\ Ends(t, "looking", "lock error")
    /\ holder' = NoThread
    /\ UNCHANGED <<forge, rest, projectId>>

\* An answer without an id leaves it unknown: int(resp.id) is then 0.
IdAnswered(t) ==
    /\ Moves(t, "asks", "call")
    /\ projectId' \in BOOLEAN
    /\ holder' = NoThread
    /\ UNCHANGED <<forge, rest, raised>>

IdFails(t) ==
    /\ Ends(t, "asks", "request failed")
    /\ holder' = NoThread
    /\ UNCHANGED <<forge, rest, projectId>>

-----------------------------------------------------------------------------
\* restCall(): getRestClient() looks for a client without the lock.
Call(t) ==
    /\ Moves(t, "call", IF rest THEN "sent" ELSE "make")
    /\ UNCHANGED <<forge, rest, projectId, holder, raised>>

\* getRestClient() with the lock: the client is made unless another thread was
\* faster.
MakeClient(t) ==
    /\ holder = NoThread
    /\ Moves(t, "make", "sent")
    /\ rest' = TRUE
    /\ UNCHANGED <<forge, projectId, holder, raised>>

\* The RestClientIo constructor does not accept the options.
MakeFails(t) ==
    /\ holder = NoThread /\ ~rest
    /\ Ends(t, "make", "client failed")
    /\ UNCHANGED <<forge, rest, projectId, holder>>

Answered(t) ==
    /\ Ends(t, "sent", "none")
    /\ UNCHANGED <<forge, rest, projectId, holder>>

Fails(t) ==
    /\ Ends(t, "sent", "request failed")
    /\ UNCHANGED <<forge, rest, projectId, holder>>

ThreadNext(t) ==
    \/ Begin(t)
    \/ LockForId(t) \/ LookUp(t) \/ LookUpRaises(t) \/ IdAnswered(t) \/ IdFails(t)
    \/ Call(t) \/ MakeClient(t) \/ MakeFails(t) \/ Answered(t) \/ Fails(t)

Next == \E t \in Threads : ThreadNext(t)

Spec == Init /\ [][Next]_vars

-----------------------------------------------------------------------------
\* rest_mutex is held by the one thread that looks the project id up, and the
\* id is looked up by nobody once it is known: threads that all start with the
\* id unknown send one request for it, apart from those that fail or bring none.
OneLookup ==
    \A t \in Threads :
        at[t] \in {"looking", "asks"} => holder = t /\ ~projectId

\* getGitLabProjectId() is "thread-safe, cached" and raises GIT-FORGE-ERROR if
\* the "API call failed": a call raises because a request or the making of the
\* client failed, never because the helper's own lock is taken.
RaisesOnlyForRequests == \A t \in Threads : raised[t] # "lock error"
=============================================================================
