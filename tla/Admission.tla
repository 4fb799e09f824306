------------------------------ MODULE Admission ------------------------------
(***************************************************************************)
(* How a request gets to work: get_db lends it a connection of the pool,   *)
(* current_user reads its token and provisions its row in app_user,        *)
(* require_valuer looks at the role, and the handler runs.  The pool is    *)
(* asked before the token is, so refused requests hold a connection too.   *)
(*                                                                         *)
(* Most handlers work on that connection alone.  commit_import keeps it    *)
(* while commit_batch takes a second one for the list, for each item and   *)
(* for the closing statements; create_import keeps it while its background *)
(* task parse_worker.run takes a second one, because the framework leaves  *)
(* a request's dependencies after its background tasks.                    *)
(*                                                                         *)
(* A step is the code up to the next wait for a connection or for the      *)
(* database.  What a handler does with its connection is in the other      *)
(* modules; e-mail and last_seen_at of a user are left out.                *)
(***************************************************************************)
EXTENDS Naturals

CONSTANTS
    Clients,      \* streams of requests
    Users,        \* the subjects of valid tokens
    Conns,        \* the connections of the pool (max_size of them)
    MaxItems,     \* bound: the items a commit lists
    None

ASSUME AdmissionAssumption ==
    /\ MaxItems \in Nat
    /\ None \notin Clients \cup Users \cup Conns

VARIABLES
    owner,        \* for each connection, the client it is lent to, or None
    role,         \* app_user.role of each user, "none" without a row
    req           \* for each client, the request it has under way

vars == <<owner, role, req>>

Kinds == {"read", "write", "upload", "commit"}
ValuerOnly == {"write", "upload", "commit"}
NeedsTwo == {"upload", "commit"}

Idle == [pc |-> "idle", kind |-> None, user |-> None,
         stage |-> None, todo |-> 0, second |-> None]

Free == {k \in Conns : owner[k] = None}

\* Leaving an "async with pool.acquire()" gives the connection back.
GiveBack(k) == owner' = [owner EXCEPT ![k] = None]

\* The request is answered and its dependencies are left, whatever happened.
\* (Variant: the connection that was taken second stays out.)
ReturnedButSecond(c) ==
    [k \in Conns |-> IF owner[k] = c /\ k # req[c].second THEN None ELSE owner[k]]
Returned(c) == [k \in Conns |-> IF owner[k] = c THEN None ELSE owner[k]]

End(c) ==
    /\ owner' = Returned(c)
    /\ req' = [req EXCEPT ![c] = Idle]

-----------------------------------------------------------------------------
\* A request with the token of user u, or with none that verifies.
Send(c, kind, u) ==
    /\ req[c].pc = "idle"
    /\ req' = [req EXCEPT ![c].pc = "waiting", ![c].kind = kind, ![c].user = u]
    /\ UNCHANGED <<owner, role>>

Acquire(c, k) ==
    /\ req[c].pc = "waiting"
    /\ k \in Free
    /\ owner' = [owner EXCEPT ![k] = c]
    /\ req' = [req EXCEPT ![c].pc = "admitted"]
    /\ UNCHANGED role

\* DB_ACQUIRE_TIMEOUT_S is over: 503.
AcquireTimesOut(c) ==
    /\ req[c].pc = "waiting"
    /\ End(c)
    /\ UNCHANGED role

\* No token, or one that does not verify: 401.
Unauthorized(c) ==
    /\ req[c].pc = "admitted"
    /\ req[c].user = None
    /\ End(c)
    /\ UNCHANGED role

\* upsert_from_claims: a row on first sight, else the row keeps its role.
Upserted(u) == IF role[u] = "none" THEN "viewer" ELSE role[u]

\* The user's row is there; viewers get a 403 where valuers are asked for.
Authenticate(c) ==
    /\ req[c].pc = "admitted"
    /\ LET u == req[c].user
       IN  /\ u # None
           /\ role' = [role EXCEPT ![u] = Upserted(u)]
           /\ \/ /\ req[c].kind \in ValuerOnly => Upserted(u) = "valuer"
                 /\ req' = [req EXCEPT ![c].pc = "working"]
                 /\ UNCHANGED owner
              \/ /\ req[c].kind \in ValuerOnly /\ Upserted(u) # "valuer"
                 /\ End(c)

\* The handler is through, or raised.
Answer(c) ==
    /\ req[c].pc = "working"
    /\ End(c)
    /\ UNCHANGED role

\* The handler goes on to the code that takes a connection of its own.
AskSecond(c) ==
    /\ req[c].pc = "working"
    /\ req[c].kind \in NeedsTwo
    /\ req' = [req EXCEPT ![c].pc = "wanting",
                          ![c].stage = IF req[c].kind = "upload" THEN "parse" ELSE "list"]
    /\ UNCHANGED <<owner, role>>

AcquireSecond(c, k) ==
    /\ req[c].pc = "wanting"
    /\ k \in Free
    /\ owner' = [owner EXCEPT ![k] = c]
    /\ req' = [req EXCEPT ![c].pc = "using", ![c].second = k]
    /\ UNCHANGED role

\* What the commit wants a connection for with n items to go.  (Variant: the
\* loop runs past its end.)
OnwardsPastEnd(r, n) ==
    [r EXCEPT !.pc = "wanting", !.second = None, !.stage = "item", !.todo = n - 1]
Onwards(r, n) ==
    [r EXCEPT !.pc = "wanting", !.second = None,
              !.stage = IF n = 0 THEN "close" ELSE "item",
              !.todo = IF n = 0 THEN 0 ELSE n - 1]

\* list_for_commit is read and its connection returned.
Listed(c, n) ==
    /\ req[c].pc = "using"
    /\ req[c].stage = "list"
    /\ GiveBack(req[c].second)
    /\ req' = [req EXCEPT ![c] = Onwards(@, n)]
    /\ UNCHANGED role

\* An item's transaction is over, committed or not.
ItemDone(c) ==
    /\ req[c].pc = "using"
    /\ req[c].stage = "item"
    /\ GiveBack(req[c].second)
    /\ req' = [req EXCEPT ![c] = Onwards(@, req[c].todo)]
    /\ UNCHANGED role

\* An item fails its checks or its acquisition times out: the loop counts a
\* failure and goes on.
ItemSkipped(c) ==
    /\ req[c].pc = "wanting"
    /\ req[c].stage = "item"
    /\ req' = [req EXCEPT ![c] = Onwards(@, req[c].todo)]
    /\ UNCHANGED <<owner, role>>

\* The batch is closed or parsed, or a statement outside the loop raised.
Finish(c) ==
    /\ req[c].pc = "using"
    /\ req[c].stage # "item"
    /\ End(c)
    /\ UNCHANGED role

\* Ten seconds without a second connection: the commit is answered 503, the
\* background task ends before it has begun.  (Variant: the wait has no end.)
SecondNeverTimesOut(c) == FALSE /\ UNCHANGED vars
SecondTimesOut(c) ==
    /\ req[c].pc = "wanting"
    /\ req[c].stage # "item"
    /\ End(c)
    /\ UNCHANGED role

\* Roles are changed in the database's own console.
ChangeRole(u) ==
    /\ role[u] # "none"
    /\ role' = [role EXCEPT ![u] = IF @ = "viewer" THEN "valuer" ELSE "viewer"]
    /\ UNCHANGED <<owner, req>>

Init ==
    /\ owner = [k \in Conns |-> None]
    /\ role = [u \in Users |-> "none"]
    /\ req = [c \in Clients |-> Idle]

Handling(c) ==
    \/ \E k \in Conns : Acquire(c, k) \/ AcquireSecond(c, k)
    \/ AcquireTimesOut(c)
    \/ Unauthorized(c)
    \/ Authenticate(c)
    \/ Answer(c)
    \/ AskSecond(c)
    \/ \E n \in 0..MaxItems : Listed(c, n)
    \/ ItemDone(c)
    \/ ItemSkipped(c)
    \/ Finish(c)
    \/ SecondTimesOut(c)

Next ==
    \/ \E c \in Clients :
          \/ \E kind \in Kinds, u \in Users \cup {None} : Send(c, kind, u)
          \/ Handling(c)
    \/ \E u \in Users : ChangeRole(u)

Spec == Init /\ [][Next]_vars

\* The event loop resumes every coroutine, and its timers fire.
FairSpec == Spec /\ \A c \in Clients : WF_vars(Handling(c))

-----------------------------------------------------------------------------
\* Every variable has the shape the code gives it.
TypeOK ==
    /\ owner \in [Conns -> Clients \cup {None}]
    /\ role \in [Users -> {"none", "viewer", "valuer"}]
    /\ req \in [Clients ->
          [pc     : {"idle", "waiting", "admitted", "working", "wanting", "using"},
           kind   : Kinds \cup {None},
           user   : Users \cup {None},
           stage  : {"list", "item", "close", "parse", None},
           todo   : 0..MaxItems,
           second : Conns \cup {None}]]

\* No connection is ever lost: one that is lent belongs to a request that is
\* past get_db and not yet answered.  When every connection is in the hands of
\* a request that waits for another one, there are as many such requests as
\* connections, and each is a commit or an upload: with fewer of these than
\* connections, some holder can always go on and give its connection back.
Gridlocked == \A k \in Conns : owner[k] # None /\ req[owner[k]].pc = "wanting"

GridlockTakesAllConnections ==
    /\ \A k \in Conns : owner[k] # None =>
          req[owner[k]].pc \in {"admitted", "working", "wanting", "using"}
    /\ Gridlocked =>
          \A k, l \in Conns : /\ req[owner[k]].kind \in NeedsTwo
                              /\ owner[k] = owner[l] => k = l

\* Every request ends, in a gridlock too: all waits for connections are timed.
RequestsEnd == \A c \in Clients : (req[c].pc # "idle") ~> (req[c].pc = "idle")
=============================================================================
