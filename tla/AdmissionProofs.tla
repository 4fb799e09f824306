-------------------------- MODULE AdmissionProofs ---------------------------
(***************************************************************************)
(* Proofs about Admission, for any number of clients and connections.      *)
(***************************************************************************)
EXTENDS Admission, TLAPS

Request ==
    [pc     : {"idle", "waiting", "admitted", "working", "wanting", "using"},
     kind   : Kinds \cup {None},
     user   : Users \cup {None},
     stage  : {"list", "item", "close", "parse", None},
     todo   : 0..MaxItems,
     second : Conns \cup {None}]

\* What a commit goes on with has the type of a request, the request's kind,
\* and waits for a connection.
LEMMA OnwardsTyping ==
    ASSUME NEW r \in Request, NEW n \in 0..MaxItems
    PROVE  /\ Onwards(r, n) \in Request
           /\ Onwards(r, n).pc = "wanting"
           /\ Onwards(r, n).kind = r.kind
<1>1. (IF n = 0 THEN 0 ELSE n - 1) \in 0..MaxItems
  BY AdmissionAssumption
<1>. QED
  BY <1>1 DEF Onwards, Request

LEMMA IdleTyping == Idle \in Request
BY AdmissionAssumption DEF Idle, Request

\* Type correctness of Admission, for any clients, users and connections.
THEOREM AdmissionTyping == Spec => []TypeOK
<1>1. Init => TypeOK
  BY IdleTyping DEF Init, TypeOK, Request
<1>2. TypeOK /\ [Next]_vars => TypeOK'
  <2>. SUFFICES ASSUME TypeOK, [Next]_vars PROVE TypeOK'
    OBVIOUS
  <2>0. req \in [Clients -> Request]
    BY DEF TypeOK, Request
  <2>. SUFFICES /\ owner' \in [Conns -> Clients \cup {None}]
                /\ role' \in [Users -> {"none", "viewer", "valuer"}]
                /\ req' \in [Clients -> Request]
    BY DEF TypeOK, Request
  <2>1. ASSUME NEW c \in Clients, End(c)
        PROVE  owner' \in [Conns -> Clients \cup {None}] /\ req' \in [Clients -> Request]
    BY <2>0, <2>1, IdleTyping DEF End, Returned, TypeOK
  <2>2. ASSUME NEW c \in Clients, NEW kind \in Kinds, NEW u \in Users \cup {None},
               Send(c, kind, u)
        PROVE  TypeOK'
    <3>. DEFINE r == [[[req[c] EXCEPT !.pc = "waiting"] EXCEPT !.kind = kind] EXCEPT !.user = u]
    <3>1. req[c] \in Request
      BY <2>0
    <3>2. r \in Request
      BY <3>1 DEF Request
    <3>3. req' = [req EXCEPT ![c] = r]
      BY <2>0, <2>2 DEF Send
    <3>. HIDE DEF r
    <3>4. req' \in [Clients -> Request]
      BY <2>0, <3>2, <3>3
    <3>. QED
      BY <2>2, <3>4 DEF Send, TypeOK, Request
  <2>3. ASSUME NEW c \in Clients, NEW k \in Conns, Acquire(c, k) \/ AcquireSecond(c, k)
        PROVE  TypeOK'
    BY <2>0, <2>3 DEF Acquire, AcquireSecond, TypeOK, Request
  <2>4. ASSUME NEW c \in Clients,
               AcquireTimesOut(c) \/ Unauthorized(c) \/ Answer(c) \/ Finish(c)
                 \/ SecondTimesOut(c)
        PROVE  TypeOK'
    BY <2>1, <2>4 DEF AcquireTimesOut, Unauthorized, Answer, Finish, SecondTimesOut,
                      TypeOK, Request
  <2>5. ASSUME NEW c \in Clients, Authenticate(c)
        PROVE  TypeOK'
    <3>1. role' \in [Users -> {"none", "viewer", "valuer"}]
      BY <2>5 DEF Authenticate, Upserted, TypeOK
    <3>2. CASE UNCHANGED owner /\ req' = [req EXCEPT ![c].pc = "working"]
      BY <2>0, <3>1, <3>2 DEF TypeOK, Request
    <3>3. CASE End(c)
      BY <2>1, <3>1, <3>3 DEF TypeOK, Request
    <3>. QED
      BY <2>5, <3>2, <3>3 DEF Authenticate
  <2>6. ASSUME NEW c \in Clients, AskSecond(c)
        PROVE  TypeOK'
    <3>. DEFINE s == IF req[c].kind = "upload" THEN "parse" ELSE "list"
                r == [[req[c] EXCEPT !.pc = "wanting"] EXCEPT !.stage = s]
    <3>1. req[c] \in Request
      BY <2>0
    <3>2. r \in Request
      BY <3>1 DEF Request
    <3>3. req' = [req EXCEPT ![c] = r]
      BY <2>0, <2>6 DEF AskSecond
    <3>. HIDE DEF r, s
    <3>4. req' \in [Clients -> Request]
      BY <2>0, <3>2, <3>3
    <3>. QED
      BY <2>6, <3>4 DEF AskSecond, TypeOK, Request
  <2>7. ASSUME NEW c \in Clients, NEW n \in 0..MaxItems, Listed(c, n)
        PROVE  TypeOK'
    BY <2>0, <2>7, OnwardsTyping DEF Listed, GiveBack, TypeOK, Request
  <2>8. ASSUME NEW c \in Clients, ItemDone(c) \/ ItemSkipped(c)
        PROVE  TypeOK'
    <3>1. req[c] \in Request /\ req[c].todo \in 0..MaxItems
      BY <2>0 DEF Request
    <3>2. Onwards(req[c], req[c].todo) \in Request
      BY <3>1, OnwardsTyping
    <3>. QED
      BY <2>0, <2>8, <3>2 DEF ItemDone, ItemSkipped, GiveBack, TypeOK, Request
  <2>9. ASSUME NEW u \in Users, ChangeRole(u)
        PROVE  TypeOK'
    BY <2>0, <2>9 DEF ChangeRole, TypeOK, Request
  <2>10. CASE UNCHANGED vars
    BY <2>10 DEF vars, TypeOK, Request
  <2>. QED
    BY <2>2, <2>3, <2>4, <2>5, <2>6, <2>7, <2>8, <2>9, <2>10
       DEF Next, Handling, TypeOK, Request
<1>. QED
  BY <1>1, <1>2, PTL DEF Spec

-----------------------------------------------------------------------------
(***************************************************************************)
(* The inductive invariant behind the gridlock property: what a request    *)
(* holds follows from where it is.                                         *)
(***************************************************************************)
Holds(c, k) == owner[k] = c

\* A request holds one connection, or its second one and at most one other.
HoldingInv ==
    \A c \in Clients :
        /\ \A k \in Conns : Holds(c, k) =>
              req[c].pc \in {"admitted", "working", "wanting", "using"}
        /\ req[c].pc \in {"admitted", "working", "wanting"} =>
              \A k, l \in Conns : Holds(c, k) /\ Holds(c, l) => k = l
        /\ req[c].pc = "using" =>
              /\ req[c].second \in Conns
              /\ Holds(c, req[c].second)
              /\ \A k, l \in Conns \ {req[c].second} :
                    Holds(c, k) /\ Holds(c, l) => k = l
        /\ req[c].pc \in {"wanting", "using"} => req[c].kind \in NeedsTwo

LEMMA HoldingHolds == Spec => []HoldingInv
<1>1. Init => HoldingInv
  <2>. SUFFICES ASSUME Init PROVE HoldingInv
    OBVIOUS
  <2>1. \A c \in Clients : req[c].pc = "idle"
    BY DEF Init, Idle
  <2>2. \A c \in Clients, k \in Conns : owner[k] # c
    BY AdmissionAssumption DEF Init
  <2>. QED
    BY <2>1, <2>2 DEF HoldingInv, Holds
<1>2. TypeOK /\ HoldingInv /\ [Next]_vars => HoldingInv'
  <2>. SUFFICES ASSUME TypeOK, HoldingInv, [Next]_vars PROVE HoldingInv'
    OBVIOUS
  <2>0. /\ req \in [Clients -> Request]
        /\ owner \in [Conns -> Clients \cup {None}]
        /\ None \notin Clients
    BY AdmissionAssumption DEF TypeOK, Request
  <2>1. ASSUME NEW c \in Clients, End(c)
        PROVE  HoldingInv'
    BY <2>0, <2>1, AdmissionAssumption DEF End, Returned, HoldingInv, Holds, Idle
  <2>2. ASSUME NEW c \in Clients, NEW kind \in Kinds, NEW u \in Users \cup {None},
               Send(c, kind, u)
        PROVE  HoldingInv'
    BY <2>0, <2>2 DEF Send, HoldingInv, Holds, Request
  <2>3. ASSUME NEW c \in Clients, NEW k \in Conns, Acquire(c, k)
        PROVE  HoldingInv'
    BY <2>0, <2>3 DEF Acquire, Free, HoldingInv, Holds, Request
  <2>4. ASSUME NEW c \in Clients, NEW k \in Conns, AcquireSecond(c, k)
        PROVE  HoldingInv'
    BY <2>0, <2>4 DEF AcquireSecond, Free, HoldingInv, Holds, Request
  <2>5. ASSUME NEW c \in Clients,
               AcquireTimesOut(c) \/ Unauthorized(c) \/ Answer(c) \/ Finish(c)
                 \/ SecondTimesOut(c)
        PROVE  HoldingInv'
    BY <2>1, <2>5 DEF AcquireTimesOut, Unauthorized, Answer, Finish, SecondTimesOut
  <2>6. ASSUME NEW c \in Clients, Authenticate(c)
        PROVE  HoldingInv'
    <3>1. CASE UNCHANGED owner /\ req' = [req EXCEPT ![c].pc = "working"]
      BY <2>0, <2>6, <3>1 DEF Authenticate, HoldingInv, Holds, Request
    <3>. QED
      BY <2>1, <2>6, <3>1 DEF Authenticate
  <2>7. ASSUME NEW c \in Clients, AskSecond(c)
        PROVE  HoldingInv'
    BY <2>0, <2>7 DEF AskSecond, HoldingInv, Holds, Request, NeedsTwo
  <2>8. ASSUME NEW c \in Clients, NEW n \in 0..MaxItems,
               Listed(c, n) \/ (ItemDone(c) /\ n = req[c].todo)
        PROVE  HoldingInv'
    <3>1. /\ req' = [req EXCEPT ![c] = Onwards(req[c], n)]
          /\ owner' = [owner EXCEPT ![req[c].second] = None]
          /\ req[c].pc = "using"
      BY <2>8 DEF Listed, ItemDone, GiveBack
    <3>2. Onwards(req[c], n).pc = "wanting" /\ Onwards(req[c], n).kind = req[c].kind
      BY <2>0, OnwardsTyping
    <3>. QED
      BY <2>0, <3>1, <3>2 DEF HoldingInv, Holds
  <2>9. ASSUME NEW c \in Clients, ItemSkipped(c)
        PROVE  HoldingInv'
    <3>1. req[c].todo \in 0..MaxItems
      BY <2>0 DEF Request
    <3>2. /\ Onwards(req[c], req[c].todo).pc = "wanting"
          /\ Onwards(req[c], req[c].todo).kind = req[c].kind
      BY <2>0, <3>1, OnwardsTyping
    <3>. QED
      BY <2>0, <2>9, <3>2 DEF ItemSkipped, HoldingInv, Holds
  <2>10. CASE UNCHANGED vars \/ \E u \in Users : ChangeRole(u)
    BY <2>10 DEF vars, ChangeRole, HoldingInv, Holds
  <2>11. ASSUME NEW c \in Clients, ItemDone(c)
         PROVE  HoldingInv'
    BY <2>0, <2>8, <2>11 DEF Request
  <2>. QED
    BY <2>2, <2>3, <2>4, <2>5, <2>6, <2>7, <2>8, <2>9, <2>10, <2>11 DEF Next, Handling
<1>. QED
  BY <1>1, <1>2, AdmissionTyping, PTL DEF Spec

\* Connections are never lost, and only as many commits and uploads as there
\* are connections can leave everyone waiting, whatever the pool's size.
THEOREM AdmissionGridlock == Spec => []GridlockTakesAllConnections
<1>1. TypeOK /\ HoldingInv => GridlockTakesAllConnections
  <2>. SUFFICES ASSUME TypeOK, HoldingInv PROVE GridlockTakesAllConnections
    OBVIOUS
  <2>1. \A k \in Conns : owner[k] # None => owner[k] \in Clients
    BY DEF TypeOK
  <2>2. ASSUME NEW k \in Conns, owner[k] # None
        PROVE  req[owner[k]].pc \in {"admitted", "working", "wanting", "using"}
    BY <2>1, <2>2 DEF HoldingInv, Holds
  <2>3. ASSUME Gridlocked, NEW k \in Conns, NEW l \in Conns
        PROVE  req[owner[k]].kind \in NeedsTwo /\ (owner[k] = owner[l] => k = l)
    BY <2>1, <2>3 DEF Gridlocked, HoldingInv, Holds
  <2>. QED
    BY <2>2, <2>3 DEF GridlockTakesAllConnections
<1>. QED
  BY <1>1, HoldingHolds, AdmissionTyping, PTL
=============================================================================
