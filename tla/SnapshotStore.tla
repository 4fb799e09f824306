--------------------------- MODULE SnapshotStore ----------------------------
(***************************************************************************)
(* The valuation snapshots of the API and the two kinds of requests that   *)
(* race on them: publishing a valuation (routers/snapshots.py, and the     *)
(* commit loop of services/commit_worker.py, which runs the same           *)
(* statements) and soft-deleting a property (routers/properties.py).       *)
(*                                                                         *)
(* The database is PostgreSQL at its default READ COMMITTED.  A handler is *)
(* a coroutine: other handlers run at each of its awaits, so each          *)
(* statement is a step.  Inside a transaction, the UPDATE that supersedes  *)
(* the old rows takes two kinds of steps:                                  *)
(*   Scan     fixes the target rows: the active rows committed by then;    *)
(*   LockRow  takes the next target's row lock, waiting while another      *)
(*            transaction holds it, and re-checks the WHERE clause: a row  *)
(*            superseded meanwhile is skipped.                             *)
(* The UPDATE has no ORDER BY, so the targets are locked in any order, and *)
(* two transactions may each wait for a row the other holds: PostgreSQL's  *)
(* deadlock detector then ends one of them with an error.                  *)
(* Write is the commit: it makes the flips, the inserted row and its audit *)
(* row visible together.  A row is numbered at its commit.                 *)
(*                                                                         *)
(* Requests that end without a write (404, 409, 422) are steps only when   *)
(* the handler had already taken one.                                      *)
(***************************************************************************)
EXTENDS Naturals, Sequences

CONSTANTS Properties, Inputs, Sources, Writers,
          Deleters,       \* streams of DELETE /properties/{id} requests
          MaxSnapshots    \* bound: no request starts once so many rows exist

ASSUME MaxSnapshotsAssumption == MaxSnapshots \in Nat

VARIABLES
    snap,      \* public.valuation_snapshot, in commit order
    deleted,   \* the properties whose deleted_at is set
    audit,     \* public.audit_log: who did what to which row
    tx,        \* for each writer, the request it is handling
    del        \* for each deleter, the request it is handling

vars == <<snap, deleted, audit, tx, del>>

Ledger == INSTANCE SnapshotLedger

Row == Ledger!Row
ActiveRows(p) == Ledger!ActiveRows(p)

Idle == [pc |-> "idle"]

\* A publishing request: rows it has locked, and targets it has yet to lock.
Tx == [pc       : {"checked", "scanned"},
       property : Properties,
       inputs   : Inputs,
       source   : Sources,
       todo     : SUBSET Nat,
       locked   : SUBSET Nat]

Deletion == [pc : {"found", "counted"}, property : Properties]

AuditRow == [action : {"create"}, target : Nat, actor : Writers]
              \cup [action : {"soft_delete"}, target : Properties, actor : Deleters]

-----------------------------------------------------------------------------
(***************************************************************************)
(* Publishing a valuation.                                                 *)
(***************************************************************************)

\* get_property finds the property live, and the engine accepts the inputs.
CheckProperty(w, p, v, src) ==
    /\ tx[w] = Idle
    /\ p \notin deleted
    /\ Len(snap) < MaxSnapshots
    /\ tx' = [tx EXCEPT ![w] = [pc |-> "checked", property |-> p, inputs |-> v,
                                source |-> src, todo |-> {}, locked |-> {}]]
    /\ UNCHANGED <<snap, deleted, audit, del>>

\* The WHERE clause of supersede_active.  (Variants: without the property; the
\* latest row only.)
SupersedingAll(p) == UNION {ActiveRows(q) : q \in Properties}
SupersedingLatest(p) == {r \in ActiveRows(p) : \A q \in ActiveRows(p) : q <= r}
Superseding(p) == ActiveRows(p)

\* The UPDATE of supersede_active fixes its target rows.
Scan(w) ==
    /\ tx[w].pc = "checked"
    /\ tx' = [tx EXCEPT ![w].pc = "scanned", ![w].todo = Superseding(tx[w].property)]
    /\ UNCHANGED <<snap, deleted, audit, del>>

\* A row lock is exclusive.  (Variant: no row locks.)
HeldByNobody(w, r) == FALSE
HeldByAnother(w, r) ==
    \E o \in Writers \ {w} : tx[o].pc = "scanned" /\ r \in tx[o].locked

\* The WHERE clause, evaluated again on a row that was waited for.  (Variant:
\* with the property only.)
OfTheProperty(r) == TRUE
StillActive(r) == snap[r].status = "active"

\* It locks one more target, once no other transaction holds its row lock.
LockRow(w) ==
    /\ tx[w].pc = "scanned"
    /\ \E r \in tx[w].todo :
          /\ ~HeldByAnother(w, r)
          /\ tx' = [tx EXCEPT ![w].todo = @ \ {r},
                              ![w].locked = IF StillActive(r)
                                              THEN @ \cup {r}
                                              ELSE @]
    /\ UNCHANGED <<snap, deleted, audit, del>>

\* The inserted row.  (Variant: the flip, run after the insert, hits it too.)
NewRowFlipped(w) == [property |-> tx[w].property, inputs |-> tx[w].inputs,
                     source |-> tx[w].source, by |-> w, status |-> "superseded"]
NewRow(w) == [property |-> tx[w].property, inputs |-> tx[w].inputs,
              source |-> tx[w].source, by |-> w, status |-> "active"]

\* The rows the commit flips.  (Variant: none.)
FlippedNone(w) == {}
Flipped(w) == tx[w].locked

\* insert_snapshot, the audit row, and the commit of the transaction.
Write(w) ==
    /\ tx[w].pc = "scanned"
    /\ tx[w].todo = {}
    /\ snap' = Append(Ledger!Superseded(Flipped(w)), NewRow(w))
    /\ audit' = audit \cup
                  {[action |-> "create", target |-> Len(snap) + 1, actor |-> w]}
    /\ tx' = [tx EXCEPT ![w] = Idle]
    /\ UNCHANGED <<deleted, del>>

\* What an error leaves of a request: leaving conn.transaction() rolls it back
\* and gives its row locks up.  (Variant: it goes on inside the transaction.)
AfterErrorRetried(w) == tx[w]
AfterError(w) == Idle

\* A statement fails or times out, or the process stops: rollback.
Abort(w) ==
    /\ tx[w] # Idle
    /\ tx' = [tx EXCEPT ![w] = AfterError(w)]
    /\ UNCHANGED <<snap, deleted, audit, del>>

\* Each of the writers S waits for rows that others of S hold.
InDeadlock(S) ==
    \A w \in S :
        /\ tx[w].pc = "scanned"
        /\ tx[w].todo # {}
        /\ \A r \in tx[w].todo :
              \E o \in S \ {w} : tx[o].pc = "scanned" /\ r \in tx[o].locked

\* The deadlock detector makes the waiting UPDATE of one of them fail.
BreakDeadlock(w) ==
    /\ \E S \in SUBSET Writers : w \in S /\ InDeadlock(S)
    /\ Abort(w)

-----------------------------------------------------------------------------
(***************************************************************************)
(* Soft-deleting a property.                                               *)
(***************************************************************************)

\* get_property finds the property live.
FindProperty(d, p) ==
    /\ del[d] = Idle
    /\ p \notin deleted
    /\ del' = [del EXCEPT ![d] = [pc |-> "found", property |-> p]]
    /\ UNCHANGED <<snap, deleted, audit, tx>>

\* count_active_snapshots finds none; otherwise the answer is a 409.
CountActive(d) ==
    /\ del[d].pc = "found"
    /\ del' = [del EXCEPT ![d] = IF ActiveRows(del[d].property) = {}
                                   THEN [@ EXCEPT !.pc = "counted"]
                                   ELSE Idle]
    /\ UNCHANGED <<snap, deleted, audit, tx>>

\* The audit row of a deletion.  (Variant: target and actor swapped.)
DeletionRowSwapped(d, p) == [action |-> "soft_delete", target |-> d, actor |-> p]
DeletionRow(d, p) == [action |-> "soft_delete", target |-> p, actor |-> d]

\* The UPDATE's "deleted_at is null".  (Variant: an UPDATE without it.)
StillLiveUnasked(p) == TRUE
StillLive(p) == p \notin deleted

\* soft_delete_property and its audit row, in one transaction.  When another
\* request deleted the property first the UPDATE returns no row, and the
\* assertion that follows it rolls the transaction back.
SoftDelete(d) ==
    /\ del[d].pc = "counted"
    /\ LET p == del[d].property IN
         IF StillLive(p)
           THEN /\ deleted' = deleted \cup {p}
                /\ audit' = audit \cup {DeletionRow(d, p)}
           ELSE UNCHANGED <<deleted, audit>>
    /\ del' = [del EXCEPT ![d] = Idle]
    /\ UNCHANGED <<snap, tx>>

AbortDelete(d) ==
    /\ del[d] # Idle
    /\ del' = [del EXCEPT ![d] = Idle]
    /\ UNCHANGED <<snap, deleted, audit, tx>>

-----------------------------------------------------------------------------
Init ==
    /\ snap = << >>
    /\ deleted = {}
    /\ audit = {}
    /\ tx = [w \in Writers |-> Idle]
    /\ del = [d \in Deleters |-> Idle]

Publishing(w) ==
    \/ \E p \in Properties, v \in Inputs, src \in Sources :
          CheckProperty(w, p, v, src)
    \/ Scan(w)
    \/ LockRow(w)
    \/ Write(w)
    \/ Abort(w)

Deleting(d) ==
    \/ \E p \in Properties : FindProperty(d, p)
    \/ CountActive(d)
    \/ SoftDelete(d)
    \/ AbortDelete(d)

Next == (\E w \in Writers : Publishing(w)) \/ (\E d \in Deleters : Deleting(d))

Spec == Init /\ [][Next]_vars

(***************************************************************************)
(* The event loop resumes every coroutine whose await is done, so a        *)
(* started request takes its next step.  PostgreSQL queues the waiters of  *)
(* a row lock first come, first served: a writer whose target is released  *)
(* again and again gets it (strong fairness).  It looks for a cycle of     *)
(* waiters after deadlock_timeout and breaks it.  Nothing obliges a client *)
(* to send a request, and nothing else obliges a request to fail.          *)
(***************************************************************************)
Fairness ==
    /\ \A w \in Writers :
          /\ WF_vars(Scan(w) \/ Write(w) \/ BreakDeadlock(w))
          /\ SF_vars(LockRow(w))
    /\ \A d \in Deleters : WF_vars(CountActive(d) \/ SoftDelete(d))

FairSpec == Spec /\ Fairness

-----------------------------------------------------------------------------
(***************************************************************************)
(* Properties.                                                             *)
(***************************************************************************)

\* Every variable has the shape the tables and handlers give it.
TypeOK ==
    /\ snap \in Seq(Row)
    /\ deleted \subseteq Properties
    /\ audit \subseteq AuditRow
    /\ tx \in [Writers -> {Idle} \cup Tx]
    /\ del \in [Deleters -> {Idle} \cup Deletion]

\* A row lock means what Write relies on: the rows a transaction has locked
\* are still active rows of its property (none was superseded under it, not
\* even one it waited for), and no two transactions hold the same row.
LockExclusive ==
    \A w \in Writers : tx[w].pc = "scanned" =>
        /\ tx[w].locked \subseteq ActiveRows(tx[w].property)
        /\ \A o \in Writers \ {w} :
              tx[o].pc = "scanned" => tx[w].locked \cap tx[o].locked = {}

\* However requests overlap, abort and delete, the newest valuation of a
\* property is active: superseding never leaves a valued property without a
\* current figure, and never prefers an older one.
NewestIsActive ==
    \A i \in DOMAIN snap :
        (\A j \in DOMAIN snap : snap[j].property = snap[i].property => j <= i)
            => snap[i].status = "active"

\* Why that is so: once a writer's UPDATE has fixed its targets, every active
\* row of its property that this writer published is a target, locked or still
\* to be locked; what it can miss are only the rows of others.
OwnRowsTargeted ==
    \A w \in Writers : tx[w].pc = "scanned" =>
        \A i \in ActiveRows(tx[w].property) :
            snap[i].by = w => i \in tx[w].todo \cup tx[w].locked

\* Two current valuations of one property always come from two streams of
\* requests: the supersede of a sequential writer never misses its own rows.
OneActivePerWriter ==
    \A p \in Properties : \A i, j \in ActiveRows(p) :
        snap[i].by = snap[j].by => i = j

\* The store implements the append-only ledger: published figures are final,
\* and the one change a row ever sees is active -> superseded, at the moment
\* a newer row of the same property becomes visible.
LedgerSpec == Ledger!Spec

\* A property is soft-deleted once, by one request, however many race.
DeletedOnce ==
    \A a, b \in audit :
        (a.action = "soft_delete" /\ b.action = "soft_delete" /\ a.target = b.target)
            => a = b

\* Every request that started ends: no writer waits forever for a row lock,
\* not even two that hold each other's rows (one of them ends in an error).
RequestsEnd ==
    /\ \A w \in Writers : []<>(tx[w] = Idle)
    /\ \A d \in Deleters : []<>(del[d] = Idle)

\* "only the latest is active" (2026-04-24-api-core-design.md:287).  Holds for
\* one writer; two overlapping requests for one property break it.
OnlyLatestActive ==
    \A p \in Properties : \A i, j \in ActiveRows(p) : i = j
=============================================================================
