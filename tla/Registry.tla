------------------------------ MODULE Registry ------------------------------
(***************************************************************************)
(* Entities and their properties: the create, update and delete handlers   *)
(* of routers/entities.py and routers/properties.py, and the audit rows    *)
(* they write with the row before and after the change.                    *)
(*                                                                         *)
(* A step is a statement, with one exception: the UPDATE or INSERT of a    *)
(* handler's transaction, its audit row and its commit are one step.  The  *)
(* UPDATE holds the row's lock until the commit, so no other transaction   *)
(* changes the row or reads the change in between, and a transaction that  *)
(* waited for the lock re-checks its WHERE clause on the committed row.    *)
(* What a handler read before its transaction is kept in its request.      *)
(*                                                                         *)
(* Whether a property has active snapshots is the subject of SnapshotStore *)
(* and a free choice here.                                                 *)
(***************************************************************************)
EXTENDS Naturals, Sequences

CONSTANTS
    Entities,      \* ids of public.entity
    Properties,    \* ids of public.property
    Fields,        \* columns a PATCH may set
    Values,        \* what they hold
    Clients,       \* streams of requests
    None,          \* SQL null, and the parent of an entity
    MaxLog         \* bound: no request starts once the log has so many rows

ASSUME RegistryAssumption ==
    /\ Entities \cap Properties = {}
    /\ None \notin Entities \cup Properties
    /\ MaxLog \in Nat

VARIABLES
    row,    \* public.entity and public.property: the row of each id, or None
    log,    \* public.audit_log, in commit order
    req     \* for each client, the request it is handling

vars == <<row, log, req>>

Ids == Entities \cup Properties
Idle == [pc |-> "idle"]

Row == [parent : Entities \cup {None}, cols : [Fields -> Values], live : BOOLEAN]

ASSUME NoneIsNoRow == None \notin Row

\* The bodies EntityUpdate and PropertyUpdate let through: at least one field.
Patch == UNION {[S -> Values] : S \in SUBSET Fields \ {{}}}

Live(x) == row[x] # None /\ row[x].live

\* The requests of create_property, update_* and delete_*, with what they read.
Creation == [pc : {"parent"}, parent : Entities]
Amendment == [pc : {"update"}, target : Ids, before : Row, patch : Patch]
Removal == [pc : {"delete", "counted"}, target : Ids, before : Row]

AuditRow == [action : {"create", "update", "soft_delete"}, target : Ids,
             before : Row \cup {None}, after : Row]

-----------------------------------------------------------------------------
\* A handler may start; the bound is on the log.
Starts(c) == req[c] = Idle /\ Len(log) < MaxLog

\* create_property finds its entity live.
FindParent(c, e) ==
    /\ Starts(c)
    /\ Live(e)
    /\ req' = [req EXCEPT ![c] = [pc |-> "parent", parent |-> e]]
    /\ UNCHANGED <<row, log>>

\* The transaction of a create: the row and its audit row, with a fresh id.
Insert(x, e, v) ==
    /\ row[x] = None
    /\ LET new == [parent |-> e, cols |-> v, live |-> TRUE]
       IN  /\ row' = [row EXCEPT ![x] = new]
           /\ log' = Append(log, [action |-> "create", target |-> x,
                                  before |-> None, after |-> new])

CreateEntity(c, x, v) ==
    /\ Starts(c)
    /\ Insert(x, None, v)
    /\ UNCHANGED req

CreateProperty(c, x, v) ==
    /\ req[c].pc = "parent"
    /\ Insert(x, req[c].parent, v)
    /\ req' = [req EXCEPT ![c] = Idle]

\* update_* and delete_* find the row live and keep it for the audit row.
FindToUpdate(c, x, patch) ==
    /\ Starts(c)
    /\ Live(x)
    /\ req' = [req EXCEPT ![c] = [pc |-> "update", target |-> x, before |-> row[x],
                                  patch |-> patch]]
    /\ UNCHANGED <<row, log>>

FindToDelete(c, x) ==
    /\ Starts(c)
    /\ Live(x)
    /\ req' = [req EXCEPT ![c] = [pc |-> "delete", target |-> x, before |-> row[x]]]
    /\ UNCHANGED <<row, log>>

\* count_live_properties, or count_active_snapshots; a 409 ends the request.
CountChildren(c) ==
    /\ req[c].pc = "delete"
    /\ \/ /\ \A p \in Properties : ~(Live(p) /\ row[p].parent = req[c].target)
          /\ req' = [req EXCEPT ![c].pc = "counted"]
       \/ /\ req[c].target \in Entities =>
                \E p \in Properties : Live(p) /\ row[p].parent = req[c].target
          /\ req' = [req EXCEPT ![c] = Idle]
    /\ UNCHANGED <<row, log>>

\* The "deleted_at is null" of the UPDATEs.  (Variant: without it.)
UpdatableUnasked(x) == row[x] # None
Updatable(x) == Live(x)

\* What the statement of a request makes of row r: a patch sets the columns it
\* names, a soft delete sets deleted_at.
Changed(c, r) ==
    IF req[c].pc = "counted"
      THEN [r EXCEPT !.live = FALSE]
      ELSE [r EXCEPT !.cols = [f \in Fields |-> IF f \in DOMAIN req[c].patch
                                                  THEN req[c].patch[f]
                                                  ELSE @[f]]]

\* It works on the row as it is by now.  (Variant: on the row read first.)
WrittenAsRead(c) == Changed(c, req[c].before)
Written(c) == Changed(c, row[req[c].target])

\* The audit row: what the handler read first and what the statement returned.
\* (Variants: "after" is made from what was read first; "before" is read after
\* the change; both are left out.)
ChangeRowAsRead(c, action) ==
    [action |-> action, target |-> req[c].target, before |-> req[c].before,
     after |-> Changed(c, req[c].before)]
ChangeRowLate(c, action) ==
    [action |-> action, target |-> req[c].target, before |-> Written(c), after |-> Written(c)]
ChangeRowEmpty(c, action) ==
    [action |-> action, target |-> req[c].target, before |-> None, after |-> None]
ChangeRow(c, action) ==
    [action |-> action, target |-> req[c].target, before |-> req[c].before,
     after |-> Written(c)]

\* The transaction of an update or a delete.  When the row was deleted in the
\* meantime the UPDATE returns none, and the assertion after it rolls back.
Change(c, action) ==
    /\ IF Updatable(req[c].target)
         THEN /\ row' = [row EXCEPT ![req[c].target] = Written(c)]
              /\ log' = Append(log, ChangeRow(c, action))
         ELSE UNCHANGED <<row, log>>
    /\ req' = [req EXCEPT ![c] = Idle]

Update(c) == req[c].pc = "update" /\ Change(c, "update")

SoftDelete(c) == req[c].pc = "counted" /\ Change(c, "soft_delete")

\* A statement fails or the process stops: rollback, and no answer but a 500.
Fail(c) ==
    /\ req[c] # Idle
    /\ req' = [req EXCEPT ![c] = Idle]
    /\ UNCHANGED <<row, log>>

-----------------------------------------------------------------------------
Init ==
    /\ row = [x \in Ids |-> None]
    /\ log = << >>
    /\ req = [c \in Clients |-> Idle]

Requests(c) ==
    \/ \E e \in Entities : FindParent(c, e)
    \/ \E x \in Entities, v \in [Fields -> Values] : CreateEntity(c, x, v)
    \/ \E x \in Properties, v \in [Fields -> Values] : CreateProperty(c, x, v)
    \/ \E x \in Ids, patch \in Patch : FindToUpdate(c, x, patch)
    \/ \E x \in Ids : FindToDelete(c, x)
    \/ CountChildren(c)
    \/ Update(c)
    \/ SoftDelete(c)
    \/ Fail(c)

Next == \E c \in Clients : Requests(c)

Spec == Init /\ [][Next]_vars

-----------------------------------------------------------------------------
(***************************************************************************)
(* Properties.                                                             *)
(***************************************************************************)

\* Every variable has the shape the tables and handlers give it.
TypeOK ==
    /\ row \in [Ids -> Row \cup {None}]
    /\ log \in Seq(AuditRow)
    /\ req \in [Clients -> {Idle} \cup Creation \cup Amendment \cup Removal]

\* The last audit row of an id tells its current row, although requests patch
\* different columns of it at the same time: no change goes unrecorded, and
\* none is recorded that another one had already overwritten.
LastAbout(x, i) == log[i].target = x /\ \A j \in DOMAIN log : log[j].target = x => j <= i

AuditTellsRows ==
    \A x \in Ids :
        /\ \A i \in DOMAIN log : LastAbout(x, i) => row[x] = log[i].after
        /\ row[x] # None => \E i \in DOMAIN log : log[i].target = x

\* The "before" of an audit row may be stale, and a request that raced makes
\* it so, but it was the row once: some earlier audit row has it as "after",
\* and the row was live then.
BeforeWasTrue ==
    \A i \in DOMAIN log : log[i].action # "create" =>
        /\ log[i].before.live
        /\ \E j \in 1..(i - 1) : /\ log[j].target = log[i].target
                                 /\ log[j].after = log[i].before

\* A deletion is the last thing that happens to a row: requests that found it
\* live before do not change it, revive it or delete it again.
DeletedIsFinal ==
    \A i, j \in DOMAIN log :
        (log[i].action = "soft_delete" /\ log[i].target = log[j].target) => j <= i

\* Patches of different columns do not undo each other: a column of a row only
\* changes when a request that names it finishes.
NoLostUpdate ==
    [][\A x \in Ids, f \in Fields :
          (row[x] # None /\ row'[x].cols[f] # row[x].cols[f]) =>
             \E c \in Clients : /\ req[c].pc = "update"
                                /\ req[c].target = x
                                /\ f \in DOMAIN req[c].patch
                                /\ req'[c] = Idle]_vars

\* "Deletes on entity and property are soft; only allowed when no live
\* children exist."  delete_entity counts and create_property looks for its
\* entity before the other's transaction: the property is live, its entity
\* is not.
NoOrphans ==
    \A p \in Properties : Live(p) => Live(row[p].parent)
=============================================================================
