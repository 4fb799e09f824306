--------------------------- MODULE RegistryProofs ---------------------------
(***************************************************************************)
(* What Registry guarantees for any number of clients, entities and        *)
(* properties, any columns and values, and any bound on the log.           *)
(***************************************************************************)
EXTENDS Registry, TLAPS

-----------------------------------------------------------------------------
(***************************************************************************)
(* Typing.                                                                 *)
(***************************************************************************)

\* A patch names columns and gives each a value.
LEMMA PatchColumns ==
    ASSUME NEW p \in Patch, NEW f \in DOMAIN p PROVE f \in Fields /\ p[f] \in Values
<1>1. PICK S \in SUBSET Fields \ {{}} : p \in [S -> Values]
  BY DEF Patch
<1> QED
  BY <1>1

\* The row a statement leaves is a row.
LEMMA WrittenIsRow ==
    ASSUME TypeOK, NEW c \in Clients,
           req[c].pc \in {"update", "counted"}, row[req[c].target] # None
    PROVE  Written(c) \in Row
<1> DEFINE r == row[req[c].target]
<1>1. r \in Row
  <2>1. req[c].target \in Ids
    BY DEF TypeOK, Idle, Creation, Amendment, Removal
  <2> QED
    BY <2>1 DEF TypeOK
<1>2. CASE req[c].pc = "counted"
  BY <1>1, <1>2 DEF Written, Changed, Row
<1>3. CASE req[c].pc = "update"
  <2>1. req[c].patch \in Patch
    BY <1>3 DEF TypeOK, Idle, Creation, Amendment, Removal
  <2>2. \A f \in Fields : f \in DOMAIN req[c].patch => req[c].patch[f] \in Values
    BY <2>1, PatchColumns
  <2>3. [f \in Fields |-> IF f \in DOMAIN req[c].patch THEN req[c].patch[f]
                            ELSE r.cols[f]] \in [Fields -> Values]
    BY <1>1, <2>2 DEF Row
  <2> QED
    BY <1>1, <1>3, <2>3 DEF Written, Changed, Row
<1> QED
  BY <1>2, <1>3

\* Typing holds of empty tables.
LEMMA InitTypeOK == Init => TypeOK
  BY DEF Init, TypeOK

\* Every statement of every handler keeps tables and requests well typed.
LEMMA NextTypeOK == TypeOK /\ [Next]_vars => TypeOK'
<1> SUFFICES ASSUME TypeOK, [Next]_vars PROVE TypeOK'
  OBVIOUS
<1> USE DEF Idle, Creation, Amendment, Removal
<1>1. CASE UNCHANGED vars
  BY <1>1 DEF vars, TypeOK
<1>2. ASSUME NEW c \in Clients, NEW e \in Entities, FindParent(c, e) PROVE TypeOK'
  BY <1>2 DEF FindParent, Starts, TypeOK
<1>3. ASSUME NEW x \in Ids, NEW e \in Entities \cup {None}, NEW v \in [Fields -> Values],
             Insert(x, e, v)
      PROVE  row' \in [Ids -> Row \cup {None}] /\ log' \in Seq(AuditRow)
  <2> DEFINE new == [parent |-> e, cols |-> v, live |-> TRUE]
  <2>1. new \in Row
    BY DEF Row
  <2>2. [action |-> "create", target |-> x, before |-> None, after |-> new] \in AuditRow
    BY <2>1 DEF AuditRow
  <2> QED
    BY <1>3, <2>1, <2>2 DEF Insert, TypeOK
<1>4. ASSUME NEW c \in Clients, NEW x \in Entities, NEW v \in [Fields -> Values],
             CreateEntity(c, x, v)
      PROVE  TypeOK'
  BY <1>4, <1>3 DEF CreateEntity, TypeOK, Ids
<1>5. ASSUME NEW c \in Clients, NEW x \in Properties, NEW v \in [Fields -> Values],
             CreateProperty(c, x, v)
      PROVE  TypeOK'
  <2>1. req[c].parent \in Entities
    BY <1>5 DEF CreateProperty, TypeOK
  <2> QED
    BY <1>5, <1>3, <2>1 DEF CreateProperty, TypeOK, Ids
<1>6. ASSUME NEW c \in Clients, NEW x \in Ids, NEW p \in Patch, FindToUpdate(c, x, p)
      PROVE  TypeOK'
  <2>1. row[x] \in Row
    BY <1>6 DEF FindToUpdate, Live, TypeOK
  <2> QED
    BY <1>6, <2>1 DEF FindToUpdate, Starts, TypeOK
<1>7. ASSUME NEW c \in Clients, NEW x \in Ids, FindToDelete(c, x) PROVE TypeOK'
  <2>1. row[x] \in Row
    BY <1>7 DEF FindToDelete, Live, TypeOK
  <2> QED
    BY <1>7, <2>1 DEF FindToDelete, Starts, TypeOK
<1>8. ASSUME NEW c \in Clients, CountChildren(c) PROVE TypeOK'
  <2>1. req[c] \in [pc : {"delete", "counted"}, target : Ids, before : Row]
    BY <1>8 DEF CountChildren, TypeOK
  <2>2. [req[c] EXCEPT !.pc = "counted"] \in [pc : {"delete", "counted"}, target : Ids, before : Row]
    BY <2>1
  <2>3. \/ req' = [req EXCEPT ![c] = Idle]
        \/ req' = [req EXCEPT ![c] = [req[c] EXCEPT !.pc = "counted"]]
    BY <1>8 DEF CountChildren
  <2>4. row' = row /\ log' = log
    BY <1>8 DEF CountChildren
  <2> QED
    BY <2>2, <2>3, <2>4 DEF TypeOK
<1>9. ASSUME NEW c \in Clients, NEW action \in {"update", "soft_delete"},
             req[c].pc \in {"update", "counted"}, Change(c, action)
      PROVE  TypeOK'
  <2>1. req[c].target \in Ids /\ req[c].before \in Row
    BY <1>9 DEF TypeOK
  <2>2. CASE Updatable(req[c].target)
    <3>1. Written(c) \in Row
      BY <1>9, <2>2, WrittenIsRow DEF Updatable, Live
    <3>2. ChangeRow(c, action) \in AuditRow
      BY <2>1, <3>1 DEF ChangeRow, AuditRow
    <3>3. row' \in [Ids -> Row \cup {None}]
      BY <1>9, <2>1, <2>2, <3>1 DEF Change, TypeOK
    <3>4. log' \in Seq(AuditRow)
      BY <1>9, <2>2, <3>2 DEF Change, TypeOK
    <3> QED
      BY <1>9, <3>3, <3>4 DEF Change, TypeOK
  <2>3. CASE ~Updatable(req[c].target)
    BY <1>9, <2>3 DEF Change, TypeOK
  <2> QED
    BY <2>2, <2>3
<1>10. ASSUME NEW c \in Clients, Fail(c) PROVE TypeOK'
  BY <1>10 DEF Fail, TypeOK
<1> QED
  BY <1>1, <1>2, <1>4, <1>5, <1>6, <1>7, <1>8, <1>9, <1>10
     DEF Next, Requests, Update, SoftDelete

\* Every reachable state is well typed.
THEOREM RegistryTyping == Spec => []TypeOK
<1>1. Init => TypeOK
  BY InitTypeOK
<1>2. TypeOK /\ [Next]_vars => TypeOK'
  BY NextTypeOK
<1> QED
  BY <1>1, <1>2, PTL DEF Spec

-----------------------------------------------------------------------------
(***************************************************************************)
(* The audit log.  A request holds what it read first, and that was the    *)
(* "after" of some audit row: this is what BeforeWasTrue needs of every    *)
(* request under way.                                                      *)
(***************************************************************************)

\* The row r is the "after" of some audit row of x.
WasTold(x, r) == \E j \in 1..Len(log) : log[j].target = x /\ log[j].after = r

RowsTold == \A x \in Ids : row[x] # None => WasTold(x, row[x])

HeldRowsTold ==
    \A c \in Clients : req[c].pc \in {"update", "delete", "counted"} =>
        req[c].before.live /\ WasTold(req[c].target, req[c].before)

AuditInv == AuditTellsRows /\ RowsTold /\ HeldRowsTold /\ BeforeWasTrue

\* Whatever a step appends to the log is in these words an audit row of the
\* row it writes.
Records(a) ==
    /\ a \in AuditRow
    /\ log' = Append(log, a)
    /\ row' = [row EXCEPT ![a.target] = a.after]

\* A create records the row it inserts.
LEMMA InsertRecords ==
    ASSUME TypeOK, NEW x \in Ids, NEW e \in Entities \cup {None},
           NEW v \in [Fields -> Values], Insert(x, e, v)
    PROVE  \E a : Records(a) /\ a.action = "create" /\ a.target = x /\ row[x] = None
<1> DEFINE new == [parent |-> e, cols |-> v, live |-> TRUE]
           a == [action |-> "create", target |-> x, before |-> None, after |-> new]
<1>1. new \in Row
  BY DEF Row
<1>2. a \in AuditRow
  BY <1>1 DEF AuditRow
<1>3. Records(a)
  BY <1>2 DEF Records, Insert
<1> QED
  BY <1>3 DEF Insert

\* An update or a delete records the row it writes, or changes nothing.
LEMMA ChangeRecords ==
    ASSUME TypeOK, NEW c \in Clients, NEW action \in {"update", "soft_delete"},
           req[c].pc \in {"update", "counted"}, Change(c, action)
    PROVE  \/ UNCHANGED <<row, log>>
           \/ /\ Records(ChangeRow(c, action))
              /\ Live(req[c].target)
<1>1. CASE Updatable(req[c].target)
  <2>1. req[c].target \in Ids /\ req[c].before \in Row
    BY DEF TypeOK, Idle, Creation, Amendment, Removal
  <2>2. Written(c) \in Row
    BY <1>1, WrittenIsRow DEF Updatable, Live
  <2>3. ChangeRow(c, action) \in AuditRow
    BY <2>1, <2>2 DEF ChangeRow, AuditRow
  <2> QED
    BY <1>1, <2>3 DEF Change, Records, ChangeRow, Updatable
<1>2. CASE ~Updatable(req[c].target)
  BY <1>2 DEF Change
<1> QED
  BY <1>1, <1>2

\* What a step does to the tables: nothing, or one recorded change, which a
\* create makes of a new row and another request of a live row.
LEMMA NextRecords ==
    ASSUME TypeOK, [Next]_vars
    PROVE  \/ UNCHANGED <<row, log>>
           \/ \E a : Records(a) /\ a.action = "create" /\ row[a.target] = None
           \/ \E c \in Clients : \E action \in {"update", "soft_delete"} :
                 /\ req[c].pc = (IF action = "update" THEN "update" ELSE "counted")
                 /\ Records(ChangeRow(c, action))
                 /\ Live(req[c].target)
<1>1. CASE UNCHANGED vars
  BY <1>1 DEF vars
<1>2. ASSUME NEW c \in Clients, NEW x \in Entities, NEW v \in [Fields -> Values],
             CreateEntity(c, x, v)
      PROVE  \E a : Records(a) /\ a.action = "create" /\ row[a.target] = None
  BY <1>2, InsertRecords DEF CreateEntity, Ids
<1>3. ASSUME NEW c \in Clients, NEW x \in Properties, NEW v \in [Fields -> Values],
             CreateProperty(c, x, v)
      PROVE  \E a : Records(a) /\ a.action = "create" /\ row[a.target] = None
  <2>1. req[c].parent \in Entities
    BY <1>3 DEF CreateProperty, TypeOK, Idle, Creation, Amendment, Removal
  <2> QED
    BY <1>3, <2>1, InsertRecords DEF CreateProperty, Ids
<1>4. ASSUME NEW c \in Clients, Update(c)
      PROVE  \/ UNCHANGED <<row, log>>
             \/ Records(ChangeRow(c, "update")) /\ Live(req[c].target)
  BY <1>4, ChangeRecords DEF Update
<1>5. ASSUME NEW c \in Clients, SoftDelete(c)
      PROVE  \/ UNCHANGED <<row, log>>
             \/ Records(ChangeRow(c, "soft_delete")) /\ Live(req[c].target)
  BY <1>5, ChangeRecords DEF SoftDelete
<1>6. ASSUME NEW c \in Clients,
             \/ \E e \in Entities : FindParent(c, e)
             \/ \E x \in Ids, p \in Patch : FindToUpdate(c, x, p)
             \/ \E x \in Ids : FindToDelete(c, x)
             \/ CountChildren(c)
             \/ Fail(c)
      PROVE  UNCHANGED <<row, log>>
  BY <1>6 DEF FindParent, FindToUpdate, FindToDelete, CountChildren, Fail
<1>7. ASSUME NEW c \in Clients, Update(c) PROVE req[c].pc = "update"
  BY <1>7 DEF Update
<1>8. ASSUME NEW c \in Clients, SoftDelete(c) PROVE req[c].pc = "counted"
  BY <1>8 DEF SoftDelete
<1> QED
  BY <1>1, <1>2, <1>3, <1>4, <1>5, <1>6, <1>7, <1>8 DEF Next, Requests

\* A recorded change leaves the log telling the rows.
LEMMA RecordsTell ==
    ASSUME TypeOK, AuditTellsRows, NEW a, Records(a) PROVE AuditTellsRows'
<1> DEFINE n == Len(log)
<1>1. log \in Seq(AuditRow) /\ n \in Nat /\ DOMAIN log = 1..n /\ a.target \in Ids
  BY DEF TypeOK, Records, AuditRow
<1>2. /\ DOMAIN log' = 1..(n + 1)
      /\ log'[n + 1] = a
      /\ \A i \in 1..n : log'[i] = log[i]
  BY <1>1 DEF Records
<1>3. \A x \in Ids : row'[x] = IF x = a.target THEN a.after ELSE row[x]
  BY DEF TypeOK, Records
<1>4. ASSUME NEW x \in Ids, NEW i \in 1..(n + 1), LastAbout(x, i)'
      PROVE  row'[x] = log'[i].after
  <2>1. CASE x = a.target
    <3>1. n + 1 <= i
      BY <1>1, <1>2, <1>4, <2>1 DEF LastAbout
    <3>2. i = n + 1
      BY <1>1, <3>1
    <3> QED
      BY <1>2, <1>3, <2>1, <3>2
  <2>2. CASE x # a.target
    <3>1. i \in 1..n
      BY <1>1, <1>2, <1>4, <2>2 DEF LastAbout
    <3>2. LastAbout(x, i)
      BY <1>1, <1>2, <1>4, <3>1 DEF LastAbout
    <3> QED
      BY <1>1, <1>2, <1>3, <2>2, <3>1, <3>2 DEF AuditTellsRows
  <2> QED
    BY <2>1, <2>2
<1>5. ASSUME NEW x \in Ids, row'[x] # None
      PROVE  \E i \in 1..(n + 1) : log'[i].target = x
  <2>1. CASE x = a.target
    BY <1>1, <1>2, <2>1
  <2>2. CASE x # a.target
    <3>1. PICK i \in 1..n : log[i].target = x
      BY <1>1, <1>3, <1>5, <2>2 DEF AuditTellsRows
    <3> QED
      BY <1>1, <1>2, <3>1
  <2> QED
    BY <2>1, <2>2
<1> QED
  BY <1>2, <1>4, <1>5 DEF AuditTellsRows

\* What the log told it still tells after an append.
LEMMA ToldStays ==
    ASSUME TypeOK, UNCHANGED log \/ \E a \in AuditRow : log' = Append(log, a)
    PROVE  /\ Len(log') \in Nat /\ Len(log) \in Nat /\ Len(log') >= Len(log)
           /\ \A j \in 1..Len(log) : log'[j] = log[j]
           /\ \A x, r : WasTold(x, r) => WasTold(x, r)'
<1>1. log \in Seq(AuditRow) /\ Len(log) \in Nat
  BY DEF TypeOK
<1>2. Len(log') \in Nat /\ Len(log') >= Len(log) /\ \A j \in 1..Len(log) : log'[j] = log[j]
  BY <1>1
<1> QED
  BY <1>1, <1>2 DEF WasTold

\* The row of every id was told by the log, and a recorded change tells its own.
LEMMA NextRowsTold ==
    ASSUME TypeOK, RowsTold, UNCHANGED <<row, log>> \/ \E a : Records(a)
    PROVE  RowsTold'
<1>1. CASE UNCHANGED <<row, log>>
  BY <1>1 DEF RowsTold, WasTold
<1>2. ASSUME NEW a, Records(a) PROVE RowsTold'
  <2>1. a \in AuditRow /\ a.target \in Ids /\ log' = Append(log, a)
    BY <1>2 DEF Records, AuditRow
  <2>2. \A x \in Ids : row'[x] = IF x = a.target THEN a.after ELSE row[x]
    BY <1>2 DEF TypeOK, Records
  <2>3. Len(log') = Len(log) + 1 /\ log'[Len(log) + 1] = a /\ Len(log) \in Nat
    BY <2>1 DEF TypeOK
  <2>4. WasTold(a.target, a.after)'
    BY <2>3 DEF WasTold
  <2>5. ASSUME NEW x \in Ids, row'[x] # None, x # a.target
        PROVE  WasTold(x, row[x])'
    <3>1. row'[x] = row[x] /\ WasTold(x, row[x])
      BY <2>2, <2>5 DEF RowsTold
    <3>2. PICK j \in 1..Len(log) : log[j].target = x /\ log[j].after = row[x]
      BY <3>1 DEF WasTold
    <3> QED
      BY <2>1, <3>1, <3>2, ToldStays DEF WasTold
  <2> QED
    BY <2>2, <2>4, <2>5 DEF RowsTold
<1> QED
  BY <1>1, <1>2

\* A request that holds a row has just read it, live, or held it before.
LEMMA HeldRows ==
    ASSUME TypeOK, [Next]_vars,
           NEW d \in Clients, req'[d].pc \in {"update", "delete", "counted"}
    PROVE  \/ /\ req'[d].target \in Ids
              /\ Live(req'[d].target)
              /\ req'[d].before = row[req'[d].target]
           \/ /\ req[d].pc \in {"update", "delete", "counted"}
              /\ req'[d].target = req[d].target
              /\ req'[d].before = req[d].before
<1> USE DEF Idle
<1> DEFINE Kept == /\ req[d].pc \in {"update", "delete", "counted"}
                   /\ req'[d].target = req[d].target
                   /\ req'[d].before = req[d].before
           Read == /\ req'[d].target \in Ids
                   /\ Live(req'[d].target)
                   /\ req'[d].before = row[req'[d].target]
<1>0. req[d] \in {Idle} \cup Creation \cup Amendment \cup Removal /\ DOMAIN req = Clients
  BY DEF TypeOK
<1>1. CASE UNCHANGED req
  BY <1>1
<1>2. ASSUME NEW c \in Clients, req' = [req EXCEPT ![c] = Idle] PROVE Kept
  BY <1>0, <1>2
<1>3. ASSUME NEW c \in Clients, NEW e \in Entities, FindParent(c, e) PROVE Kept
  BY <1>0, <1>3 DEF FindParent
<1>4. ASSUME NEW c \in Clients, NEW x \in Ids, NEW p \in Patch, FindToUpdate(c, x, p)
      PROVE  Kept \/ Read
  BY <1>0, <1>4 DEF FindToUpdate
<1>5. ASSUME NEW c \in Clients, NEW x \in Ids, FindToDelete(c, x) PROVE Kept \/ Read
  BY <1>0, <1>5 DEF FindToDelete
<1>6. ASSUME NEW c \in Clients, CountChildren(c) PROVE Kept
  <2>1. CASE c = d
    <3>1. req[d] \in Removal /\ req[d].pc = "delete"
      BY <1>0, <1>6, <2>1 DEF CountChildren, Creation, Amendment, Removal
    <3>2. CASE req' = [req EXCEPT ![c].pc = "counted"]
      BY <1>0, <2>1, <3>1, <3>2 DEF Removal
    <3> QED
      BY <1>2, <1>6, <3>2 DEF CountChildren
  <2>2. CASE c # d
    BY <1>0, <1>6, <2>2 DEF CountChildren
  <2> QED
    BY <2>1, <2>2
<1> QED
  BY <1>1, <1>2, <1>3, <1>4, <1>5, <1>6
     DEF Next, Requests, CreateEntity, CreateProperty, Update, SoftDelete, Change, Fail, vars

\* The rows that requests hold go on having been told by the log.
LEMMA NextHeldRowsTold ==
    ASSUME TypeOK, RowsTold, HeldRowsTold, [Next]_vars PROVE HeldRowsTold'
<1>1. UNCHANGED log \/ \E a \in AuditRow : log' = Append(log, a)
  BY NextRecords DEF Records
<1>2. \A x, r : WasTold(x, r) => WasTold(x, r)'
  BY <1>1, ToldStays
<1> SUFFICES ASSUME NEW d \in Clients, req'[d].pc \in {"update", "delete", "counted"}
             PROVE  req'[d].before.live /\ WasTold(req[d].target, req[d].before)'
  BY DEF HeldRowsTold
<1>3. req'[d].before.live /\ WasTold(req'[d].target, req'[d].before)
  <2>1. CASE /\ req'[d].target \in Ids
             /\ Live(req'[d].target)
             /\ req'[d].before = row[req'[d].target]
    BY <2>1 DEF RowsTold, Live
  <2>2. CASE /\ req[d].pc \in {"update", "delete", "counted"}
             /\ req'[d].target = req[d].target
             /\ req'[d].before = req[d].before
    BY <2>2 DEF HeldRowsTold
  <2> QED
    BY <2>1, <2>2, HeldRows
<1>4. PICK j \in 1..Len(log) : log[j].target = req'[d].target /\ log[j].after = req'[d].before
  BY <1>3 DEF WasTold
<1> QED
  BY <1>1, <1>3, <1>4, ToldStays DEF WasTold

\* An audit row appended for an update or a delete has a "before" that was
\* told, and the earlier ones keep theirs.
LEMMA NextBeforeWasTrue ==
    ASSUME TypeOK, HeldRowsTold, BeforeWasTrue, [Next]_vars PROVE BeforeWasTrue'
<1>1. log \in Seq(AuditRow) /\ Len(log) \in Nat /\ DOMAIN log = 1..Len(log)
  BY DEF TypeOK
<1>2. CASE UNCHANGED <<row, log>>
  BY <1>2 DEF BeforeWasTrue
<1>3. ASSUME NEW a \in AuditRow, log' = Append(log, a),
             a.action # "create" => a.before.live /\ WasTold(a.target, a.before)
      PROVE  BeforeWasTrue'
  <2>1. /\ DOMAIN log' = 1..(Len(log) + 1)
        /\ log'[Len(log) + 1] = a
        /\ \A i \in 1..Len(log) : log'[i] = log[i]
    BY <1>1, <1>3
  <2> SUFFICES ASSUME NEW i \in 1..(Len(log) + 1), log'[i].action # "create"
               PROVE  /\ log'[i].before.live
                      /\ \E j \in 1..(i - 1) : /\ log'[j].target = log'[i].target
                                               /\ log'[j].after = log'[i].before
    BY <2>1 DEF BeforeWasTrue
  <2>2. CASE i = Len(log) + 1
    <3>1. PICK j \in 1..Len(log) : log[j].target = a.target /\ log[j].after = a.before
      BY <1>3, <2>1, <2>2 DEF WasTold
    <3> QED
      BY <1>1, <1>3, <2>1, <2>2, <3>1
  <2>3. CASE i \in 1..Len(log)
    <3>1. log[i].before.live
      BY <1>1, <2>1, <2>3 DEF BeforeWasTrue
    <3>2. PICK j \in 1..(i - 1) : /\ log[j].target = log[i].target
                                  /\ log[j].after = log[i].before
      BY <1>1, <2>1, <2>3 DEF BeforeWasTrue
    <3> QED
      BY <1>1, <2>1, <2>3, <3>1, <3>2
  <2> QED
    BY <1>1, <2>2, <2>3
<1>4. ASSUME NEW a, Records(a), a.action = "create" PROVE BeforeWasTrue'
  BY <1>3, <1>4 DEF Records
<1>5. ASSUME NEW c \in Clients, NEW action \in {"update", "soft_delete"},
             req[c].pc = (IF action = "update" THEN "update" ELSE "counted"),
             Records(ChangeRow(c, action))
      PROVE  BeforeWasTrue'
  <2>1. req[c].before.live /\ WasTold(req[c].target, req[c].before)
    BY <1>5 DEF HeldRowsTold
  <2> QED
    BY <1>3, <1>5, <2>1 DEF Records, ChangeRow
<1> QED
  BY <1>2, <1>4, <1>5, NextRecords

\* The invariant of the audit log is inductive.
LEMMA NextAuditInv == TypeOK /\ AuditInv /\ [Next]_vars => AuditInv'
<1> SUFFICES ASSUME TypeOK, AuditInv, [Next]_vars PROVE AuditInv'
  OBVIOUS
<1> USE DEF AuditInv
<1>1. UNCHANGED <<row, log>> \/ \E a : Records(a)
  BY NextRecords
<1>2. AuditTellsRows'
  <2>1. CASE UNCHANGED <<row, log>>
    BY <2>1 DEF AuditTellsRows, LastAbout
  <2> QED
    BY <1>1, <2>1, RecordsTell
<1> QED
  BY <1>1, <1>2, NextRowsTold, NextHeldRowsTold, NextBeforeWasTrue

\* The invariant of the audit log holds of empty tables.
LEMMA InitAuditInv == Init => AuditInv
  BY DEF Init, AuditInv, AuditTellsRows, RowsTold, HeldRowsTold, BeforeWasTrue, Idle

\* For any number of racing requests, the last audit row of an id tells its
\* row: the audit log of audit.py loses no change of the tables.
THEOREM RegistryAuditTellsRows == Spec => []AuditTellsRows
<1>1. Init => TypeOK /\ AuditInv
  BY InitTypeOK, InitAuditInv
<1>2. TypeOK /\ AuditInv /\ [Next]_vars => TypeOK' /\ AuditInv'
  BY NextTypeOK, NextAuditInv
<1>3. AuditInv => AuditTellsRows
  BY DEF AuditInv
<1> QED
  BY <1>1, <1>2, <1>3, PTL DEF Spec

\* However stale what a handler read first has become, its audit row's
\* "before" was the row, live, at some earlier time.
THEOREM RegistryBeforeWasTrue == Spec => []BeforeWasTrue
<1>1. Init => TypeOK /\ AuditInv
  BY InitTypeOK, InitAuditInv
<1>2. TypeOK /\ AuditInv /\ [Next]_vars => TypeOK' /\ AuditInv'
  BY NextTypeOK, NextAuditInv
<1>3. AuditInv => BeforeWasTrue
  BY DEF AuditInv
<1> QED
  BY <1>1, <1>2, <1>3, PTL DEF Spec

-----------------------------------------------------------------------------
(***************************************************************************)
(* Deletions.  DeletedIsFinal speaks of the log only; it is inductive with *)
(* what a logged deletion says of the row: it is there and not live, so    *)
(* neither an insert nor an update finds it.                               *)
(***************************************************************************)

DeletedRowsDead ==
    \A i \in DOMAIN log : log[i].action = "soft_delete" =>
        row[log[i].target] # None /\ ~row[log[i].target].live

FinalInv == DeletedRowsDead /\ DeletedIsFinal

\* A change recorded of a new or of a live row is of none that was deleted.
LEMMA RecordsFinal ==
    ASSUME TypeOK, FinalInv, NEW a, Records(a),
           row[a.target] = None \/ Live(a.target),
           a.action = "soft_delete" => ~a.after.live
    PROVE  FinalInv'
<1>1. log \in Seq(AuditRow) /\ Len(log) \in Nat /\ DOMAIN log = 1..Len(log)
  BY DEF TypeOK
<1>2. /\ DOMAIN log' = 1..(Len(log) + 1)
      /\ log'[Len(log) + 1] = a
      /\ \A i \in 1..Len(log) : log'[i] = log[i]
  BY <1>1 DEF Records
<1>3. a \in AuditRow /\ a.target \in Ids /\ a.after # None
  BY NoneIsNoRow DEF Records, AuditRow
<1>4. \A x \in Ids : row'[x] = IF x = a.target THEN a.after ELSE row[x]
  BY DEF TypeOK, Records
<1>5. \A i \in 1..Len(log) : log[i].action = "soft_delete" => log[i].target # a.target
  BY <1>1 DEF FinalInv, DeletedRowsDead, Live
<1>6. \A i \in 1..Len(log) : log[i] \in AuditRow
  BY <1>1
<1>7. \A i \in 1..Len(log) : log[i].target \in Ids
  BY <1>6 DEF AuditRow
<1>8. ASSUME NEW i \in 1..(Len(log) + 1), log'[i].action = "soft_delete"
      PROVE  row'[log'[i].target] # None /\ ~row'[log'[i].target].live
  <2>1. CASE i = Len(log) + 1
    BY <1>2, <1>3, <1>4, <1>8, <2>1
  <2>2. CASE i \in 1..Len(log)
    BY <1>1, <1>2, <1>4, <1>5, <1>7, <1>8, <2>2 DEF FinalInv, DeletedRowsDead
  <2> QED
    BY <1>1, <2>1, <2>2
<1>9. ASSUME NEW i \in 1..(Len(log) + 1), NEW j \in 1..(Len(log) + 1),
             log'[i].action = "soft_delete", log'[i].target = log'[j].target
      PROVE  j <= i
  <2>1. CASE i = Len(log) + 1
    BY <1>1, <2>1
  <2>2. CASE i \in 1..Len(log)
    <3>1. j # Len(log) + 1
      BY <1>2, <1>5, <1>9, <2>2
    <3> QED
      BY <1>1, <1>2, <1>9, <2>2, <3>1 DEF FinalInv, DeletedIsFinal
  <2> QED
    BY <1>1, <2>1, <2>2
<1> QED
  BY <1>2, <1>8, <1>9 DEF FinalInv, DeletedRowsDead, DeletedIsFinal

\* The statement of a delete leaves its row not live.
LEMMA DeleteLeavesDead ==
    ASSUME TypeOK, NEW c \in Clients, req[c].pc = "counted", Live(req[c].target)
    PROVE  ~Written(c).live
<1>1. req[c].target \in Ids
  BY DEF TypeOK, Idle, Creation, Amendment, Removal
<1>2. row[req[c].target] \in Row
  BY <1>1 DEF TypeOK, Live
<1> QED
  BY <1>2 DEF Written, Changed, Row

\* No statement changes, revives or deletes a deleted row.
LEMMA NextFinalInv == TypeOK /\ FinalInv /\ [Next]_vars => FinalInv'
<1> SUFFICES ASSUME TypeOK, FinalInv, [Next]_vars PROVE FinalInv'
  OBVIOUS
<1>1. CASE UNCHANGED <<row, log>>
  BY <1>1 DEF FinalInv, DeletedRowsDead, DeletedIsFinal
<1>2. ASSUME NEW a, Records(a), a.action = "create", row[a.target] = None
      PROVE  FinalInv'
  BY <1>2, RecordsFinal
<1>3. ASSUME NEW c \in Clients, NEW action \in {"update", "soft_delete"},
             req[c].pc = (IF action = "update" THEN "update" ELSE "counted"),
             Records(ChangeRow(c, action)), Live(req[c].target)
      PROVE  FinalInv'
  <2>1. /\ ChangeRow(c, action).target = req[c].target
        /\ ChangeRow(c, action).action = action
        /\ ChangeRow(c, action).after = Written(c)
    BY DEF ChangeRow
  <2>2. action = "soft_delete" => ~Written(c).live
    BY <1>3, DeleteLeavesDead
  <2> QED
    BY <1>3, <2>1, <2>2, RecordsFinal
<1> QED
  BY <1>1, <1>2, <1>3, NextRecords

\* Of all requests that found a row live, the one that deletes it is the last
\* that changes it: the "deleted_at is null" of the UPDATEs and the rollback
\* when they return no row.
THEOREM RegistryDeletedIsFinal == Spec => []DeletedIsFinal
<1>1. Init => TypeOK /\ FinalInv
  BY InitTypeOK DEF Init, FinalInv, DeletedRowsDead, DeletedIsFinal
<1>2. TypeOK /\ FinalInv /\ [Next]_vars => TypeOK' /\ FinalInv'
  BY NextTypeOK, NextFinalInv
<1>3. FinalInv => DeletedIsFinal
  BY DEF FinalInv
<1> QED
  BY <1>1, <1>2, <1>3, PTL DEF Spec

-----------------------------------------------------------------------------
(***************************************************************************)
(* Lost updates.                                                           *)
(***************************************************************************)

\* A column changes when a request that names it finishes.
LEMMA StepLosesNothing ==
    ASSUME TypeOK, [Next]_vars, NEW x \in Ids, NEW f \in Fields,
           row[x] # None, row'[x].cols[f] # row[x].cols[f]
    PROVE  \E c \in Clients : /\ req[c].pc = "update"
                              /\ req[c].target = x
                              /\ f \in DOMAIN req[c].patch
                              /\ req'[c] = Idle
<1>1. ASSUME NEW y \in Ids, NEW e, NEW v, Insert(y, e, v) PROVE row'[x] = row[x]
  BY <1>1 DEF Insert, TypeOK
<1>2. ASSUME NEW c \in Clients, NEW action, req[c].pc \in {"update", "counted"},
             Change(c, action)
      PROVE  /\ req[c].pc = "update"
             /\ req[c].target = x
             /\ f \in DOMAIN req[c].patch
             /\ req'[c] = Idle
  <2>1. req'[c] = Idle
    BY <1>2 DEF Change, TypeOK
  <2>2. Updatable(req[c].target) /\ row' = [row EXCEPT ![req[c].target] = Written(c)]
    BY <1>2 DEF Change
  <2>3. req[c].target = x /\ row'[x] = Written(c)
    BY <2>2 DEF TypeOK
  <2>4. row[x] \in Row
    BY DEF TypeOK
  <2>5. CASE req[c].pc = "counted"
    BY <2>3, <2>4, <2>5 DEF Written, Changed, Row
  <2>6. CASE req[c].pc = "update"
    <3>1. row'[x].cols = [g \in Fields |-> IF g \in DOMAIN req[c].patch
                                             THEN req[c].patch[g] ELSE row[x].cols[g]]
      BY <2>3, <2>4, <2>6 DEF Written, Changed, Row
    <3> QED
      BY <2>1, <2>3, <2>6, <3>1
  <2> QED
    BY <1>2, <2>5, <2>6
<1>3. ASSUME UNCHANGED row PROVE FALSE
  BY <1>3
<1> QED
  BY <1>1, <1>2, <1>3
     DEF Next, Requests, FindParent, CreateEntity, CreateProperty, FindToUpdate,
         FindToDelete, CountChildren, Update, SoftDelete, Fail, vars, Ids

\* Two patches of one row keep each other's columns, however they race.
THEOREM RegistryNoLostUpdate == Spec => NoLostUpdate
<1>1. TypeOK /\ [Next]_vars =>
        [\A x \in Ids, f \in Fields :
          (row[x] # None /\ row'[x].cols[f] # row[x].cols[f]) =>
             \E c \in Clients : /\ req[c].pc = "update"
                                /\ req[c].target = x
                                /\ f \in DOMAIN req[c].patch
                                /\ req'[c] = Idle]_vars
  BY StepLosesNothing
<1> QED
  BY <1>1, RegistryTyping, PTL DEF Spec, NoLostUpdate
=============================================================================
