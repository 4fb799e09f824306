------------------------ MODULE SnapshotStoreProofs -------------------------
(***************************************************************************)
(* Theorems about SnapshotStore, for any sets of properties, writers and   *)
(* deleters and any bound.                                                 *)
(***************************************************************************)
EXTENDS SnapshotStore, SequenceTheorems, TLAPS

\* Flipping rows keeps the table a sequence of rows of the same length and
\* touches nothing but the status of the rows it names.
LEMMA SupersededIsTable ==
    ASSUME snap \in Seq(Row), NEW S
    PROVE  /\ Ledger!Superseded(S) \in Seq(Row)
           /\ Len(Ledger!Superseded(S)) = Len(snap)
           /\ \A i \in 1..Len(snap) : Ledger!Superseded(S)[i] =
                 IF i \in S THEN [snap[i] EXCEPT !.status = "superseded"] ELSE snap[i]
<1> DEFINE T == Ledger!Superseded(S)
<1>1. DOMAIN snap = 1..Len(snap) /\ Len(snap) \in Nat
  OBVIOUS
<1>2. T = [i \in 1..Len(snap) |-> IF i \in S
                                    THEN [snap[i] EXCEPT !.status = "superseded"]
                                    ELSE snap[i]]
  BY <1>1 DEF Ledger!Superseded
<1>3. \A i \in 1..Len(snap) : T[i] \in Row
  <2>1. \A i \in 1..Len(snap) : snap[i] \in Row
    OBVIOUS
  <2> QED
    BY <1>2, <2>1 DEF Row, Ledger!Row, Ledger!Status
<1>4. T \in Seq(Row) /\ Len(T) = Len(snap)
  BY <1>1, <1>2, <1>3, IsASeq DEF T
<1> QED
  BY <1>2, <1>4

\* What a commit leaves in the table: the old rows, the locked ones flipped,
\* followed by the new active row.
LEMMA WriteTable ==
    ASSUME TypeOK, NEW w \in Writers, Write(w)
    PROVE  /\ tx[w] \in Tx
           /\ Len(snap) \in Nat
           /\ DOMAIN snap = 1..Len(snap)
           /\ snap' \in Seq(Row)
           /\ DOMAIN snap' = 1..(Len(snap) + 1)
           /\ Len(snap') = Len(snap) + 1
           /\ \A i \in 1..Len(snap) : snap'[i] =
                 IF i \in tx[w].locked THEN [snap[i] EXCEPT !.status = "superseded"]
                                       ELSE snap[i]
           /\ snap'[Len(snap) + 1] =
                 [property |-> tx[w].property, inputs |-> tx[w].inputs,
                  source |-> tx[w].source, by |-> w, status |-> "active"]
<1> DEFINE T == Ledger!Superseded(tx[w].locked)
           new == [property |-> tx[w].property, inputs |-> tx[w].inputs,
                   source |-> tx[w].source, by |-> w, status |-> "active"]
<1>1. tx[w] \in Tx
  BY DEF TypeOK, Write, Idle
<1>2. snap \in Seq(Row)
  BY DEF TypeOK
<1>3. /\ T \in Seq(Row)
      /\ Len(T) = Len(snap)
      /\ \A i \in 1..Len(snap) : T[i] =
            IF i \in tx[w].locked THEN [snap[i] EXCEPT !.status = "superseded"] ELSE snap[i]
  BY <1>2, SupersededIsTable
<1>4. new \in Row
  BY <1>1 DEF Row, Ledger!Row, Ledger!Status, Tx
<1>5. snap' = Append(T, new)
  BY DEF Write, Flipped, NewRow
<1> HIDE DEF T, new
<1>6. /\ snap' \in Seq(Row)
      /\ Len(snap') = Len(T) + 1
      /\ \A i \in 1..Len(T) : snap'[i] = T[i]
      /\ snap'[Len(T) + 1] = new
  BY <1>3, <1>4, <1>5, AppendProperties
<1>7. DOMAIN snap = 1..Len(snap) /\ Len(snap) \in Nat /\ DOMAIN snap' = 1..Len(snap')
  BY <1>2, <1>6
<1> QED
  BY <1>1, <1>3, <1>6, <1>7 DEF new

-----------------------------------------------------------------------------
\* The tables start empty and no request is under way: well typed.
LEMMA InitTypeOK == Init => TypeOK
<1> SUFFICES ASSUME Init PROVE TypeOK
  OBVIOUS
<1>1. << >> \in Seq(Row)
  OBVIOUS
<1> QED
  BY <1>1 DEF Init, TypeOK

\* Every statement of every handler keeps the tables and requests well typed.
LEMMA NextTypeOK == TypeOK /\ [Next]_vars => TypeOK'
<1> SUFFICES ASSUME TypeOK, [Next]_vars PROVE TypeOK'
  OBVIOUS
<1>1. ASSUME NEW w \in Writers, NEW p \in Properties, NEW v \in Inputs,
             NEW src \in Sources, CheckProperty(w, p, v, src)
      PROVE  TypeOK'
  BY <1>1 DEF CheckProperty, TypeOK, Tx
<1>2. ASSUME NEW w \in Writers, Scan(w)
      PROVE  TypeOK'
  <2>1. tx[w] \in Tx
    BY <1>2 DEF Scan, TypeOK, Idle
  <2>2. ActiveRows(tx[w].property) \subseteq Nat
    BY DEF TypeOK, ActiveRows, Ledger!ActiveRows
  <2>3. [tx[w] EXCEPT !.pc = "scanned", !.todo = ActiveRows(tx[w].property)] \in Tx
    BY <2>1, <2>2 DEF Tx
  <2> QED
    BY <1>2, <2>3 DEF Scan, Superseding, TypeOK
<1>3. ASSUME NEW w \in Writers, LockRow(w)
      PROVE  TypeOK'
  <2>1. tx[w] \in Tx
    BY <1>3 DEF LockRow, StillActive, TypeOK, Idle
  <2>2. PICK r \in tx[w].todo :
          tx' = [tx EXCEPT ![w].todo = @ \ {r},
                           ![w].locked = IF snap[r].status = "active"
                                           THEN @ \cup {r}
                                           ELSE @]
    BY <1>3 DEF LockRow, StillActive
  <2>3. [tx[w] EXCEPT !.todo = @ \ {r},
                      !.locked = IF snap[r].status = "active"
                                   THEN @ \cup {r}
                                   ELSE @] \in Tx
    BY <2>1, <2>2 DEF Tx
  <2> QED
    BY <1>3, <2>2, <2>3 DEF LockRow, StillActive, TypeOK
<1>4. ASSUME NEW w \in Writers, Write(w)
      PROVE  TypeOK'
  <2>1. snap' \in Seq(Row) /\ Len(snap) \in Nat
    BY <1>4, WriteTable, Zenon
  <2>2. audit' \subseteq AuditRow
    BY <1>4, <2>1 DEF Write, TypeOK, AuditRow
  <2> QED
    BY <1>4, <2>1, <2>2 DEF Write, TypeOK
<1>5. ASSUME NEW w \in Writers, Abort(w)
      PROVE  TypeOK'
  BY <1>5 DEF Abort, AfterError, TypeOK
<1>6. ASSUME NEW d \in Deleters, NEW p \in Properties, FindProperty(d, p)
      PROVE  TypeOK'
  BY <1>6 DEF FindProperty, TypeOK, Deletion
<1>7. ASSUME NEW d \in Deleters, CountActive(d)
      PROVE  TypeOK'
  <2>1. del[d] \in Deletion
    BY <1>7 DEF CountActive, TypeOK, Idle
  <2>2. [del[d] EXCEPT !.pc = "counted"] \in Deletion
    BY <2>1 DEF Deletion
  <2> QED
    BY <1>7, <2>2 DEF CountActive, TypeOK
<1>8. ASSUME NEW d \in Deleters, SoftDelete(d)
      PROVE  TypeOK'
  <2>1. del[d] \in Deletion
    BY <1>8 DEF SoftDelete, TypeOK, Idle
  <2> QED
    BY <1>8, <2>1 DEF SoftDelete, DeletionRow, TypeOK, Deletion, AuditRow
<1>9. ASSUME NEW d \in Deleters, AbortDelete(d)
      PROVE  TypeOK'
  BY <1>9 DEF AbortDelete, TypeOK
<1>10. CASE UNCHANGED vars
  BY <1>10 DEF vars, TypeOK
<1> QED
  BY <1>1, <1>2, <1>3, <1>4, <1>5, <1>6, <1>7, <1>8, <1>9, <1>10
     DEF Next, Publishing, Deleting

\* Every reachable state is well typed.
THEOREM StoreTyping == Spec => []TypeOK
BY InitTypeOK, NextTypeOK, PTL DEF Spec

-----------------------------------------------------------------------------
(***************************************************************************)
(* Row locks.                                                              *)
(***************************************************************************)

\* A transaction that has not run its UPDATE holds and awaits no row; one that
\* has awaits rows of its own property only.
Targets ==
    \A w \in Writers :
        /\ tx[w].pc = "checked" => tx[w].locked = {}
        /\ tx[w].pc = "scanned" =>
              \A r \in tx[w].todo :
                  r \in DOMAIN snap /\ snap[r].property = tx[w].property

LockInv == Targets /\ LockExclusive

\* A commit keeps every row, and all of it but the status.
LEMMA WriteKeeps ==
    ASSUME TypeOK, NEW w \in Writers, Write(w)
    PROVE  \A i \in DOMAIN snap :
              /\ i \in DOMAIN snap'
              /\ snap'[i].property = snap[i].property
              /\ snap'[i].inputs = snap[i].inputs
              /\ snap'[i].source = snap[i].source
              /\ snap'[i].by = snap[i].by
<1>1. /\ Len(snap) \in Nat
      /\ DOMAIN snap = 1..Len(snap)
      /\ DOMAIN snap' = 1..(Len(snap) + 1)
      /\ \A i \in 1..Len(snap) : snap'[i] =
            IF i \in tx[w].locked THEN [snap[i] EXCEPT !.status = "superseded"]
                                  ELSE snap[i]
  BY WriteTable, Zenon
<1>2. \A i \in 1..Len(snap) : snap[i] \in Row
  BY DEF TypeOK
<1> SUFFICES ASSUME NEW i \in 1..Len(snap)
             PROVE  /\ i \in DOMAIN snap'
                    /\ snap'[i].property = snap[i].property
                    /\ snap'[i].inputs = snap[i].inputs
                    /\ snap'[i].source = snap[i].source
                    /\ snap'[i].by = snap[i].by
  BY <1>1
<1>3. i \in DOMAIN snap'
  BY <1>1
<1>4. snap[i] \in Row
  BY <1>2
<1>5. \/ snap'[i] = snap[i]
      \/ snap'[i] = [snap[i] EXCEPT !.status = "superseded"]
  BY <1>1
<1> QED
  BY <1>3, <1>4, <1>5 DEF Row, Ledger!Row

\* The active rows of a property after a commit: those the commit did not
\* flip, and the new row when it is of that property.
LEMMA WriteActive ==
    ASSUME TypeOK, NEW w \in Writers, Write(w), NEW p
    PROVE  ActiveRows(p)' = (ActiveRows(p) \ tx[w].locked)
                              \cup (IF p = tx[w].property THEN {Len(snap) + 1} ELSE {})
<1> USE DEF ActiveRows, Ledger!ActiveRows
<1>1. /\ Len(snap) \in Nat
      /\ DOMAIN snap = 1..Len(snap)
      /\ DOMAIN snap' = 1..(Len(snap) + 1)
      /\ \A i \in 1..Len(snap) : snap'[i] =
            IF i \in tx[w].locked THEN [snap[i] EXCEPT !.status = "superseded"]
                                  ELSE snap[i]
      /\ snap'[Len(snap) + 1] =
            [property |-> tx[w].property, inputs |-> tx[w].inputs,
             source |-> tx[w].source, by |-> w, status |-> "active"]
  BY WriteTable, Zenon
<1>2. \A i \in 1..Len(snap) : snap[i] \in Row
  BY DEF TypeOK
<1>3. ASSUME NEW i \in 1..Len(snap)
      PROVE  (i \in ActiveRows(p)') <=> (i \in ActiveRows(p) /\ i \notin tx[w].locked)
  <2>1. /\ snap'[i].property = snap[i].property
        /\ snap'[i].status = IF i \in tx[w].locked THEN "superseded" ELSE snap[i].status
    BY <1>1, <1>2 DEF Row, Ledger!Row
  <2>2. i \in DOMAIN snap /\ i \in DOMAIN snap'
    BY <1>1
  <2> QED
    BY <2>1, <2>2
<1>4. (Len(snap) + 1 \in ActiveRows(p)') <=> p = tx[w].property
  BY <1>1
<1> QED
  BY <1>1, <1>3, <1>4

\* Every statement keeps the row-lock discipline of supersede_active.
LEMMA NextLockInv == TypeOK /\ LockInv /\ [Next]_vars => LockInv'
<1> SUFFICES ASSUME TypeOK, LockInv, [Next]_vars PROVE LockInv'
  OBVIOUS
<1> USE DEF LockInv, Targets, LockExclusive
<1>1. ASSUME NEW w \in Writers, NEW p \in Properties, NEW v \in Inputs,
             NEW src \in Sources, CheckProperty(w, p, v, src)
      PROVE  LockInv'
  BY <1>1 DEF CheckProperty, TypeOK, ActiveRows, Ledger!ActiveRows
<1>2. ASSUME NEW w \in Writers, Scan(w)
      PROVE  LockInv'
  <2>1. tx[w] \in Tx
    BY <1>2 DEF Scan, TypeOK, Idle
  <2>2. /\ tx'[w].pc = "scanned"
        /\ tx'[w].property = tx[w].property
        /\ tx'[w].locked = {}
        /\ \A o \in Writers \ {w} : tx'[o] = tx[o]
    BY <1>2, <2>1 DEF Scan, Superseding, TypeOK, Tx
  <2>3. tx'[w].todo = ActiveRows(tx[w].property)
    BY <1>2, <2>1 DEF Scan, Superseding, TypeOK, Tx
  <2>4. UNCHANGED snap
    BY <1>2 DEF Scan
  <2>5. Targets'
    BY <2>2, <2>3, <2>4 DEF ActiveRows, Ledger!ActiveRows
  <2>6. LockExclusive'
    BY <2>2, <2>4 DEF ActiveRows, Ledger!ActiveRows
  <2> QED
    BY <2>5, <2>6
<1>3. ASSUME NEW w \in Writers, LockRow(w)
      PROVE  LockInv'
  <2>1. tx[w] \in Tx /\ tx[w].pc = "scanned"
    BY <1>3 DEF LockRow, StillActive, TypeOK, Idle
  <2>2. PICK r \in tx[w].todo :
          /\ ~HeldByAnother(w, r)
          /\ tx' = [tx EXCEPT ![w].todo = @ \ {r},
                              ![w].locked = IF snap[r].status = "active"
                                              THEN @ \cup {r}
                                              ELSE @]
    BY <1>3 DEF LockRow, StillActive
  <2>3. /\ tx'[w].pc = "scanned"
        /\ tx'[w].property = tx[w].property
        /\ tx'[w].todo = tx[w].todo \ {r}
        /\ tx'[w].locked = IF snap[r].status = "active" THEN tx[w].locked \cup {r}
                                                        ELSE tx[w].locked
        /\ \A o \in Writers \ {w} : tx'[o] = tx[o]
    BY <2>1, <2>2 DEF TypeOK, Tx
  <2>5. UNCHANGED snap
    BY <1>3 DEF LockRow, StillActive
  <2>6. snap[r].status = "active" => r \in ActiveRows(tx[w].property)
    BY <2>1 DEF ActiveRows, Ledger!ActiveRows
  <2>7. Targets'
    BY <2>1, <2>3, <2>5
  <2>8. LockExclusive'
    <3> SUFFICES ASSUME NEW o \in Writers, tx'[o].pc = "scanned"
                 PROVE  /\ tx'[o].locked \subseteq ActiveRows(tx'[o].property)
                        /\ \A x \in Writers \ {o} :
                              tx'[x].pc = "scanned" => tx'[o].locked \cap tx'[x].locked = {}
      BY <2>5 DEF ActiveRows, Ledger!ActiveRows
    <3>1. tx'[o].locked \subseteq ActiveRows(tx'[o].property)
      BY <2>1, <2>3, <2>6
    <3>2. ASSUME NEW x \in Writers \ {o}, tx'[x].pc = "scanned"
          PROVE  tx'[o].locked \cap tx'[x].locked = {}
      <4> DEFINE Free(y) == r \notin tx[y].locked /\ tx[w].locked \cap tx[y].locked = {}
      <4>1. ASSUME NEW y \in Writers \ {w}, tx'[y].pc = "scanned"
            PROVE  tx'[y].locked = tx[y].locked /\ Free(y)
        <5>1. tx'[y] = tx[y]
          BY <2>3, <4>1
        <5>2. r \notin tx[y].locked
          BY <2>2, <4>1, <5>1 DEF HeldByAnother
        <5>3. tx[w].locked \cap tx[y].locked = {}
          BY <2>1, <4>1, <5>1
        <5> QED
          BY <5>1, <5>2, <5>3
      <4>2. tx'[w].locked \subseteq tx[w].locked \cup {r}
        BY <2>3
      <4>3. CASE o = w
        BY <3>2, <4>3, <4>1, <4>2
      <4>4. CASE x = w
        BY <3>2, <4>4, <4>1, <4>2
      <4>5. CASE o # w /\ x # w
        BY <2>3, <3>2, <4>5
      <4> QED
        BY <4>3, <4>4, <4>5
    <3> QED
      BY <3>1, <3>2
  <2> QED
    BY <2>7, <2>8
<1>4. ASSUME NEW w \in Writers, Write(w)
      PROVE  LockInv'
  <2>1. tx'[w] = Idle /\ (\A o \in Writers \ {w} : tx'[o] = tx[o])
    BY <1>4 DEF Write, TypeOK
  <2>2. tx[w].pc = "scanned"
    BY <1>4 DEF Write
  <2>3. ASSUME NEW o \in Writers \ {w}, tx[o].pc = "scanned"
        PROVE  tx'[o].locked \subseteq ActiveRows(tx[o].property)'
    <3>1. PICK p : p = tx[o].property
      OBVIOUS
    <3>2. tx[o].locked \subseteq ActiveRows(p) \ tx[w].locked
      BY <2>2, <2>3, <3>1
    <3>3. ActiveRows(p) \ tx[w].locked \subseteq ActiveRows(p)'
      BY <1>4, WriteActive
    <3>4. tx'[o].locked \subseteq ActiveRows(p)'
      BY <2>1, <3>2, <3>3
    <3> QED
      BY <2>1, <3>1, <3>4 DEF ActiveRows, Ledger!ActiveRows
  <2>4. \A r \in DOMAIN snap : r \in DOMAIN snap' /\ snap'[r].property = snap[r].property
    BY <1>4, WriteKeeps
  <2> QED
    BY <2>1, <2>3, <2>4 DEF Idle
<1>5. ASSUME NEW w \in Writers, Abort(w)
      PROVE  LockInv'
  BY <1>5 DEF Abort, AfterError, TypeOK, Idle, ActiveRows, Ledger!ActiveRows
<1>6. CASE UNCHANGED <<snap, tx>>
  BY <1>6 DEF ActiveRows, Ledger!ActiveRows
<1>7. ASSUME NEW d \in Deleters, Deleting(d)
      PROVE  UNCHANGED <<snap, tx>>
  BY <1>7 DEF Deleting, FindProperty, CountActive, SoftDelete, AbortDelete
<1> QED
  BY <1>1, <1>2, <1>3, <1>4, <1>5, <1>6, <1>7 DEF Next, Publishing, vars

\* The row-lock discipline holds in every reachable state.
LEMMA StoreLockInv == Spec => []LockInv
<1>1. Init => LockInv
  BY DEF Init, LockInv, Targets, LockExclusive, Idle
<1> QED
  BY <1>1, NextLockInv, StoreTyping, PTL DEF Spec

\* The row locks of overlapping transactions are exclusive and hold only rows
\* that are still active, in whatever order the UPDATEs take them.
THEOREM StoreLocks == Spec => []LockExclusive
<1>1. LockInv => LockExclusive
  BY DEF LockInv
<1> QED
  BY <1>1, StoreLockInv, PTL

-----------------------------------------------------------------------------
(***************************************************************************)
(* Which valuation is current.                                             *)
(***************************************************************************)

\* The newest row of a property is flipped only by the commit of a newer one.
LEMMA NextNewestIsActive == TypeOK /\ LockInv /\ NewestIsActive /\ [Next]_vars
                              => NewestIsActive'
<1> SUFFICES ASSUME TypeOK, LockInv, NewestIsActive, [Next]_vars
             PROVE  NewestIsActive'
  OBVIOUS
<1>1. CASE UNCHANGED snap
  BY <1>1 DEF NewestIsActive
<1>2. ASSUME NEW w \in Writers, Write(w)
      PROVE  NewestIsActive'
  <2>1. /\ Len(snap) \in Nat
        /\ DOMAIN snap = 1..Len(snap)
        /\ DOMAIN snap' = 1..(Len(snap) + 1)
        /\ \A i \in 1..Len(snap) : snap'[i] =
              IF i \in tx[w].locked THEN [snap[i] EXCEPT !.status = "superseded"]
                                    ELSE snap[i]
        /\ snap'[Len(snap) + 1] =
              [property |-> tx[w].property, inputs |-> tx[w].inputs,
               source |-> tx[w].source, by |-> w, status |-> "active"]
    BY <1>2, WriteTable, Zenon
  <2>2. \A i \in DOMAIN snap : i \in DOMAIN snap' /\ snap'[i].property = snap[i].property
    BY <1>2, WriteKeeps
  <2>3. SUFFICES ASSUME NEW i \in DOMAIN snap',
                        \A j \in DOMAIN snap' : snap'[j].property = snap'[i].property => j <= i
                 PROVE  snap'[i].status = "active"
    BY DEF NewestIsActive
  <2>4. CASE i = Len(snap) + 1
    BY <2>1, <2>4
  <2>5. CASE i # Len(snap) + 1
    <3>1. i \in DOMAIN snap
      BY <2>1, <2>5
    <3>2. snap[i].property # tx[w].property
      <4>1. snap'[Len(snap) + 1].property = tx[w].property /\ Len(snap) + 1 \in DOMAIN snap'
        BY <2>1
      <4>2. ~(Len(snap) + 1 <= i)
        BY <2>1, <3>1
      <4> QED
        BY <2>2, <2>3, <3>1, <4>1, <4>2
    <3>3. i \notin tx[w].locked
      BY <1>2, <3>2 DEF LockInv, LockExclusive, Write, ActiveRows, Ledger!ActiveRows
    <3>4. snap'[i] = snap[i]
      BY <2>1, <3>1, <3>3
    <3>5. \A j \in DOMAIN snap : snap[j].property = snap[i].property => j <= i
      BY <2>2, <2>3, <3>1
    <3> QED
      BY <3>1, <3>4, <3>5 DEF NewestIsActive
  <2> QED
    BY <2>4, <2>5
<1> QED
  BY <1>1, <1>2 DEF Next, Publishing, Deleting, vars, CheckProperty, Scan, LockRow,
                    Abort, FindProperty, CountActive, SoftDelete, AbortDelete

\* A valued property always has a current valuation, and the newest one is
\* current, whatever requests overlapped, were refused or rolled back.
THEOREM StoreNewestIsActive == Spec => []NewestIsActive
<1>1. Init => NewestIsActive
  BY DEF Init, NewestIsActive
<1> QED
  BY <1>1, NextNewestIsActive, StoreLockInv, StoreTyping, PTL DEF Spec

\* A writer's own active rows are among its targets (OwnRowsTargeted), so its
\* commit flips them all and its new row is its only active one.
OwnInv == OwnRowsTargeted /\ OneActivePerWriter

\* Every statement keeps a writer's own active rows among its targets, and at
\* most one of them in the table.
LEMMA NextOwnInv == TypeOK /\ LockInv /\ OwnInv /\ [Next]_vars => OwnInv'
<1> SUFFICES ASSUME TypeOK, LockInv, OwnInv, [Next]_vars PROVE OwnInv'
  OBVIOUS
<1> USE DEF OwnInv
<1>1. CASE UNCHANGED <<snap, tx>>
  BY <1>1 DEF OwnRowsTargeted, OneActivePerWriter, ActiveRows, Ledger!ActiveRows
<1>2. ASSUME UNCHANGED snap
      PROVE  OneActivePerWriter'
  BY <1>2 DEF OneActivePerWriter, ActiveRows, Ledger!ActiveRows
<1>3. ASSUME NEW w \in Writers, UNCHANGED snap, tx'[w].pc # "scanned",
             \A o \in Writers \ {w} : tx'[o] = tx[o]
      PROVE  OwnRowsTargeted'
  BY <1>3 DEF OwnRowsTargeted, ActiveRows, Ledger!ActiveRows
<1>4. ASSUME NEW w \in Writers, NEW p \in Properties, NEW v \in Inputs,
             NEW src \in Sources, CheckProperty(w, p, v, src)
      PROVE  OwnInv'
  <2>1. UNCHANGED snap /\ tx'[w].pc # "scanned" /\ \A o \in Writers \ {w} : tx'[o] = tx[o]
    BY <1>4 DEF CheckProperty, TypeOK
  <2> QED
    BY <2>1, <1>2, <1>3
<1>5. ASSUME NEW w \in Writers, Abort(w)
      PROVE  OwnInv'
  <2>1. UNCHANGED snap /\ tx'[w].pc # "scanned" /\ \A o \in Writers \ {w} : tx'[o] = tx[o]
    BY <1>5 DEF Abort, AfterError, TypeOK, Idle
  <2> QED
    BY <2>1, <1>2, <1>3
<1>6. ASSUME NEW w \in Writers, Scan(w)
      PROVE  OwnInv'
  <2>1. tx[w] \in Tx
    BY <1>6 DEF Scan, TypeOK, Idle
  <2>2. /\ UNCHANGED snap
        /\ tx'[w].property = tx[w].property
        /\ tx'[w].todo = ActiveRows(tx[w].property)
        /\ \A o \in Writers \ {w} : tx'[o] = tx[o]
    BY <1>6, <2>1 DEF Scan, Superseding, TypeOK, Tx
  <2>3. OwnRowsTargeted'
    BY <2>2 DEF OwnRowsTargeted, ActiveRows, Ledger!ActiveRows
  <2> QED
    BY <2>2, <2>3, <1>2
<1>7. ASSUME NEW w \in Writers, LockRow(w)
      PROVE  OwnInv'
  <2>1. tx[w] \in Tx /\ tx[w].pc = "scanned"
    BY <1>7 DEF LockRow, StillActive, TypeOK, Idle
  <2>2. PICK r \in tx[w].todo :
          tx' = [tx EXCEPT ![w].todo = @ \ {r},
                           ![w].locked = IF snap[r].status = "active"
                                           THEN @ \cup {r}
                                           ELSE @]
    BY <1>7 DEF LockRow, StillActive
  <2>3. /\ UNCHANGED snap
        /\ tx'[w].property = tx[w].property
        /\ tx'[w].todo = tx[w].todo \ {r}
        /\ tx'[w].locked = IF snap[r].status = "active" THEN tx[w].locked \cup {r}
                                                        ELSE tx[w].locked
        /\ \A o \in Writers \ {w} : tx'[o] = tx[o]
    BY <1>7, <2>1, <2>2 DEF LockRow, StillActive, TypeOK, Tx
  <2>4. OwnRowsTargeted'
    BY <2>1, <2>3 DEF OwnRowsTargeted, ActiveRows, Ledger!ActiveRows
  <2> QED
    BY <2>3, <2>4, <1>2
<1>8. ASSUME NEW w \in Writers, Write(w)
      PROVE  OwnInv'
  <2>1. tx[w].pc = "scanned" /\ tx[w].todo = {} /\ tx'[w] = Idle
    BY <1>8 DEF Write, TypeOK
  <2>2. \A o \in Writers \ {w} : tx'[o] = tx[o]
    BY <1>8 DEF Write, TypeOK
  <2>3. \A i \in DOMAIN snap : i \in DOMAIN snap' /\ snap'[i].by = snap[i].by
    BY <1>8, WriteKeeps
  <2>4. Len(snap) + 1 \in DOMAIN snap' /\ snap'[Len(snap) + 1].by = w
    <3>1. /\ Len(snap) \in Nat
          /\ DOMAIN snap' = 1..(Len(snap) + 1)
          /\ snap'[Len(snap) + 1] =
                [property |-> tx[w].property, inputs |-> tx[w].inputs,
                 source |-> tx[w].source, by |-> w, status |-> "active"]
      BY <1>8, WriteTable, Zenon
    <3> QED
      BY <3>1
  <2>5. \A p : ActiveRows(p) \subseteq DOMAIN snap
    BY DEF ActiveRows, Ledger!ActiveRows
  <2>6. ASSUME NEW p, NEW i \in ActiveRows(p)'
        PROVE  \/ i \in ActiveRows(p) \ tx[w].locked /\ snap'[i].by = snap[i].by
               \/ i = Len(snap) + 1 /\ p = tx[w].property
    <3>1. ActiveRows(p)' = (ActiveRows(p) \ tx[w].locked)
                              \cup (IF p = tx[w].property THEN {Len(snap) + 1} ELSE {})
      BY <1>8, WriteActive
    <3> QED
      BY <2>3, <2>5, <2>6, <3>1
  <2>7. ASSUME NEW o \in Writers, tx'[o].pc = "scanned", NEW p, p = tx'[o].property,
               NEW i \in ActiveRows(p)', snap'[i].by = o
        PROVE  i \in tx'[o].todo \cup tx'[o].locked
    <3>1. o # w /\ tx'[o] = tx[o]
      BY <2>1, <2>2, <2>7 DEF Idle
    <3>2. i \in ActiveRows(p) /\ snap[i].by = o
      BY <2>4, <2>6, <2>7, <3>1
    <3> QED
      BY <2>7, <3>1, <3>2 DEF OwnRowsTargeted
  <2>8. OwnRowsTargeted'
    BY <2>7 DEF OwnRowsTargeted, ActiveRows, Ledger!ActiveRows
  <2>9. ASSUME NEW p \in Properties, NEW i \in ActiveRows(p)', snap'[i].by = w
        PROVE  i = Len(snap) + 1 \/ p # tx[w].property
    BY <2>1, <2>6, <2>9 DEF OwnRowsTargeted
  <2>10. ASSUME NEW p \in Properties, NEW i \in ActiveRows(p)', NEW j \in ActiveRows(p)',
                snap'[i].by = snap'[j].by
         PROVE  i = j
    BY <2>4, <2>6, <2>9, <2>10 DEF OneActivePerWriter
  <2>11. OneActivePerWriter'
    BY <2>10 DEF OneActivePerWriter
  <2> QED
    BY <2>8, <2>11
<1> QED
  BY <1>1, <1>4, <1>5, <1>6, <1>7, <1>8
     DEF Next, Publishing, Deleting, vars, FindProperty, CountActive, SoftDelete, AbortDelete

\* Two active valuations of a property come from two different streams of
\* requests; a stream that handles its requests one by one leaves one.
THEOREM StoreOneActivePerWriter == Spec => [](OwnRowsTargeted /\ OneActivePerWriter)
<1>1. Init => OwnInv
  BY DEF Init, OwnInv, OwnRowsTargeted, OneActivePerWriter, ActiveRows,
         Ledger!ActiveRows, Idle
<1>2. OwnInv => OwnRowsTargeted /\ OneActivePerWriter
  BY DEF OwnInv
<1> QED
  BY <1>1, <1>2, NextOwnInv, StoreLockInv, StoreTyping, PTL DEF Spec

\* The documented rule, "only the latest is active", holds when publishing
\* requests never overlap, that is when they form a single stream.
THEOREM StoreSerialOnlyLatestActive ==
    ASSUME \A v, w \in Writers : v = w
    PROVE  Spec => []OnlyLatestActive
<1>1. TypeOK /\ OneActivePerWriter => OnlyLatestActive
  <2> SUFFICES ASSUME TypeOK, OneActivePerWriter, NEW p \in Properties,
                      NEW i \in ActiveRows(p), NEW j \in ActiveRows(p)
               PROVE  i = j
    BY DEF OnlyLatestActive
  <2>1. i \in DOMAIN snap /\ j \in DOMAIN snap
    BY DEF ActiveRows, Ledger!ActiveRows
  <2>2. snap[i] \in Row /\ snap[j] \in Row
    BY <2>1 DEF TypeOK
  <2>3. snap[i].by \in Writers /\ snap[j].by \in Writers
    BY <2>2 DEF Row, Ledger!Row
  <2> QED
    BY <2>3 DEF OneActivePerWriter
<1> QED
  BY <1>1, StoreOneActivePerWriter, StoreTyping, PTL

-----------------------------------------------------------------------------
(***************************************************************************)
(* The ledger.                                                             *)
(***************************************************************************)

\* A commit publishes the writer's row in the ledger; no other step touches it.
LEMMA NextPublishes == TypeOK /\ LockInv /\ OwnInv /\ [Next]_vars
                          => [Ledger!Next]_snap
<1> SUFFICES ASSUME TypeOK, LockInv, OwnInv, [Next]_vars
             PROVE  [Ledger!Next]_snap
  OBVIOUS
<1>1. ASSUME NEW w \in Writers, Write(w)
      PROVE  Ledger!Next
  <2> DEFINE row == [property |-> tx[w].property, inputs |-> tx[w].inputs,
                     source |-> tx[w].source, by |-> w, status |-> "active"]
             S == tx[w].locked
  <2>1. tx[w] \in Tx /\ tx[w].pc = "scanned" /\ tx[w].todo = {}
    BY <1>1 DEF Write, TypeOK, Idle
  <2>2. row \in Ledger!Row
    BY <2>1 DEF Tx, Ledger!Row, Ledger!Status
  <2>3. S \in SUBSET Ledger!ActiveRows(row.property)
    BY <2>1 DEF LockInv, LockExclusive, ActiveRows
  <2>4. {i \in Ledger!ActiveRows(row.property) : snap[i].by = row.by} \subseteq S
    BY <2>1 DEF OwnInv, OwnRowsTargeted, ActiveRows
  <2>5. snap' = Append(Ledger!Superseded(S), row)
    BY <1>1 DEF Write, Flipped, NewRow
  <2>6. row.status = "active"
    OBVIOUS
  <2> HIDE DEF row, S
  <2>7. Ledger!Publish(row)
    BY <2>3, <2>4, <2>5, <2>6 DEF Ledger!Publish
  <2> QED
    BY <2>2, <2>7 DEF Ledger!Next
<1> QED
  BY <1>1 DEF Next, Publishing, Deleting, vars, CheckProperty, Scan, LockRow,
              Abort, FindProperty, CountActive, SoftDelete, AbortDelete

\* The store implements the append-only ledger, so whatever holds of every
\* ledger (published figures are final, rows never disappear) holds of it.
THEOREM StoreImplementsLedger == Spec => LedgerSpec
<1>1. Init => Ledger!Init
  BY DEF Init, Ledger!Init
<1>2. Init => OwnInv
  BY DEF Init, OwnInv, OwnRowsTargeted, OneActivePerWriter, ActiveRows,
         Ledger!ActiveRows, Idle
<1> QED
  BY <1>1, <1>2, NextPublishes, NextOwnInv, StoreLockInv, StoreTyping, PTL
     DEF Spec, LedgerSpec, Ledger!Spec

-----------------------------------------------------------------------------
(***************************************************************************)
(* Deleting a property.                                                    *)
(***************************************************************************)

\* Every audited deletion is visible in the property's row.
DeletionInv ==
    /\ \A a \in audit : a.action = "soft_delete" => a.target \in deleted
    /\ DeletedOnce

\* Every statement keeps one deletion row for each deleted property.
LEMMA NextDeletionInv == TypeOK /\ DeletionInv /\ [Next]_vars => DeletionInv'
<1> SUFFICES ASSUME TypeOK, DeletionInv, [Next]_vars PROVE DeletionInv'
  OBVIOUS
<1> USE DEF DeletionInv, DeletedOnce
<1>1. CASE UNCHANGED <<deleted, audit>>
  BY <1>1
<1>2. ASSUME NEW w \in Writers, Write(w)
      PROVE  DeletionInv'
  <2>1. deleted' = deleted
    BY <1>2 DEF Write
  <2>2. \A a \in audit' : a.action = "soft_delete" => a \in audit
    BY <1>2 DEF Write
  <2> QED
    BY <2>1, <2>2
<1>3. ASSUME NEW d \in Deleters, SoftDelete(d)
      PROVE  DeletionInv'
  <2> DEFINE p == del[d].property
             new == [action |-> "soft_delete", target |-> p, actor |-> d]
  <2>1. CASE p \in deleted
    BY <1>3, <2>1 DEF SoftDelete, StillLive
  <2>2. CASE p \notin deleted
    <3>1. deleted' = deleted \cup {p} /\ audit' = audit \cup {new}
      BY <1>3, <2>2 DEF SoftDelete, StillLive, DeletionRow
    <3>2. new.target = p
      OBVIOUS
    <3> HIDE DEF p, new
    <3> QED
      BY <2>2, <3>1, <3>2
  <2> QED
    BY <2>1, <2>2
<1> QED
  BY <1>1, <1>2, <1>3
     DEF Next, Publishing, Deleting, vars, CheckProperty, Scan, LockRow,
         Abort, FindProperty, CountActive, AbortDelete

\* However many requests race to delete a property, one of them does and is
\* the one recorded in the audit log.
THEOREM StoreDeletedOnce == Spec => []DeletedOnce
<1>1. Init => DeletionInv
  BY DEF Init, DeletionInv, DeletedOnce
<1>2. DeletionInv => DeletedOnce
  BY DEF DeletionInv
<1> QED
  BY <1>1, <1>2, NextDeletionInv, StoreTyping, PTL DEF Spec
=============================================================================
