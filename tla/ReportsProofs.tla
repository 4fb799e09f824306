--------------------------- MODULE ReportsProofs ---------------------------
(***************************************************************************)
(* Proofs about Reports, for any properties, documents, writers and        *)
(* readers.  What is proved of the tables needs no more of their writers   *)
(* than SnapshotLedger says.                                               *)
(***************************************************************************)
EXTENDS Reports, RecursionProofs

(***************************************************************************)
(* Last elements of finite sets.                                           *)
(***************************************************************************)

\* A transitive relation without loops has an element of a finite set that is
\* before no other: the one with the fewest elements after it.
LEMMA LastExists ==
    ASSUME NEW S, IsFiniteSet(S), S # {}, NEW R,
           \A x, y, z \in S : <<x, y>> \in R /\ <<y, z>> \in R => <<x, z>> \in R,
           \A x \in S : <<x, x>> \notin R
    PROVE  \E m \in S : \A y \in S : <<m, y>> \notin R
<1> DEFINE After(x) == {y \in S : <<x, y>> \in R}
<1> DEFINE T == {After(x) : x \in S}
<1>1. FiniteSubsetsOf(S) = SUBSET S
  BY FS_FiniteSubsetsOfFinite
<1>2. T \subseteq FiniteSubsetsOf(S) /\ T # {}
  <2>1. \A x \in S : After(x) \in SUBSET S
    OBVIOUS
  <2>2. PICK x \in S : TRUE
    OBVIOUS
  <2>3. After(x) \in T
    BY <2>2
  <2>4. ASSUME NEW A \in T PROVE A \in SUBSET S
    <3>1. PICK y \in S : A = After(y)
      OBVIOUS
    <3> HIDE DEF After
    <3> QED
      BY <2>1, <3>1
  <2> QED
    BY <1>1, <2>3, <2>4
<1>3. IsWellFoundedOn(StrictSubsetOrdering(S), FiniteSubsetsOf(S))
  BY FS_StrictSubsetOrderingWellFounded
<1>4. \E A \in T : \A B \in T : <<B, A>> \notin StrictSubsetOrdering(S)
  <2> HIDE DEF T
  <2> QED
    BY <1>2, <1>3, WFMin
<1>5. PICK m \in S : \A B \in T : <<B, After(m)>> \notin StrictSubsetOrdering(S)
  BY <1>4
<1>6. ASSUME NEW y \in S, <<m, y>> \in R PROVE FALSE
  <2>1. After(y) \subseteq After(m) /\ y \in After(m) /\ y \notin After(y)
    BY <1>6
  <2>2. <<After(y), After(m)>> \in StrictSubsetOrdering(S)
    <3>1. After(y) \in SUBSET S /\ After(m) \in SUBSET S /\ After(y) # After(m)
      BY <2>1
    <3> QED
      BY <2>1, <3>1 DEF StrictSubsetOrdering
  <2> QED
    BY <1>5, <2>2
<1> QED
  BY <1>6

\* A non-empty set of row numbers has a largest one.
LEMMA MaxOfRows ==
    ASSUME NEW n \in Nat, NEW S \in SUBSET (1..n), S # {}
    PROVE  Max(S) \in S /\ \A i \in S : i <= Max(S)
<1> DEFINE R == {e \in S \X S : e[1] < e[2]}
<1>1. IsFiniteSet(S)
  <2>1. IsFiniteSet(1..n)
    BY FS_Interval
  <2> QED
    BY <2>1, FS_Subset
<1>2. \A x, y \in S : <<x, y>> \in R <=> x < y
  OBVIOUS
<1>3. \E m \in S : \A y \in S : <<m, y>> \notin R
  <2>1. \A x, y, z \in S : <<x, y>> \in R /\ <<y, z>> \in R => <<x, z>> \in R
    BY <1>2
  <2>2. \A x \in S : <<x, x>> \notin R
    BY <1>2
  <2> HIDE DEF R
  <2> QED
    BY <1>1, <2>1, <2>2, LastExists
<1>4. \E m \in S : \A y \in S : m >= y
  <2>1. PICK m \in S : \A y \in S : ~(m < y)
    BY <1>2, <1>3
  <2>2. \A y \in S : m \in Nat /\ y \in Nat
    OBVIOUS
  <2> QED
    BY <2>1, <2>2
<1> QED
  BY <1>4 DEF Max

-----------------------------------------------------------------------------
(***************************************************************************)
(* The rows.                                                               *)
(***************************************************************************)
RowsTyped == snap \in Seq(Ledger!Row) /\ Len(snap) <= MaxSnapshots

\* What a published row does to the others: some of its property are
\* superseded, its stream's own among them.
RowWritten(p, d, at, w) ==
    /\ Len(snap') = Len(snap) + 1
    /\ Len(snap') <= MaxSnapshots
    /\ snap' \in Seq(Ledger!Row)
    /\ snap'[Len(snap) + 1] = [property |-> p, inputs |-> [doc |-> d, at |-> at],
                               source |-> None, by |-> w, status |-> "active"]
    /\ \A i \in 1..Len(snap) :
          /\ \/ snap'[i] = snap[i] /\ (snap[i].by # w \/ snap[i].property # p
                                         \/ snap[i].status # "active")
             \/ /\ snap'[i] = [snap[i] EXCEPT !.status = "superseded"]
                /\ snap[i].property = p
          /\ snap[i].inputs.at # at
          /\ snap[i].by = w => snap[i].inputs.at < at

LEMMA RowPublished ==
    ASSUME RowsTyped, NEW p \in Properties, NEW d \in Documents, NEW at \in Clock,
           NEW w \in Writers, PublishRow(p, d, at, w)
    PROVE  RowWritten(p, d, at, w)
<1> DEFINE row == [property |-> p, inputs |-> [doc |-> d, at |-> at],
                   source |-> None, by |-> w, status |-> "active"]
<1>1. PICK S \in SUBSET Ledger!ActiveRows(p) :
          /\ {i \in Ledger!ActiveRows(p) : snap[i].by = w} \subseteq S
          /\ snap' = Append(Ledger!Superseded(S), row)
  BY DEF PublishRow, Ledger!Publish
<1>2. Len(snap) \in Nat /\ DOMAIN snap = 1..Len(snap)
  BY DEF RowsTyped
<1> DEFINE old == Ledger!Superseded(S)
<1>3. \A i \in 1..Len(snap) : snap[i] \in Ledger!Row
  BY <1>2 DEF RowsTyped
<1>4. old \in Seq(Ledger!Row) /\ Len(old) = Len(snap)
  <2>1. \A i \in 1..Len(snap) : [snap[i] EXCEPT !.status = "superseded"] \in Ledger!Row
    BY <1>3 DEF Ledger!Row, Ledger!Status
  <2>2. old \in [1..Len(snap) -> Ledger!Row]
    BY <1>2, <1>3, <2>1 DEF Ledger!Superseded
  <2> HIDE DEF old
  <2> QED
    BY <1>2, <2>2
<1>5. \A i \in 1..Len(snap) :
          old[i] = IF i \in S THEN [snap[i] EXCEPT !.status = "superseded"] ELSE snap[i]
  BY <1>2 DEF Ledger!Superseded
<1>6. row \in Ledger!Row
  BY DEF Ledger!Row, Ledger!Status, Stamped
<1>7. /\ Len(snap') = Len(snap) + 1
      /\ snap'[Len(snap')] = row
      /\ \A i \in 1..Len(snap) : snap'[i] = old[i]
      /\ snap' \in Seq(Ledger!Row)
  <2> HIDE DEF old, row
  <2>1. snap' = Append(old, row)
    BY <1>1 DEF old, row
  <2>2. snap' \in Seq(Ledger!Row) /\ Len(snap') = Len(old) + 1
    BY <1>4, <1>6, <2>1
  <2>3. snap'[Len(old) + 1] = row /\ \A i \in 1..Len(old) : snap'[i] = old[i]
    BY <1>4, <2>1
  <2> QED
    BY <1>4, <2>2, <2>3
<1>8. Len(snap) < MaxSnapshots
      /\ \A i \in 1..Len(snap) : /\ snap[i].inputs.at # at
                                 /\ snap[i].by = w => snap[i].inputs.at < at
  BY <1>2 DEF PublishRow
<1>9. Len(snap') <= MaxSnapshots
  BY <1>2, <1>7, <1>8, ReportsAssumption
<1>10. ASSUME NEW i \in 1..Len(snap)
       PROVE  \/ snap'[i] = snap[i] /\ (snap[i].by # w \/ snap[i].property # p
                                          \/ snap[i].status # "active")
              \/ /\ snap'[i] = [snap[i] EXCEPT !.status = "superseded"]
                 /\ snap[i].property = p
  <2>1. CASE i \in S
    BY <1>5, <1>7, <2>1 DEF Ledger!ActiveRows
  <2>2. CASE i \notin S
    BY <1>1, <1>2, <1>5, <1>7, <2>2 DEF Ledger!ActiveRows
  <2> QED
    BY <2>1, <2>2
<1> QED
  BY <1>2, <1>7, <1>8, <1>9, <1>10 DEF RowWritten

\* A row's creation is its own moment; one stream's rows are created in order
\* and only the last of a property is active; a superseded row has a successor.
StampsApart ==
    \A i, j \in 1..Len(snap) : i # j => snap[i].inputs.at # snap[j].inputs.at

StreamsOrdered ==
    \A i, j \in 1..Len(snap) : i < j /\ snap[i].by = snap[j].by =>
        /\ snap[i].inputs.at < snap[j].inputs.at
        /\ snap[i].property = snap[j].property => snap[i].status = "superseded"

SupersededByLater ==
    \A i \in 1..Len(snap) : snap[i].status # "active" =>
        \E j \in 1..Len(snap) : i < j /\ snap[j].property = snap[i].property

RowsInv == RowsTyped /\ StampsApart /\ StreamsOrdered /\ SupersededByLater

LEMMA RowFields ==
    ASSUME RowsTyped, NEW i \in 1..Len(snap)
    PROVE  /\ i \in DOMAIN snap /\ Len(snap) \in Nat /\ i \in Clock
           /\ snap[i].property \in Properties
           /\ snap[i].by \in Writers
           /\ snap[i].inputs.doc \in Documents
           /\ snap[i].inputs.at \in Clock
           /\ snap[i].inputs.at \in Nat
           /\ snap[i].status \in {"active", "superseded"}
           /\ DateOfRow(i) \in Nat
           /\ \A v : LET r == [snap[i] EXCEPT !.status = v]
                    IN  /\ r.property = snap[i].property
                        /\ r.inputs = snap[i].inputs
                        /\ r.by = snap[i].by
                        /\ r.status = v
<1>1. Len(snap) \in Nat /\ i \in DOMAIN snap /\ snap[i] \in Ledger!Row
  BY DEF RowsTyped
<1>2. i \in Clock
  BY <1>1, ReportsAssumption DEF RowsTyped, Clock
<1> QED
  BY <1>1, <1>2, ReportsAssumption
     DEF Ledger!Row, Ledger!Status, Stamped, Clock, DateOfRow

LEMMA SnapSteps ==
    ASSUME [Next]_vars
    PROVE  \/ UNCHANGED snap
           \/ \E p \in Properties, d \in Documents, at \in Clock, w \in Writers :
                 PublishRow(p, d, at, w)
BY DEF Next, Changing, ChangeType, DeleteProperty, DeleteEntity, Reading, ReadTotals, ReadByType,
       ReadByEntity, ReadTop, ReadFails, tables, vars

LEMMA InitRows == Init => RowsInv
<1> SUFFICES ASSUME Init PROVE RowsInv
  OBVIOUS
<1>1. snap = << >> /\ Len(snap) = 0
  BY DEF Init, Ledger!Init
<1> QED
  BY <1>1, ReportsAssumption
     DEF RowsInv, RowsTyped, StampsApart, StreamsOrdered, SupersededByLater

LEMMA NextRows == RowsInv /\ [Next]_vars => RowsInv'
<1> SUFFICES ASSUME RowsInv, [Next]_vars PROVE RowsInv'
  OBVIOUS
<1>1. CASE UNCHANGED snap
  BY <1>1 DEF RowsInv, RowsTyped, StampsApart, StreamsOrdered, SupersededByLater, Ledger!Row,
              Ledger!Status, Stamped, Clock
<1>2. ASSUME NEW p \in Properties, NEW d \in Documents, NEW at \in Clock, NEW w \in Writers,
             PublishRow(p, d, at, w)
      PROVE  RowsInv'
  <2> DEFINE n == Len(snap)
  <2>0. n \in Nat
    BY DEF RowsInv, RowsTyped
  <2>1. RowsTyped
    BY DEF RowsInv
  <2>w. RowWritten(p, d, at, w)
    BY <1>2, <2>1, RowPublished
  <2>2. /\ Len(snap') = n + 1
        /\ Len(snap') <= MaxSnapshots
        /\ snap' \in Seq(Ledger!Row)
        /\ snap'[n + 1].property = p
        /\ snap'[n + 1].inputs.at = at
        /\ snap'[n + 1].by = w
        /\ snap'[n + 1].status = "active"
    BY <2>w DEF RowWritten
  <2>3. \A i \in 1..n :
            /\ snap'[i].property = snap[i].property
            /\ snap'[i].inputs.at = snap[i].inputs.at
            /\ snap'[i].by = snap[i].by
            /\ snap[i].status = "superseded" => snap'[i].status = "superseded"
            /\ snap[i].property = p /\ snap[i].by = w => snap'[i].status = "superseded"
            /\ snap'[i].status # "active" => snap[i].status # "active" \/ snap[i].property = p
            /\ snap[i].inputs.at # at
            /\ snap[i].by = w => snap[i].inputs.at < at
    <3>1. \A i \in 1..n :
              \/ snap'[i] = snap[i] /\ (snap[i].by # w \/ snap[i].property # p
                                          \/ snap[i].status # "active")
              \/ /\ snap'[i] = [snap[i] EXCEPT !.status = "superseded"]
                 /\ snap[i].property = p
      BY <2>w DEF RowWritten
    <3>2. \A i \in 1..n :
              /\ snap[i].inputs.at # at
              /\ snap[i].by = w => snap[i].inputs.at < at
      BY <2>w DEF RowWritten
    <3> SUFFICES ASSUME NEW i \in 1..n
                 PROVE  /\ snap'[i].property = snap[i].property
                        /\ snap'[i].inputs.at = snap[i].inputs.at
                        /\ snap'[i].by = snap[i].by
                        /\ snap[i].status = "superseded" => snap'[i].status = "superseded"
                        /\ snap[i].property = p /\ snap[i].by = w =>
                               snap'[i].status = "superseded"
                        /\ snap'[i].status # "active" =>
                               snap[i].status # "active" \/ snap[i].property = p
      BY <3>2
    <3>3. CASE snap'[i] = snap[i] /\ (snap[i].by # w \/ snap[i].property # p
                                          \/ snap[i].status # "active")
      BY <2>1, <3>3, RowFields
    <3>4. CASE snap'[i] = [snap[i] EXCEPT !.status = "superseded"] /\ snap[i].property = p
      BY <2>1, <3>4, RowFields
    <3> QED
      BY <3>1, <3>3, <3>4
  <2>4. 1..Len(snap') = (1..n) \cup {n + 1}
    BY <2>0, <2>2
  <2>5. \A i \in 1..n : snap[i].inputs.at \in Nat /\ i < n + 1
    BY <2>0, <2>1, RowFields
  <2>6. RowsTyped'
    BY <2>2 DEF RowsTyped, Ledger!Row, Ledger!Status, Stamped, Clock
  <2>7. StampsApart'
    <3>1. \A i, j \in 1..n : i # j => snap[i].inputs.at # snap[j].inputs.at
      BY DEF RowsInv, StampsApart
    <3> QED
      BY <2>0, <2>2, <2>3, <2>4, <3>1 DEF StampsApart
  <2>8. StreamsOrdered'
    <3>1. \A i, j \in 1..n : i < j /\ snap[i].by = snap[j].by =>
              /\ snap[i].inputs.at < snap[j].inputs.at
              /\ snap[i].property = snap[j].property => snap[i].status = "superseded"
      BY DEF RowsInv, StreamsOrdered
    <3>2. ASSUME NEW i \in 1..Len(snap'), NEW j \in 1..Len(snap'), i < j,
                 snap'[i].by = snap'[j].by
          PROVE  /\ snap'[i].inputs.at < snap'[j].inputs.at
                 /\ snap'[i].property = snap'[j].property => snap'[i].status = "superseded"
      <4>1. i \in 1..n
        BY <2>0, <2>2, <3>2
      <4>2. CASE j \in 1..n
        BY <2>0, <2>3, <3>1, <3>2, <4>1, <4>2
      <4>3. CASE j = n + 1
        BY <2>0, <2>2, <2>3, <3>2, <4>1, <4>3
      <4> QED
        BY <2>4, <4>2, <4>3
    <3> QED
      BY <3>2 DEF StreamsOrdered
  <2>9. SupersededByLater'
    <3>1. \A i \in 1..n : snap[i].status # "active" =>
              \E j \in 1..n : i < j /\ snap[j].property = snap[i].property
      BY DEF RowsInv, SupersededByLater
    <3>2. ASSUME NEW i \in 1..Len(snap'), snap'[i].status # "active"
          PROVE  \E j \in 1..Len(snap') : i < j /\ snap'[j].property = snap'[i].property
      <4>1. i \in 1..n
        BY <2>2, <2>4, <3>2
      <4>2. CASE snap[i].property = p
        BY <2>0, <2>2, <2>3, <2>4, <2>5, <4>1, <4>2
      <4>3. CASE snap[i].status # "active"
        <5>1. PICK j \in 1..n : i < j /\ snap[j].property = snap[i].property
          BY <3>1, <4>1, <4>3
        <5> QED
          BY <2>0, <2>3, <2>4, <4>1, <5>1
      <4> QED
        BY <2>3, <3>2, <4>1, <4>2, <4>3
    <3> QED
      BY <3>2 DEF SupersededByLater
  <2> QED
    BY <2>6, <2>7, <2>8, <2>9 DEF RowsInv
<1> QED
  BY <1>1, <1>2, SnapSteps

LEMMA ReportsRows == Spec => []RowsInv
BY InitRows, NextRows, PTL DEF Spec

\* What is written of a row stays, but for its status.
LEMMA RowsKept ==
    ASSUME RowsTyped, [Next]_vars, NEW i \in 1..Len(snap)
    PROVE  /\ i \in 1..Len(snap')
           /\ snap'[i].property = snap[i].property
           /\ snap'[i].inputs = snap[i].inputs
<1>1. CASE UNCHANGED snap
  BY <1>1
<1>2. ASSUME NEW p \in Properties, NEW d \in Documents, NEW at \in Clock, NEW w \in Writers,
             PublishRow(p, d, at, w)
      PROVE  /\ i \in 1..Len(snap')
             /\ snap'[i].property = snap[i].property
             /\ snap'[i].inputs = snap[i].inputs
  <2>1. RowWritten(p, d, at, w)
    BY <1>2, RowPublished
  <2>2. i \in 1..Len(snap')
    BY <2>1, RowFields DEF RowWritten
  <2>3. \/ snap'[i] = snap[i]
        \/ snap'[i] = [snap[i] EXCEPT !.status = "superseded"]
    BY <2>1 DEF RowWritten
  <2>4. CASE snap'[i] = [snap[i] EXCEPT !.status = "superseded"]
    BY <2>2, <2>4, RowFields
  <2> QED
    BY <2>2, <2>3, <2>4
<1> QED
  BY <1>1, <1>2, SnapSteps

-----------------------------------------------------------------------------
(***************************************************************************)
(* The rows that count.                                                    *)
(***************************************************************************)

\* Before orders the rows of a property by date and then by creation.
LEMMA BeforeOrders ==
    ASSUME RowsInv, NEW i \in 1..Len(snap), NEW j \in 1..Len(snap)
    PROVE  /\ ~Before(i, i)
           /\ i # j => Before(i, j) \/ Before(j, i)
           /\ \A k \in 1..Len(snap) : Before(i, j) /\ Before(j, k) => Before(i, k)
<1>1. \A k \in 1..Len(snap) : DateOfRow(k) \in Nat /\ snap[k].inputs.at \in Nat
  BY RowFields DEF RowsInv
<1>2. i # j => snap[i].inputs.at # snap[j].inputs.at
  BY DEF RowsInv, StampsApart
<1> QED
  BY <1>1, <1>2, SMTT(30) DEF Before

\* distinct on leaves one row of each property.
LEMMA FirstsApart ==
    ASSUME RowsInv, NEW S \in SUBSET (1..Len(snap)),
           NEW i \in FirstOfEach(S), NEW j \in FirstOfEach(S),
           snap[i].property = snap[j].property
    PROVE  i = j
BY BeforeOrders DEF FirstOfEach

\* It leaves one for each property that has rows.
LEMMA FirstExists ==
    ASSUME RowsInv, NEW S \in SUBSET (1..Len(snap)), NEW i \in S
    PROVE  \E j \in FirstOfEach(S) : snap[j].property = snap[i].property
<1> DEFINE T == {j \in S : snap[j].property = snap[i].property}
<1> DEFINE R == {e \in T \X T : Before(e[1], e[2])}
<1>1. IsFiniteSet(T) /\ T # {}
  <2>1. IsFiniteSet(1..Len(snap))
    BY FS_Interval DEF RowsInv, RowsTyped
  <2>2. T \in SUBSET (1..Len(snap))
    OBVIOUS
  <2> QED
    BY <2>1, <2>2, FS_Subset
<1>2. \A x, y \in T : <<x, y>> \in R <=> Before(x, y)
  OBVIOUS
<1>3. \E m \in T : \A y \in T : <<m, y>> \notin R
  <2>1. \A x, y, z \in T : <<x, y>> \in R /\ <<y, z>> \in R => <<x, z>> \in R
    BY <1>2, BeforeOrders
  <2>2. \A x \in T : <<x, x>> \notin R
    BY <1>2, BeforeOrders
  <2> HIDE DEF T, R
  <2> QED
    BY <1>1, <2>1, <2>2, LastExists
<1>4. PICK m \in T : \A y \in T : ~Before(m, y)
  BY <1>2, <1>3
<1> QED
  BY <1>4 DEF FirstOfEach

\* A property that has been valued has an active row.
LEMMA ActiveExists ==
    ASSUME RowsInv, NEW i \in 1..Len(snap)
    PROVE  \E j \in 1..Len(snap) : /\ snap[j].property = snap[i].property
                                   /\ snap[j].status = "active"
<1> DEFINE S == {j \in 1..Len(snap) : snap[j].property = snap[i].property}
<1>1. S \in SUBSET (1..Len(snap)) /\ S # {} /\ Len(snap) \in Nat
  BY DEF RowsInv, RowsTyped
<1>2. Max(S) \in S /\ \A j \in S : j <= Max(S)
  <2> HIDE DEF S
  <2> QED
    BY <1>1, MaxOfRows
<1>3. snap[Max(S)].status = "active"
  <2> SUFFICES ASSUME snap[Max(S)].status # "active" PROVE FALSE
    OBVIOUS
  <2>1. PICK j \in 1..Len(snap) : Max(S) < j /\ snap[j].property = snap[Max(S)].property
    BY <1>2 DEF RowsInv, SupersededByLater
  <2>2. j \in S
    BY <1>2, <2>1
  <2>3. j <= Max(S) /\ Max(S) \in Nat /\ j \in Nat
    BY <1>2, <2>2
  <2> QED
    BY <2>1, <2>3
<1> QED
  BY <1>2, <1>3

LEMMA CountedRows ==
    ASSUME RowsInv
    PROVE  /\ Counted \subseteq 1..Len(snap)
           /\ \A i \in Counted : PropertyLive(snap[i].property)
           /\ \A i, j \in Counted : snap[i].property = snap[j].property => i = j
<1> DEFINE S == {i \in DOMAIN snap : /\ snap[i].property \in {p \in Properties : PropertyLive(p)}
                                     /\ snap[i].status = "active"}
<1>1. Counted = FirstOfEach(S)
  BY DEF Counted, Latest
<1>2. S \in SUBSET (1..Len(snap))
  BY DEF RowsInv, RowsTyped
<1>3. FirstOfEach(S) \subseteq S
  BY DEF FirstOfEach
<1>4. \A i \in S : PropertyLive(snap[i].property)
  OBVIOUS
<1> HIDE DEF S
<1> QED
  BY <1>1, <1>2, <1>3, <1>4, FirstsApart

\* A live property that has been valued is counted.
LEMMA ValuedIsCounted ==
    ASSUME RowsInv, NEW p \in Properties, PropertyLive(p),
           NEW i \in 1..Len(snap), snap[i].property = p
    PROVE  HasValue(p)
<1> DEFINE S == {k \in DOMAIN snap : /\ snap[k].property \in {q \in Properties : PropertyLive(q)}
                                     /\ snap[k].status = "active"}
<1>1. Counted = FirstOfEach(S)
  BY DEF Counted, Latest
<1>2. S \in SUBSET (1..Len(snap))
  BY DEF RowsInv, RowsTyped
<1>3. PICK j \in 1..Len(snap) : snap[j].property = p /\ snap[j].status = "active"
  BY ActiveExists
<1>4. j \in S
  BY <1>3 DEF RowsInv, RowsTyped
<1> HIDE DEF S
<1> QED
  BY <1>1, <1>2, <1>3, <1>4, FirstExists DEF HasValue

-----------------------------------------------------------------------------
(***************************************************************************)
(* Summary, time series and exports.                                       *)
(***************************************************************************)

ValuedCounts ==
    \A p \in Properties :
        PropertyLive(p) /\ (\E i \in 1..Len(snap) : snap[i].property = p) => HasValue(p)

\* A property in the portfolio stays there until it or its entity is deleted.
THEOREM ReportsNeverVanishes == Spec => NeverVanishes
<1>1. RowsInv => ValuedCounts
  BY ValuedIsCounted DEF ValuedCounts
<1>2. RowsInv /\ ValuedCounts' /\ [Next]_vars =>
          [\A p \in Properties : HasValue(p) /\ PropertyLive(p)' => HasValue(p)']_tables
  <2> SUFFICES ASSUME RowsInv, ValuedCounts', [Next]_vars, NEW p \in Properties, HasValue(p),
                      PropertyLive(p)'
               PROVE  HasValue(p)'
    OBVIOUS
  <2>1. PICK i \in 1..Len(snap) : snap[i].property = p
    BY CountedRows DEF HasValue
  <2>2. i \in 1..Len(snap') /\ snap'[i].property = p
    BY <2>1, RowsKept DEF RowsInv
  <2> QED
    BY <2>2 DEF ValuedCounts
<1> QED
  BY <1>1, <1>2, ReportsRows, PTL DEF Spec, NeverVanishes

\* Every live property that was ever valued is counted once.
LEMMA CountedOnce == RowsInv => OneEach
<1> SUFFICES ASSUME RowsInv PROVE OneEach
  OBVIOUS
<1> DEFINE T == {p \in Properties : PropertyLive(p) /\ \E i \in DOMAIN snap : snap[i].property = p}
<1> DEFINE f == [i \in Counted |-> snap[i].property]
<1>1. DOMAIN snap = 1..Len(snap) /\ Len(snap) \in Nat
  BY DEF RowsInv, RowsTyped
<1>2. IsFiniteSet(Counted)
  <2>1. IsFiniteSet(1..Len(snap))
    BY <1>1, FS_Interval
  <2>2. Counted \in SUBSET (1..Len(snap))
    BY CountedRows
  <2> QED
    BY <2>1, <2>2, FS_Subset
<1>3. f \in [Counted -> T]
  <2> SUFFICES ASSUME NEW i \in Counted PROVE snap[i].property \in T
    OBVIOUS
  <2> QED
    BY <1>1, CountedRows, RowFields DEF RowsInv
<1>4. \A p \in T : \E i \in Counted : f[i] = p
  BY <1>1, ValuedIsCounted DEF HasValue
<1>5. \A i, j \in Counted : f[i] = f[j] => i = j
  BY CountedRows
<1>6. ExistsBijection(Counted, T)
  <2> HIDE DEF T, f
  <2> QED
    BY <1>3, <1>4, <1>5 DEF ExistsBijection, Bijection, Injection, Surjection, IsInjective
<1>7. Cardinality(Counted) = Cardinality(T)
  BY <1>2, <1>6, FS_Bijection
<1> QED
  BY <1>7 DEF OneEach

\* In every state each live property that was ever valued counts once.
THEOREM ReportsCountsOnce == Spec => []OneEach
BY CountedOnce, ReportsRows, PTL

\* Where one stream values a property, the summary counts what it published
\* last, and so does the time series when the dates go up.
THEOREM ReportsCurrentFigure == Spec => []CurrentFigure
<1>1. RowsInv => CurrentFigure
  <2> SUFFICES ASSUME RowsInv, NEW p \in Properties, PropertyLive(p), Published(p) # {},
                      Serial(p)
               PROVE  /\ Max(Published(p)) \in Counted
                      /\ InDateOrder(p) => Max(Published(p)) \in
                            YearRows(YearOf[snap[Max(Published(p))].inputs.doc])
    BY DEF CurrentFigure
  <2> DEFINE m == Max(Published(p))
  <2>1. DOMAIN snap = 1..Len(snap) /\ Len(snap) \in Nat
    BY DEF RowsInv, RowsTyped
  <2>2. Published(p) \in SUBSET (1..Len(snap))
    BY <2>1 DEF Published
  <2>3. m \in Published(p) /\ \A i \in Published(p) : i <= m
    BY <2>1, <2>2, MaxOfRows
  <2>4. m \in 1..Len(snap) /\ snap[m].property = p
    BY <2>1, <2>3 DEF Published
  <2> HIDE DEF m
  <2>5. \A i \in 1..Len(snap) : snap[i].property = p /\ i # m =>
            i < m /\ snap[i].status = "superseded" /\ snap[i].inputs.at < snap[m].inputs.at
    <3> SUFFICES ASSUME NEW i \in 1..Len(snap), snap[i].property = p, i # m
                 PROVE  i < m /\ snap[i].status = "superseded"
                              /\ snap[i].inputs.at < snap[m].inputs.at
      OBVIOUS
    <3>1. i \in Published(p)
      BY <2>1 DEF Published
    <3>2. i < m
      BY <2>1, <2>3, <2>4, <3>1
    <3>3. snap[i].by = snap[m].by
      BY <2>3, <3>1 DEF Serial
    <3> QED
      BY <2>4, <3>2, <3>3 DEF RowsInv, StreamsOrdered
  <2>6. m \in Counted
    <3>1. PICK i \in Counted : snap[i].property = p
      BY <2>4, ValuedIsCounted DEF HasValue
    <3>2. snap[i].status = "active" /\ i \in 1..Len(snap)
      BY <3>1, CountedRows DEF Counted, Latest, FirstOfEach
    <3> QED
      BY <2>5, <3>1, <3>2
  <2>7. ASSUME InDateOrder(p) PROVE m \in YearRows(YearOf[snap[m].inputs.doc])
    <3>1. \A i \in 1..Len(snap) : snap[i].property = p => ~Before(m, i)
      <4> SUFFICES ASSUME NEW i \in 1..Len(snap), snap[i].property = p PROVE ~Before(m, i)
        OBVIOUS
      <4>1. CASE i = m
        BY <4>1, BeforeOrders
      <4>2. CASE i # m
        <5>1. i < m /\ snap[i].inputs.at < snap[m].inputs.at
          BY <2>5, <4>2
        <5>2. DateOfRow(i) <= DateOfRow(m)
          BY <2>1, <2>3, <2>7, <5>1 DEF InDateOrder, Published
        <5>3. DateOfRow(i) \in Nat /\ DateOfRow(m) \in Nat
              /\ snap[i].inputs.at \in Nat /\ snap[m].inputs.at \in Nat
          BY <2>4, RowFields DEF RowsInv
        <5> QED
          BY <5>1, <5>2, <5>3 DEF Before
      <4> QED
        BY <4>1, <4>2
    <3>2. ~property[p].deleted
      BY DEF PropertyLive
    <3> QED
      BY <2>1, <2>4, <3>1, <3>2 DEF YearRows, FirstOfEach
  <2> QED
    BY <2>6, <2>7 DEF m
<1> QED
  BY <1>1, ReportsRows, PTL

-----------------------------------------------------------------------------
(***************************************************************************)
(* Typing.                                                                 *)
(***************************************************************************)
LEMMA TotalsTyped == RowsInv => Totals.count \in 0..Cardinality(Properties)
<1> SUFFICES ASSUME RowsInv PROVE Cardinality(Counted) \in 0..Cardinality(Properties)
  BY DEF Totals
<1> DEFINE f == [i \in Counted |-> snap[i].property]
<1>1. \A i \in Counted : snap[i].property \in Properties
  BY CountedRows, RowFields DEF RowsInv
<1>2. f \in Injection(Counted, Properties)
  BY <1>1, CountedRows DEF Injection, IsInjective
<1>3. IsFiniteSet(Properties)
  BY ReportsAssumption
<1>4. IsFiniteSet(Counted) /\ Cardinality(Counted) <= Cardinality(Properties)
  <2> HIDE DEF f
  <2> QED
    BY <1>2, <1>3, FS_Injection
<1> QED
  BY <1>3, <1>4, FS_CardinalityType

LEMMA GroupsTyped == RowsInv => DOMAIN ByEntity \subseteq Entities
<1> SUFFICES ASSUME RowsInv, NEW i \in Counted PROVE EntityOf[snap[i].property] \in Entities
  BY DEF ByEntity, GroupBy, EntityOfRow
<1> QED
  BY CountedRows, RowFields, ReportsAssumption DEF RowsInv

\* A summary under way, and what it has read so far.
SummaryTyped(a) ==
    /\ a.pc \in {"idle", "by_type", "by_entity", "top", "answered"}
    /\ a.pc # "idle" => a.totals.count \in 0..Cardinality(Properties)
    /\ a.pc \in {"top", "answered"} => DOMAIN a.byEntity \subseteq Entities
    /\ a.pc = "answered" => a.top \subseteq 1..Len(snap)

SummaryFields == {"pc", "totals", "byType", "byEntity", "top", "moved"}

ReadersInv ==
    /\ DOMAIN reader = Readers
    /\ \A r \in Readers : DOMAIN reader[r] = SummaryFields /\ SummaryTyped(reader[r])

\* A change of the tables marks the summaries under way and no more.
LEMMA MovingTyped ==
    ASSUME RowsInv, RowsInv', ReadersInv, Moving, \A i \in 1..Len(snap) : i \in 1..Len(snap')
    PROVE  ReadersInv'
<1> SUFFICES ASSUME NEW r \in Readers
             PROVE  DOMAIN reader'[r] = SummaryFields /\ SummaryTyped(reader[r])'
  BY DEF ReadersInv, Moving
<1>1. DOMAIN reader[r] = SummaryFields /\ SummaryTyped(reader[r])
  BY DEF ReadersInv
<1>2. reader'[r] = reader[r] \/ reader'[r] = [reader[r] EXCEPT !.moved = TRUE]
  BY DEF Moving
<1>3. /\ DOMAIN reader'[r] = SummaryFields
      /\ reader'[r].pc = reader[r].pc
      /\ reader'[r].totals = reader[r].totals
      /\ reader'[r].byEntity = reader[r].byEntity
      /\ reader'[r].top = reader[r].top
  BY <1>1, <1>2 DEF SummaryFields
<1> QED
  BY <1>1, <1>3 DEF SummaryTyped

LEMMA ReadingTyped ==
    ASSUME RowsInv, ReadersInv, NEW r \in Readers, Reading(r)
    PROVE  ReadersInv'
<1>1. DOMAIN reader = Readers /\ DOMAIN reader[r] = SummaryFields /\ SummaryTyped(reader[r])
  BY DEF ReadersInv
<1>2. UNCHANGED snap
  BY DEF Reading, ReadTotals, ReadByType, ReadByEntity, ReadTop, ReadFails, tables
<1>3. ASSUME NEW a, reader' = [reader EXCEPT ![r] = a],
             DOMAIN a = SummaryFields, SummaryTyped(a)
      PROVE  ReadersInv'
  BY <1>1, <1>2, <1>3 DEF ReadersInv, SummaryTyped
<1>4. CASE ReadTotals(r)
  <2> DEFINE a == [[NoAnswer EXCEPT !.pc = "by_type"] EXCEPT !.totals = Totals]
  <2>1. reader' = [reader EXCEPT ![r] = a]
    BY <1>4 DEF ReadTotals
  <2>2. DOMAIN a = SummaryFields /\ a.pc = "by_type" /\ a.totals = Totals
    BY DEF NoAnswer, SummaryFields
  <2> HIDE DEF a
  <2>3. SummaryTyped(a)
    BY <2>2, TotalsTyped DEF SummaryTyped
  <2> QED
    BY <1>3, <2>1, <2>2, <2>3
<1>5. CASE ReadByType(r)
  <2> DEFINE a == [[reader[r] EXCEPT !.pc = "by_entity"] EXCEPT !.byType = ByType]
  <2>1. reader' = [reader EXCEPT ![r] = a] /\ reader[r].pc = "by_type"
    BY <1>1, <1>5 DEF ReadByType
  <2>2. DOMAIN a = SummaryFields /\ a.pc = "by_entity" /\ a.totals = reader[r].totals
    BY <1>1 DEF SummaryFields
  <2> HIDE DEF a
  <2>3. SummaryTyped(a)
    BY <1>1, <2>1, <2>2 DEF SummaryTyped
  <2> QED
    BY <1>3, <2>1, <2>2, <2>3
<1>6. CASE ReadByEntity(r)
  <2> DEFINE a == [[reader[r] EXCEPT !.pc = "top"] EXCEPT !.byEntity = ByEntity]
  <2>1. reader' = [reader EXCEPT ![r] = a] /\ reader[r].pc = "by_entity"
    BY <1>1, <1>6 DEF ReadByEntity
  <2>2. /\ DOMAIN a = SummaryFields /\ a.pc = "top" /\ a.totals = reader[r].totals
        /\ a.byEntity = ByEntity
    BY <1>1 DEF SummaryFields
  <2> HIDE DEF a
  <2>3. SummaryTyped(a)
    BY <1>1, <2>1, <2>2, GroupsTyped DEF SummaryTyped
  <2> QED
    BY <1>3, <2>1, <2>2, <2>3
<1>7. CASE ReadTop(r)
  <2>1. PICK S \in SUBSET Counted :
            reader' = [reader EXCEPT ![r].pc = "answered", ![r].top = S]
    BY <1>7 DEF ReadTop
  <2> DEFINE a == [[reader[r] EXCEPT !.pc = "answered"] EXCEPT !.top = S]
  <2>2. reader' = [reader EXCEPT ![r] = a] /\ reader[r].pc = "top"
    BY <1>1, <1>7, <2>1 DEF ReadTop
  <2>3. /\ DOMAIN a = SummaryFields /\ a.pc = "answered" /\ a.totals = reader[r].totals
        /\ a.byEntity = reader[r].byEntity /\ a.top = S
    BY <1>1 DEF SummaryFields
  <2> HIDE DEF a
  <2>4. SummaryTyped(a)
    BY <1>1, <2>2, <2>3, CountedRows DEF SummaryTyped
  <2> QED
    BY <1>3, <2>2, <2>3, <2>4
<1>8. CASE ReadFails(r)
  <2>1. reader' = [reader EXCEPT ![r] = NoAnswer]
    BY <1>8 DEF ReadFails
  <2>2. DOMAIN NoAnswer = SummaryFields /\ SummaryTyped(NoAnswer)
    BY DEF NoAnswer, SummaryFields, SummaryTyped
  <2> HIDE DEF NoAnswer
  <2> QED
    BY <1>3, <2>1, <2>2
<1> QED
  BY <1>4, <1>5, <1>6, <1>7, <1>8 DEF Reading

LEMMA NextReaders == RowsInv /\ RowsInv' /\ ReadersInv /\ [Next]_vars => ReadersInv'
<1> SUFFICES ASSUME RowsInv, RowsInv', ReadersInv, [Next]_vars PROVE ReadersInv'
  OBVIOUS
<1>1. CASE UNCHANGED <<snap, reader>>
  BY <1>1 DEF ReadersInv, SummaryTyped
<1>2. CASE Moving
  BY <1>2, MovingTyped, RowsKept DEF RowsInv
<1>3. CASE \E r \in Readers : Reading(r)
  BY <1>3, ReadingTyped
<1> QED
  BY <1>1, <1>2, <1>3
     DEF Next, Changing, PublishRow, ChangeType, DeleteProperty, DeleteEntity, tables,
         vars

TablesTyped == property \in [Properties -> PropertyRow] /\ entity \in [Entities -> EntityRow]

LEMMA NextTables == TablesTyped /\ [Next]_vars => TablesTyped'
BY DEF TablesTyped, PropertyRow, EntityRow, Next, Changing, PublishRow, ChangeType,
       DeleteProperty, DeleteEntity, Reading, ReadTotals, ReadByType,
       ReadByEntity, ReadTop, ReadFails, tables, vars

-----------------------------------------------------------------------------
\* Every variable has the shape its table or handler gives it.
THEOREM ReportsTyping == Spec => []TypeOK
<1>1. Init => ReadersInv /\ TablesTyped
  BY DEF Init, ReadersInv, NoAnswer, SummaryFields, SummaryTyped, TablesTyped
<1>2. RowsInv /\ ReadersInv /\ TablesTyped => TypeOK
  <2> SUFFICES ASSUME RowsInv, ReadersInv, TablesTyped PROVE TypeOK
    OBVIOUS
  <2>1. DOMAIN snap = 1..Len(snap)
    BY DEF RowsInv, RowsTyped
  <2> QED
    BY <2>1 DEF TypeOK, RowsInv, RowsTyped, ReadersInv, SummaryTyped, TablesTyped
<1> QED
  BY <1>1, <1>2, NextReaders, NextTables, ReportsRows, PTL DEF Spec

-----------------------------------------------------------------------------
(***************************************************************************)
(* A summary adds up.                                                      *)
(***************************************************************************)
LEMMA CountedFinite ==
    ASSUME RowsInv
    PROVE  /\ IsFiniteSet(Counted) /\ Cardinality(Counted) \in Nat
           /\ \A i \in Counted : /\ i \in 1..Len(snap) /\ ValueOfRow(i) \in Int
                                 /\ snap[i].property \in Properties
                                 /\ PropertyLive(snap[i].property)
<1>1. Counted \in SUBSET (1..Len(snap)) /\ Len(snap) \in Nat
  BY CountedRows DEF RowsInv, RowsTyped
<1>2. IsFiniteSet(1..Len(snap))
  BY <1>1, FS_Interval
<1>3. IsFiniteSet(Counted)
  BY <1>1, <1>2, FS_Subset
<1>4. Cardinality(Counted) \in Nat
  BY <1>3, FS_CardinalityType
<1>5. \A i \in 1..Len(snap) : ValueOfRow(i) \in Int /\ snap[i].property \in Properties
  BY RowFields, ReportsAssumption DEF RowsInv, ValueOfRow
<1> QED
  BY <1>1, <1>3, <1>4, <1>5, CountedRows

\* The value of some rows, without the names of the model.
RowValues(S) == [i \in S |-> ValueOfRow(i)]

LEMMA SumValueIs == ASSUME NEW S PROVE SumValue(S) = SumFunctionOnSet(RowValues(S), S)
<1>1. DOMAIN RowValues(S) = S /\ SumValue(S) = SumFunction(RowValues(S))
  BY DEF SumValue, RowValues
<1> QED
  BY <1>1, SumOfAll

\* There are finitely many keys of a finite set.
LEMMA KeysFinite ==
    ASSUME NEW S, IsFiniteSet(S), NEW key
    PROVE  IsFiniteSet({key[i] : i \in S})
<1> DEFINE T == {key[i] : i \in S}
           f == [i \in S |-> key[i]]
<1>1. f \in [S -> T] /\ \A t \in T : \E i \in S : f[i] = t
  OBVIOUS
<1>2. f \in Surjection(S, T)
  <2> HIDE DEF f, T
  <2> QED
    BY <1>1 DEF Surjection
<1>3. IsFiniteSet(T)
  <2> HIDE DEF f, T
  <2> QED
    BY <1>2, FS_Surjection
<1> QED
  BY <1>3

\* Grouped by any key, the values and the counts of the groups add up to those
\* of all the rows counted.
LEMMA GroupsAddUp ==
    ASSUME RowsInv, NEW key,
           NEW parts, DOMAIN parts = {key[i] : i \in Counted},
           \A k \in DOMAIN parts : parts[k] = Figures(Group(Counted, key, k))
    PROVE  SumOver(parts) = [value |-> SumValue(Counted), count |-> Cardinality(Counted)]
<1> DEFINE G == DOMAIN parts
           C == Counted
           group(k) == Group(C, key, k)
           value == [k \in G |-> parts[k].value]
           count == [k \in G |-> parts[k].count]
           ones == [i \in C |-> 1]
<1>1. IsFiniteSet(C) /\ \A i \in C : RowValues(C)[i] \in Int /\ ones[i] \in Int /\ ones[i] = 1
  BY CountedFinite DEF RowValues
<1>2. IsFiniteSet(G) /\ \A i \in C : key[i] \in G
  <2>1. G = {key[i] : i \in C}
    OBVIOUS
  <2> HIDE DEF C, G
  <2> QED
    BY <1>1, <2>1, KeysFinite
<1>3. ASSUME NEW k \in G
      PROVE  /\ value[k] = SumFunctionOnSet(RowValues(C), group(k))
             /\ count[k] = SumFunctionOnSet(ones, group(k))
  <2>1. parts[k] = Figures(group(k))
    OBVIOUS
  <2>2. value[k] = SumValue(group(k)) /\ count[k] = Cardinality(group(k))
    <3>1. value[k] = parts[k].value /\ count[k] = parts[k].count
      OBVIOUS
    <3> HIDE DEF value, count, group, G
    <3> QED
      BY <2>1, <3>1 DEF Figures
  <2>3. group(k) \in SUBSET C
    BY DEF Group
  <2>4. IsFiniteSet(group(k))
    <3> HIDE DEF C, group
    <3> QED
      BY <1>1, <2>3, FS_Subset
  <2>5. SumValue(group(k)) = SumFunctionOnSet(RowValues(C), group(k))
    <3>1. SumValue(group(k)) = SumFunctionOnSet(RowValues(group(k)), group(k))
      BY SumValueIs
    <3>2. \A i \in group(k) : RowValues(group(k))[i] = RowValues(C)[i]
      BY DEF RowValues, Group
    <3> HIDE DEF C, group
    <3> QED
      BY <2>4, <3>1, <3>2, SumSame
  <2>6. Cardinality(group(k)) = SumFunctionOnSet(ones, group(k))
    <3>1. \A i \in group(k) : ones[i] = 1
      BY DEF Group
    <3> HIDE DEF C, group, ones
    <3> QED
      BY <2>4, <3>1, SumOnes
  <2> QED
    BY <2>2, <2>5, <2>6
<1>4. SumFunctionOnSet(value, G) = SumFunctionOnSet(RowValues(C), C)
  <2> HIDE DEF C, G, value, ones, count
  <2> QED
    BY <1>1, <1>2, <1>3, SumGrouped
<1>5. SumFunctionOnSet(count, G) = SumFunctionOnSet(ones, C)
  <2> HIDE DEF C, G, value, ones, count
  <2> QED
    BY <1>1, <1>2, <1>3, SumGrouped
<1>6. SumFunctionOnSet(ones, C) = Cardinality(C)
  <2> HIDE DEF C, ones
  <2> QED
    BY <1>1, SumOnes
<1>7. DOMAIN value = G /\ DOMAIN count = G
  OBVIOUS
<1>8. SumOver(parts) = [value |-> SumFunction(value), count |-> SumFunction(count)]
  BY DEF SumOver
<1>9. SumFunction(value) = SumFunctionOnSet(value, G) /\ SumFunction(count) = SumFunctionOnSet(count, G)
  <2> HIDE DEF value, count
  <2> QED
    BY <1>7, SumOfAll
<1> QED
  BY <1>4, <1>5, <1>6, <1>8, <1>9, SumValueIs

\* What the statements of a summary say of one state of the tables.
TablesAddUp ==
    /\ SumOver(ByType) = [value |-> Totals.value, count |-> Totals.count]
    /\ SumOver(ByEntity) = [value |-> Totals.value, count |-> Totals.count]
    /\ Cardinality(DOMAIN ByEntity) <= Totals.entities

LEMMA NowAddsUp == RowsInv => TablesAddUp
<1> SUFFICES ASSUME RowsInv PROVE TablesAddUp
  OBVIOUS
<1>1. Totals.value = SumValue(Counted) /\ Totals.count = Cardinality(Counted)
      /\ Totals.entities = Cardinality({e \in Entities : ~entity[e].deleted})
  BY DEF Totals
<1>2. SumOver(ByType) = [value |-> SumValue(Counted), count |-> Cardinality(Counted)]
  <2> DEFINE key == [i \in Counted |-> TypeOfRow(i)]
  <2>1. DOMAIN ByType = {key[i] : i \in Counted}
    BY DEF ByType, GroupBy
  <2>2. \A k \in DOMAIN ByType : ByType[k] = Figures(Group(Counted, key, k))
    <3> SUFFICES ASSUME NEW k \in DOMAIN ByType
                 PROVE  ByType[k] = Figures(Group(Counted, key, k))
      OBVIOUS
    <3>1. ByType[k] = Figures({i \in Counted : TypeOfRow(i) = k})
      BY DEF ByType, GroupBy
    <3>2. {i \in Counted : TypeOfRow(i) = k} = Group(Counted, key, k)
      BY DEF Group
    <3> QED
      BY <3>1, <3>2
  <2> HIDE DEF key
  <2> QED
    BY <2>1, <2>2, GroupsAddUp
<1>3. SumOver(ByEntity) = [value |-> SumValue(Counted), count |-> Cardinality(Counted)]
  <2> DEFINE key == [i \in Counted |-> EntityOfRow(i)]
  <2>1. DOMAIN ByEntity = {key[i] : i \in Counted}
    BY DEF ByEntity, GroupBy
  <2>2. \A k \in DOMAIN ByEntity : ByEntity[k] = Figures(Group(Counted, key, k))
    <3> SUFFICES ASSUME NEW k \in DOMAIN ByEntity
                 PROVE  ByEntity[k] = Figures(Group(Counted, key, k))
      OBVIOUS
    <3>1. ByEntity[k] = Figures({i \in Counted : EntityOfRow(i) = k})
      BY DEF ByEntity, GroupBy
    <3>2. {i \in Counted : EntityOfRow(i) = k} = Group(Counted, key, k)
      BY DEF Group
    <3> QED
      BY <3>1, <3>2
  <2> HIDE DEF key
  <2> QED
    BY <2>1, <2>2, GroupsAddUp
<1>4. Cardinality(DOMAIN ByEntity) <= Cardinality({e \in Entities : ~entity[e].deleted})
  <2> DEFINE live == {e \in Entities : ~entity[e].deleted}
  <2>1. DOMAIN ByEntity \subseteq live
    <3> SUFFICES ASSUME NEW i \in Counted PROVE EntityOfRow(i) \in live
      BY DEF ByEntity, GroupBy
    <3>1. snap[i].property \in Properties /\ PropertyLive(snap[i].property)
      BY CountedFinite
    <3> QED
      BY <3>1, ReportsAssumption DEF EntityOfRow, PropertyLive
  <2>2. IsFiniteSet(live)
    <3>1. live \subseteq Entities /\ IsFiniteSet(Entities)
      BY ReportsAssumption
    <3> HIDE DEF live
    <3> QED
      BY <3>1, FS_Subset
  <2> HIDE DEF live
  <2>3. Cardinality(DOMAIN ByEntity) <= Cardinality(live)
    BY <2>1, <2>2, FS_Subset
  <2> QED
    BY <2>3 DEF live
<1> QED
  BY <1>1, <1>2, <1>3, <1>4 DEF TablesAddUp

\* An answer whose statements saw the same tables, in terms of what it holds.
Consistent(a) ==
    LET all == [value |-> a.totals.value, count |-> a.totals.count]
    IN  /\ SumOver(a.byType) = all
        /\ SumOver(a.byEntity) = all
        /\ Cardinality(DOMAIN a.byEntity) <= a.totals.entities
        /\ Cardinality(a.top) = Smaller(TopLimit, all.count)
        /\ all.count <= TopLimit => SumFunctionOnSet(RowValues(a.top), a.top) = all.value

\* Of a summary during which no table moved: what was read is what there is
\* until it is answered, and then it adds up.
Unmoved(a) ==
    /\ a.pc \in {"by_type", "by_entity", "top"} => a.totals = Totals
    /\ a.pc \in {"by_entity", "top"} => a.byType = ByType
    /\ a.pc = "top" => a.byEntity = ByEntity
    /\ a.pc = "answered" => Consistent(a)

UnmovedInv == \A r \in Readers : ~reader[r].moved => Unmoved(reader[r])

\* The rows that are listed as the top ones keep their values.
LEMMA ConsistentKept ==
    ASSUME RowsInv, [Next]_vars, NEW a, a.top \subseteq 1..Len(snap), Consistent(a)
    PROVE  LET all == [value |-> a.totals.value, count |-> a.totals.count]
           IN  all.count <= TopLimit =>
                 SumFunctionOnSet([i \in a.top |-> ValueOf[snap'[i].inputs.doc]], a.top) = all.value
<1>1. \A i \in 1..Len(snap) : snap'[i].inputs = snap[i].inputs
  BY RowsKept DEF RowsInv
<1>2. [i \in a.top |-> ValueOf[snap'[i].inputs.doc]] = RowValues(a.top)
  BY <1>1 DEF RowValues, ValueOfRow
<1> QED
  BY <1>2 DEF Consistent

\* The statements of a summary read the same of the same tables.
LEMMA SameTables ==
    ASSUME UNCHANGED tables
    PROVE  Totals' = Totals /\ ByType' = ByType /\ ByEntity' = ByEntity
<1>1. Counted' = Counted
  BY DEF tables, Counted, Latest, FirstOfEach, Before, DateOfRow, PropertyLive
<1>2. \A i : /\ ValueOfRow(i)' = ValueOfRow(i) /\ DateOfRow(i)' = DateOfRow(i)
             /\ TypeOfRow(i)' = TypeOfRow(i) /\ EntityOfRow(i)' = EntityOfRow(i)
  BY DEF tables, ValueOfRow, DateOfRow, TypeOfRow, EntityOfRow
<1>3. \A S : SumValue(S)' = SumValue(S)
  BY <1>2 DEF SumValue
<1>4. \A S : Figures(S)' = Figures(S)
  BY <1>3 DEF Figures
<1>5. Totals' = Totals
  BY <1>1, <1>2, <1>3 DEF Totals, tables
<1>6. ByType' = ByType
  BY <1>1, <1>2, <1>4 DEF ByType, GroupBy
<1>7. ByEntity' = ByEntity
  BY <1>1, <1>2, <1>4 DEF ByEntity, GroupBy
<1> QED
  BY <1>5, <1>6, <1>7

\* A change of the tables leaves no summary unmoved that is under way.
LEMMA MovingUnmoved ==
    ASSUME RowsInv, ReadersInv, UnmovedInv, [Next]_vars, Moving
    PROVE  UnmovedInv'
<1> SUFFICES ASSUME NEW r \in Readers, ~reader'[r].moved PROVE Unmoved(reader[r])'
  BY DEF UnmovedInv, Moving
<1>1. DOMAIN reader[r] = SummaryFields /\ SummaryTyped(reader[r])
  BY DEF ReadersInv
<1>2. reader[r].pc \notin {"by_type", "by_entity", "top"} /\ reader'[r] = reader[r]
  <2>1. CASE reader[r].pc \in {"by_type", "by_entity", "top"}
    <3>1. reader'[r] = [reader[r] EXCEPT !.moved = TRUE]
      BY <2>1 DEF Moving
    <3>2. reader'[r].moved
      BY <1>1, <3>1 DEF SummaryFields
    <3> QED
      BY <3>2
  <2>2. CASE reader[r].pc \notin {"by_type", "by_entity", "top"}
    BY <2>2 DEF Moving
  <2> QED
    BY <2>1, <2>2
<1>3. ASSUME reader[r].pc = "answered" PROVE Consistent(reader[r])'
  <2> DEFINE a == reader[r]
  <2>1. Consistent(a) /\ a.top \subseteq 1..Len(snap)
    BY <1>1, <1>2, <1>3 DEF UnmovedInv, Unmoved, SummaryTyped
  <2> DEFINE all == [value |-> a.totals.value, count |-> a.totals.count]
             now == [i \in a.top |-> ValueOf[snap'[i].inputs.doc]]
  <2>2. all.count <= TopLimit => SumFunctionOnSet(now, a.top) = all.value
    BY <2>1, ConsistentKept
  <2>3. RowValues(reader[r].top)' = now
    BY <1>2 DEF RowValues, ValueOfRow
  <2> QED
    BY <1>2, <2>1, <2>2, <2>3 DEF Consistent, SumOver
<1> QED
  BY <1>2, <1>3 DEF Unmoved

\* Each statement reads what there is.
LEMMA ReadingUnmoved ==
    ASSUME RowsInv, ReadersInv, TablesAddUp, UnmovedInv, NEW r \in Readers, Reading(r)
    PROVE  UnmovedInv'
<1>1. DOMAIN reader = Readers /\ DOMAIN reader[r] = SummaryFields
  BY DEF ReadersInv
<1>2. UNCHANGED tables
  BY DEF Reading, ReadTotals, ReadByType, ReadByEntity, ReadTop, ReadFails
<1>3. Totals' = Totals /\ ByType' = ByType /\ ByEntity' = ByEntity
  BY <1>2, SameTables
<1>4. ASSUME NEW a PROVE Consistent(a)' <=> Consistent(a)
  BY <1>2 DEF Consistent, RowValues, ValueOfRow, tables
<1>5. \A q \in Readers : Unmoved(reader[q]) /\ reader'[q] = reader[q] => Unmoved(reader[q])'
  <2> SUFFICES ASSUME NEW q \in Readers, Unmoved(reader[q]), reader'[q] = reader[q]
               PROVE  Unmoved(reader[q])'
    OBVIOUS
  <2>1. Consistent(reader[q])' <=> Consistent(reader[q])
    BY <1>2 DEF Consistent, RowValues, ValueOfRow, tables
  <2> QED
    BY <1>3, <2>1 DEF Unmoved
<1>6. ASSUME NEW a, reader' = [reader EXCEPT ![r] = a],
             a.moved \/ /\ a.pc \in {"by_type", "by_entity", "top"} => a.totals = Totals
                        /\ a.pc \in {"by_entity", "top"} => a.byType = ByType
                        /\ a.pc = "top" => a.byEntity = ByEntity
                        /\ a.pc = "answered" => Consistent(a)
      PROVE  UnmovedInv'
  <2> SUFFICES ASSUME NEW q \in Readers, ~reader'[q].moved PROVE Unmoved(reader[q])'
    BY DEF UnmovedInv
  <2>1. CASE q # r
    <3>1. reader'[q] = reader[q]
      BY <1>1, <1>6, <2>1
    <3> QED
      BY <1>5, <3>1 DEF UnmovedInv
  <2>2. CASE q = r
    <3>1. reader'[q] = a
      BY <1>1, <1>6, <2>2
    <3>2. Consistent(reader[q])' <=> Consistent(a)
      BY <1>2, <3>1 DEF Consistent, RowValues, ValueOfRow, tables
    <3> QED
      BY <1>3, <1>6, <3>1, <3>2 DEF Unmoved
  <2> QED
    BY <2>1, <2>2
<1>7. CASE ReadTotals(r)
  <2> DEFINE a == [[NoAnswer EXCEPT !.pc = "by_type"] EXCEPT !.totals = Totals]
  <2>1. reader' = [reader EXCEPT ![r] = a]
    BY <1>7 DEF ReadTotals
  <2>2. a.pc = "by_type" /\ a.totals = Totals
    BY DEF NoAnswer
  <2> HIDE DEF a
  <2> QED
    BY <1>6, <2>1, <2>2
<1>8. CASE ReadByType(r)
  <2> DEFINE a == [[reader[r] EXCEPT !.pc = "by_entity"] EXCEPT !.byType = ByType]
  <2>1. reader' = [reader EXCEPT ![r] = a] /\ reader[r].pc = "by_type"
    BY <1>1, <1>8 DEF ReadByType
  <2>2. /\ a.pc = "by_entity" /\ a.totals = reader[r].totals /\ a.byType = ByType
        /\ a.moved = reader[r].moved
    BY <1>1 DEF SummaryFields
  <2> HIDE DEF a
  <2>3. a.moved \/ a.totals = Totals
    BY <2>1, <2>2 DEF UnmovedInv, Unmoved
  <2> QED
    BY <1>6, <2>1, <2>2, <2>3
<1>9. CASE ReadByEntity(r)
  <2> DEFINE a == [[reader[r] EXCEPT !.pc = "top"] EXCEPT !.byEntity = ByEntity]
  <2>1. reader' = [reader EXCEPT ![r] = a] /\ reader[r].pc = "by_entity"
    BY <1>1, <1>9 DEF ReadByEntity
  <2>2. /\ a.pc = "top" /\ a.totals = reader[r].totals /\ a.byType = reader[r].byType
        /\ a.byEntity = ByEntity /\ a.moved = reader[r].moved
    BY <1>1 DEF SummaryFields
  <2> HIDE DEF a
  <2>3. a.moved \/ (a.totals = Totals /\ a.byType = ByType)
    BY <2>1, <2>2 DEF UnmovedInv, Unmoved
  <2> QED
    BY <1>6, <2>1, <2>2, <2>3
<1>10. CASE ReadTop(r)
  <2>1. PICK S \in SUBSET Counted :
            IsTop(S) /\ reader' = [reader EXCEPT ![r].pc = "answered", ![r].top = S]
    BY <1>10 DEF ReadTop
  <2> DEFINE a == [[reader[r] EXCEPT !.pc = "answered"] EXCEPT !.top = S]
  <2>2. reader' = [reader EXCEPT ![r] = a] /\ reader[r].pc = "top"
    BY <1>1, <1>10, <2>1 DEF ReadTop
  <2>3. /\ a.pc = "answered" /\ a.totals = reader[r].totals /\ a.byType = reader[r].byType
        /\ a.byEntity = reader[r].byEntity /\ a.top = S /\ a.moved = reader[r].moved
    BY <1>1 DEF SummaryFields
  <2> HIDE DEF a
  <2>4. a.moved \/ (a.totals = Totals /\ a.byType = ByType /\ a.byEntity = ByEntity)
    BY <2>2, <2>3 DEF UnmovedInv, Unmoved
  <2>5. Totals.count = Cardinality(Counted) /\ Totals.value = SumFunctionOnSet(RowValues(Counted), Counted)
    BY SumValueIs DEF Totals
  <2>6. Cardinality(S) = Smaller(TopLimit, Totals.count)
    BY <2>1, <2>5 DEF IsTop
  <2>7. ASSUME Totals.count <= TopLimit PROVE SumFunctionOnSet(RowValues(S), S) = Totals.value
    <3>1. IsFiniteSet(Counted) /\ Cardinality(Counted) \in Nat
      BY CountedFinite
    <3>2. Cardinality(S) = Cardinality(Counted)
      BY <2>5, <2>6, <2>7, <3>1, ReportsAssumption DEF Smaller
    <3>3. S = Counted
      BY <3>1, <3>2, FS_Subset
    <3> QED
      BY <2>5, <3>3
  <2>8. a.moved \/ Consistent(a)
    BY <2>3, <2>4, <2>6, <2>7 DEF Consistent, TablesAddUp
  <2> QED
    BY <1>6, <2>2, <2>3, <2>8
<1>11. CASE ReadFails(r)
  <2>1. reader' = [reader EXCEPT ![r] = NoAnswer] /\ NoAnswer.pc = "idle"
    BY <1>11 DEF ReadFails, NoAnswer
  <2> HIDE DEF NoAnswer
  <2> QED
    BY <1>6, <2>1
<1> QED
  BY <1>7, <1>8, <1>9, <1>10, <1>11 DEF Reading

LEMMA NextUnmoved ==
    RowsInv /\ ReadersInv /\ TablesAddUp /\ UnmovedInv /\ [Next]_vars => UnmovedInv'
<1> SUFFICES ASSUME RowsInv, ReadersInv, TablesAddUp, UnmovedInv, [Next]_vars PROVE UnmovedInv'
  OBVIOUS
<1>1. CASE UNCHANGED <<tables, reader>>
  <2> SUFFICES ASSUME NEW q \in Readers, ~reader'[q].moved PROVE Unmoved(reader[q])'
    BY DEF UnmovedInv
  <2>1. Unmoved(reader[q]) /\ reader'[q] = reader[q]
    BY <1>1 DEF UnmovedInv
  <2>2. Totals' = Totals /\ ByType' = ByType /\ ByEntity' = ByEntity
    BY <1>1, SameTables
  <2>3. Consistent(reader[q])' <=> Consistent(reader[q])
    BY <1>1 DEF Consistent, RowValues, ValueOfRow, tables
  <2> QED
    BY <2>1, <2>2, <2>3 DEF Unmoved
<1>2. CASE Moving
  BY <1>2, MovingUnmoved
<1>3. CASE \E r \in Readers : Reading(r)
  BY <1>3, ReadingUnmoved
<1> QED
  BY <1>1, <1>2, <1>3
     DEF Next, Changing, PublishRow, ChangeType, DeleteProperty, DeleteEntity, tables,
         vars

\* In every state the figures count each live property that was ever valued
\* once, and the answers whose four statements saw the same tables add up: both
\* breakdowns to the totals, and a list that leaves no row out as well.
THEOREM ReportsAddUp == Spec => []SummaryAddsUp
<1>1. Init => ReadersInv /\ UnmovedInv
  BY DEF Init, ReadersInv, NoAnswer, SummaryFields, SummaryTyped, UnmovedInv, Unmoved
<1>2. UnmovedInv /\ OneEach => SummaryAddsUp
  <2> SUFFICES ASSUME UnmovedInv, NEW r \in Readers, reader[r].pc = "answered", ~reader[r].moved
               PROVE  AddsUp(reader[r])
    BY DEF SummaryAddsUp
  <2>1. Consistent(reader[r])
    BY DEF UnmovedInv, Unmoved
  <2>2. SumValue(reader[r].top) = SumFunctionOnSet(RowValues(reader[r].top), reader[r].top)
    BY SumValueIs
  <2> QED
    BY <2>1, <2>2 DEF Consistent, AddsUp
<1> QED
  BY <1>1, <1>2, NowAddsUp, CountedOnce, NextReaders, NextUnmoved, ReportsRows, PTL DEF Spec
=============================================================================
