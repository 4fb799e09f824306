--------------------------- MODULE WorkbookProofs ---------------------------
(***************************************************************************)
(* Proofs about Workbook: that uploads, exports and edits leave the        *)
(* valuation engine as Valuation has it, and that what the renderer writes *)
(* is what the label-driven parser reads.                                  *)
(***************************************************************************)
EXTENDS Workbook, ValuationProofs, SequenceTheorems

-----------------------------------------------------------------------------
(* The engine under the workbook. *)

\* A step of the workbook is a preview or none of the engine.
LEMMA BookStepIsValuation ==
    ASSUME [BookNext]_bookVars
    PROVE  [Next]_vars
<1>1. CASE UNCHANGED bookVars
  BY <1>1 DEF bookVars, vars
<1>2. CASE \E i \in Inputs : Preview(i)
  BY <1>2 DEF Preview, Next
<1>3. CASE Export \/ Recalculate \/ Upload
  BY <1>3 DEF Export, Recalculate, Upload, vars
<1>4. ASSUME NEW r, \/ InsertRow(r) \/ DeleteRow(r)
                    \/ \E x \in Columns, v \in CellEdits : EditCell(r, x, v)
                    \/ \E x \in {"B", "C", "D"} : MoveDate(r, x)
      PROVE  UNCHANGED vars
  BY <1>4 DEF InsertRow, DeleteRow, EditCell, MoveDate, MayEdit, vars
<1> QED
  BY <1>1, <1>2, <1>3, <1>4 DEF BookNext

\* Whatever is exported, edited and uploaded, POST /calculate answers as the
\* engine's specification has it: its theorems hold beside the workbook's.
THEOREM BookRefinesValuation == BookSpec => Spec
<1>1. BookInit => Init
  BY DEF BookInit
<1>2. [BookNext]_bookVars => [Next]_vars
  BY BookStepIsValuation
<1> QED
  BY <1>1, <1>2, PTL DEF BookSpec, Spec

\* Nothing escalates in a document read from a file.
LEMMA ParsedDocument ==
    ASSUME NEW rows
    PROVE  LET p == ParseWorkbook(rows)
           IN  p.inputs # None => /\ p.inputs \in ValuationInput
                                  /\ WithinCycles(p.inputs)
                                  /\ p.inputs.rounding = "nearest_10000"
                                  /\ \A k \in DOMAIN p.inputs.tenants :
                                        /\ p.inputs.tenants[k].next = None
                                        /\ p.inputs.tenants[k].expiry = None
<1> DEFINE tenants == ReadTenants(rows)
           parking == ReadParking(rows, tenants.last)
           start == parking.last
           inp == Assembled(rows, tenants.lines, parking.lines, start)
           p == ParseWorkbook(rows)
<1>1. p.inputs # None => p.inputs = inp /\ inp \in ValuationInput
  BY DEF ParseWorkbook, Parsed
<1>2. inp.tenants = tenants.lines /\ inp.rounding = "nearest_10000"
  BY DEF Assembled
<1>3. \A k \in DOMAIN tenants.lines : tenants.lines[k].next = None /\ tenants.lines[k].expiry = None
  BY DEF ReadTenants, TenantOf
<1>4. ASSUME inp \in ValuationInput PROVE WithinCycles(inp)
  <2> HIDE DEF tenants, inp
  <2>1. \A k \in DOMAIN inp.tenants : inp.tenants[k].next = None
    BY <1>2, <1>3
  <2> QED
    BY <2>1, BoundAssumption DEF WithinCycles, Cycles
<1> QED
  BY <1>1, <1>2, <1>3, <1>4

-----------------------------------------------------------------------------
(* What is at hand. *)

\* The workbook is one of an exported valuation, the report what its upload
\* was told.
Stored ==
    /\ Answered
    /\ book # None => /\ book = Book(book.rows, book.digits, book.edits)
                      /\ inputs \in Exported
                      /\ book.digits = Digits(inputs.rounding)
                      /\ book.edits \in 0..MaxEdits
    /\ report # None => /\ book # None
                        /\ report = Outcome(ParseWorkbook(book.rows))

\* Export makes it so, and nothing else writes the digits or the report.
LEMMA AlwaysStored == BookSpec => []Stored
<1>1. BookInit => Stored
  BY DEF BookInit, Init, Stored, Answered
<1>2. Stored /\ [BookNext]_bookVars => Stored'
  <2> SUFFICES ASSUME Stored, [BookNext]_bookVars PROVE Stored'
    OBVIOUS
  <2> USE DEF Stored
  <2>1. CASE UNCHANGED bookVars
    BY <2>1 DEF bookVars, Answered
  <2>2. CASE \E i \in Inputs : Preview(i)
    BY <2>2 DEF Preview, PreviewCalculate, Answered
  <2>3. CASE Export
    <3>1. book' = Book(Render(inputs), Digits(inputs.rounding), 0)
      BY <2>3 DEF Export
    <3> QED
      BY <2>3, <3>1, BookAssumption DEF Export, Answered, Book
  <2>4. ASSUME NEW rows, MayEdit, Edit(rows) PROVE Stored'
    <3>1. book # None /\ report = None /\ book.edits \in 0..MaxEdits /\ book.edits < MaxEdits
      BY <2>4 DEF MayEdit
    <3>2. book.edits + 1 \in 0..MaxEdits
      BY <3>1, BookAssumption
    <3>3. book' = Book(rows, book.digits, book.edits + 1)
      BY <2>4, <3>1 DEF Edit, Book
    <3>4. inputs' = inputs /\ result' = result /\ report' = report
      BY <2>4 DEF MayEdit
    <3> QED
      BY <3>1, <3>2, <3>3, <3>4 DEF Answered, Book
  <2>5. CASE Recalculate
    <3> DEFINE value == SheetValue(book.rows, book.digits)
               to == [r \in DOMAIN book.rows |->
                        IF book.rows[r].label = "open market assessment"
                          THEN [book.rows[r] EXCEPT !.cells["I"] = value]
                          ELSE book.rows[r]]
    <3>1. /\ book # None /\ report = None /\ book' = [book EXCEPT !.rows = to]
          /\ UNCHANGED <<inputs, result, report>>
      BY <2>5 DEF Recalculate
    <3> HIDE DEF to, value
    <3>2. book' = Book(to, book.digits, book.edits)
      BY <3>1 DEF Book
    <3> QED
      BY <3>1, <3>2 DEF Answered, Book
  <2>6. CASE Upload
    BY <2>6 DEF Upload, Answered
  <2>7. ASSUME NEW r, \/ InsertRow(r) \/ DeleteRow(r)
                      \/ \E x \in Columns, v \in CellEdits : EditCell(r, x, v)
                      \/ \E x \in {"B", "C", "D"} : MoveDate(r, x)
        PROVE  Stored'
    BY <2>7, <2>4 DEF InsertRow, DeleteRow, EditCell, MoveDate
  <2> QED
    BY <2>1, <2>2, <2>3, <2>5, <2>6, <2>7 DEF BookNext
<1> QED
  BY <1>1, <1>2, PTL DEF BookSpec

\* For all exported valuations, cells written and rows moved: a file that is
\* accepted gives a document ValuationInput accepts, and a value.
THEOREM WorkbookTyping == BookSpec => []BookTypeOK
<1>1. ASSUME Stored, TypeOK PROVE BookTypeOK
  <2>1. book # None => book.digits \in {0, 3, 4} /\ book.edits \in 0..MaxEdits
    <3> SUFFICES ASSUME book # None PROVE book.digits \in {0, 3, 4}
      BY <1>1 DEF Stored
    <3>1. inputs.rounding \in Rounding
      BY <1>1, BookAssumption, InputsAssumption, InputFields DEF Stored
    <3> QED
      BY <1>1, <3>1 DEF Stored, Digits, Rounding
  <2>2. ASSUME NEW rows, NEW p, p = ParseWorkbook(rows)
        PROVE  LET told == Outcome(p)
               IN  /\ told.status \in {"ok", "error"}
                   /\ IF told.status = "ok"
                        THEN told.inputs \in ValuationInput /\ told.value \in Fraction
                        ELSE told.inputs = None
    <3>1. CASE p.inputs = None
      BY <3>1 DEF Outcome
    <3>2. CASE p.inputs # None
      <4>1. p.inputs \in ValuationInput /\ WithinCycles(p.inputs)
        BY <2>2, <3>2, ParsedDocument
      <4>2. Calculate(p.inputs).value \in Fraction
        BY <4>1, AnswerTyped DEF Calculate
      <4> QED
        BY <3>2, <4>1, <4>2 DEF Outcome
    <3> QED
      BY <3>1, <3>2
  <2> QED
    BY <1>1, <2>1, <2>2 DEF Stored, BookTypeOK
<1> QED
  BY <1>1, AlwaysStored, BookRefinesValuation, ValuationTyping, PTL

-----------------------------------------------------------------------------
(* Positions in order. *)

LEMMA MinIs ==
    ASSUME NEW S \in SUBSET Int, NEW x \in S, \A y \in S : x <= y
    PROVE  Min(S) = x
<1>1. \A z \in S : (\A y \in S : z <= y) => z = x
  OBVIOUS
<1> QED
  BY <1>1 DEF Min

\* The positions up to r, which Place counts.
UpTo(lines, r) == {q \in lines : q <= r}

LEMMA PlaceBounds ==
    ASSUME NEW lines \in SUBSET Nat, IsFiniteSet(lines), NEW r \in lines
    PROVE  Place(lines, r) \in 1..Cardinality(lines)
<1>1. UpTo(lines, r) \in SUBSET lines /\ r \in UpTo(lines, r)
  BY DEF UpTo
<1>2. /\ IsFiniteSet(UpTo(lines, r))
      /\ Cardinality(UpTo(lines, r)) <= Cardinality(lines)
  BY <1>1, FS_Subset
<1>3. Cardinality(UpTo(lines, r)) \in Nat /\ Cardinality(lines) \in Nat
  BY <1>2, FS_CardinalityType
<1>4. Cardinality(UpTo(lines, r)) # 0
  BY <1>1, <1>2, FS_EmptySet
<1> QED
  BY <1>2, <1>3, <1>4 DEF Place, UpTo

\* No two positions have one place.
LEMMA PlaceUnique ==
    ASSUME NEW lines \in SUBSET Nat, IsFiniteSet(lines), NEW r \in lines, NEW s \in lines,
           Place(lines, r) = Place(lines, s)
    PROVE  r = s
<1>0. \A q \in lines : q \in Nat
  OBVIOUS
<1>1. ASSUME NEW x \in lines, NEW y \in lines, x < y, Place(lines, x) = Place(lines, y)
      PROVE  FALSE
  <2>1. UpTo(lines, x) \in SUBSET UpTo(lines, y) /\ y \notin UpTo(lines, x) /\ y \in UpTo(lines, y)
    <3>1. x \in Nat /\ y \in Nat
      BY <1>0
    <3>2. \A q \in lines : q <= x => q <= y
      BY <1>0, <1>1, <3>1
    <3>3. ~(y <= x) /\ y <= y
      BY <1>1, <3>1
    <3> QED
      BY <3>2, <3>3 DEF UpTo
  <2>2. IsFiniteSet(UpTo(lines, y))
    BY FS_Subset DEF UpTo
  <2>3. Cardinality(UpTo(lines, y)) = Cardinality(UpTo(lines, x))
    BY <1>1 DEF Place, UpTo
  <2> QED
    BY <2>1, <2>2, <2>3, FS_Subset
<1> QED
  BY <1>0, <1>1

\* Every place is one of a position.
LEMMA PlaceTaken ==
    ASSUME NEW lines \in SUBSET Nat, IsFiniteSet(lines), NEW k \in 1..Cardinality(lines)
    PROVE  \E r \in lines : Place(lines, r) = k
<1> DEFINE Claim == {j \in Nat : j + 1 <= Cardinality(lines) =>
                        \E r \in lines : Place(lines, r) = j + 1}
<1>0. Cardinality(lines) \in Nat
  BY FS_CardinalityType
<1>1. ASSUME NEW below \in SUBSET lines, Cardinality(below) < Cardinality(lines),
             \A x \in below, y \in lines \ below : x < y
      PROVE  \E r \in lines : Place(lines, r) = Cardinality(below) + 1
  <2>1. lines \ below # {} /\ lines \ below \in SUBSET Nat
    <3>1. below # lines
      BY <1>0, <1>1
    <3> QED
      BY <3>1
  <2>2. PICK r \in lines \ below : \A y \in lines \ below : r <= y
    BY <2>1, LeastNumber
  <2>3. UpTo(lines, r) = below \cup {r}
    <3>1. \A q \in lines : q \in Nat
      OBVIOUS
    <3>2. ASSUME NEW q \in lines PROVE q <= r <=> q \in below \cup {r}
      BY <1>1, <2>2, <3>1
    <3> QED
      BY <2>2, <3>2 DEF UpTo
  <2>4. IsFiniteSet(below)
    BY FS_Subset
  <2>5. Cardinality(UpTo(lines, r)) = Cardinality(below) + 1
    BY <2>2, <2>3, <2>4, FS_AddElement
  <2> QED
    BY <2>2, <2>5 DEF Place, UpTo
<1>2. 0 \in Claim
  BY <1>0, <1>1, FS_EmptySet
<1>3. ASSUME NEW j \in Nat, j \in Claim PROVE j + 1 \in Claim
  <2> SUFFICES ASSUME (j + 1) + 1 <= Cardinality(lines)
               PROVE  \E r \in lines : Place(lines, r) = (j + 1) + 1
    OBVIOUS
  <2>1. PICK r \in lines : Place(lines, r) = j + 1
    BY <1>0, <1>3
  <2>2. UpTo(lines, r) \in SUBSET lines /\ Cardinality(UpTo(lines, r)) = j + 1
    BY <2>1 DEF UpTo, Place
  <2>3. \A x \in UpTo(lines, r), y \in lines \ UpTo(lines, r) : x < y
    BY DEF UpTo
  <2>4. Cardinality(UpTo(lines, r)) < Cardinality(lines)
    BY <1>0, <2>2
  <2> QED
    BY <1>1, <2>2, <2>3, <2>4
<1>4. k - 1 \in Claim
  <2>1. k - 1 \in Nat
    BY <1>0
  <2> HIDE DEF Claim
  <2> QED
    BY <1>2, <1>3, <2>1, AllNumbers
<1> QED
  BY <1>0, <1>4

LEMMA NthPlace ==
    ASSUME NEW lines \in SUBSET Nat, IsFiniteSet(lines)
    PROVE  /\ \A k \in 1..Cardinality(lines) : /\ Nth(lines, k) \in lines
                                               /\ Place(lines, Nth(lines, k)) = k
           /\ \A r \in lines : /\ Place(lines, r) \in 1..Cardinality(lines)
                               /\ Nth(lines, Place(lines, r)) = r
<1>1. ASSUME NEW k \in 1..Cardinality(lines)
      PROVE  Nth(lines, k) \in lines /\ Place(lines, Nth(lines, k)) = k
  BY PlaceTaken DEF Nth
<1>2. ASSUME NEW r \in lines
      PROVE  /\ Place(lines, r) \in 1..Cardinality(lines)
             /\ Nth(lines, Place(lines, r)) = r
  <2>1. Place(lines, r) \in 1..Cardinality(lines)
    BY PlaceBounds
  <2>2. /\ Nth(lines, Place(lines, r)) \in lines
        /\ Place(lines, Nth(lines, Place(lines, r))) = Place(lines, r)
    BY <1>1, <2>1
  <2> DEFINE s == Nth(lines, Place(lines, r))
  <2>3. s \in lines /\ Place(lines, s) = Place(lines, r)
    BY <2>2
  <2> HIDE DEF s
  <2>4. s = r
    BY <2>3, PlaceUnique
  <2> QED
    BY <2>1, <2>4 DEF s
<1> QED
  BY <1>1, <1>2

\* Positions that are moved, in order, keep their places.
LEMMA NthMoved ==
    ASSUME NEW lines \in SUBSET Nat, IsFiniteSet(lines), NEW to,
           \A x \in lines : to[x] \in Nat,
           \A x, y \in lines : x < y => to[x] < to[y],
           NEW moved, moved = {to[x] : x \in lines}
    PROVE  /\ moved \in SUBSET Nat /\ IsFiniteSet(moved)
           /\ Cardinality(moved) = Cardinality(lines)
           /\ \A k \in 1..Cardinality(lines) : Nth(moved, k) = to[Nth(lines, k)]
<1>1. ASSUME NEW A \in SUBSET lines, NEW B, B = {to[x] : x \in A}
      PROVE  IsFiniteSet(B) /\ Cardinality(B) = Cardinality(A)
  <2> DEFINE f == [x \in A |-> to[x]]
  <2>1. IsFiniteSet(A)
    BY FS_Subset
  <2>2. f \in [A -> B] /\ \A b \in B : \E x \in A : f[x] = b
    BY <1>1
  <2>3. \A x, y \in A : f[x] = f[y] => x = y
    <3>1. \A x \in lines : x \in Nat /\ to[x] \in Nat
      OBVIOUS
    <3>2. ASSUME NEW x \in A, NEW y \in A, to[x] = to[y] PROVE x = y
      <4>1. x \in Nat /\ y \in Nat /\ to[x] \in Nat /\ ~(x < y) /\ ~(y < x)
        BY <3>1, <3>2
      <4> QED
        BY <4>1
    <3> QED
      BY <3>2
  <2>4. f \in Surjection(A, B)
    BY <2>2 DEF Surjection
  <2>5. f \in Injection(A, B)
    BY <2>2, <2>3 DEF Injection, IsInjective
  <2> QED
    BY <2>1, <2>4, <2>5, FS_Surjection
<1>2. moved \in SUBSET Nat /\ IsFiniteSet(moved) /\ Cardinality(moved) = Cardinality(lines)
  BY <1>1
<1>3. ASSUME NEW x \in lines PROVE Place(moved, to[x]) = Place(lines, x)
  <2>1. UpTo(moved, to[x]) = {to[y] : y \in UpTo(lines, x)}
    <3>1. ASSUME NEW y \in lines PROVE to[y] <= to[x] <=> y <= x
      <4>1. x \in Nat /\ y \in Nat /\ to[x] \in Nat /\ to[y] \in Nat
        OBVIOUS
      <4> QED
        BY <4>1
    <3> QED
      BY <3>1 DEF UpTo
  <2>2. UpTo(lines, x) \in SUBSET lines
    BY DEF UpTo
  <2> QED
    BY <1>1, <2>1, <2>2 DEF Place, UpTo
<1>4. ASSUME NEW k \in 1..Cardinality(lines) PROVE Nth(moved, k) = to[Nth(lines, k)]
  <2>1. Nth(lines, k) \in lines /\ Place(lines, Nth(lines, k)) = k
    BY NthPlace
  <2>2. to[Nth(lines, k)] \in moved /\ Place(moved, to[Nth(lines, k)]) = k
    BY <1>3, <2>1
  <2> QED
    BY <1>2, <2>2, NthPlace
<1> QED
  BY <1>2, <1>4

\* The k-th of the first numbers is k.
LEMMA NthOfAll ==
    ASSUME NEW n \in Nat
    PROVE  /\ 1..n \in SUBSET Nat /\ IsFiniteSet(1..n) /\ Cardinality(1..n) = n
           /\ \A k \in 1..n : Nth(1..n, k) = k
<1>1. 1..n \in SUBSET Nat /\ IsFiniteSet(1..n) /\ Cardinality(1..n) = n
  BY FS_Interval
<1>2. ASSUME NEW k \in 1..n PROVE Place(1..n, k) = k
  <2>1. {q \in 1..n : q <= k} = 1..k
    OBVIOUS
  <2>2. Cardinality(1..k) = k
    BY FS_Interval
  <2> QED
    BY <2>1, <2>2 DEF Place
<1> QED
  BY <1>1, <1>2, NthPlace

\* A sum over chosen positions is one over the chosen.
LEMMA SumChosen ==
    ASSUME NEW lines, \A x \in lines : x \in Nat, IsFiniteSet(lines), NEW f, \A x \in lines : f[x] \in Int,
           NEW h, \A k \in 1..Cardinality(lines) : h[k] = f[Nth(lines, k)]
    PROVE  SumFunctionOnSet(h, 1..Cardinality(lines)) = SumFunctionOnSet(f, lines)
<1> DEFINE places == 1..Cardinality(lines)
           key == [x \in lines |-> Place(lines, x)]
           at == [k \in places |-> Nth(lines, k)]
<1>0. lines \in SUBSET Nat
  OBVIOUS
<1>1. IsFiniteSet(places)
  BY FS_CardinalityType, FS_Interval
<1>2. \A x \in lines : key[x] \in places
  BY <1>0, NthPlace
<1>3. \A k \in places : at[k] \in lines /\ key[at[k]] = k
  BY <1>0, NthPlace
<1>4. \A x \in lines : at[key[x]] = x
  BY <1>0, NthPlace
<1>5. \A k \in places : h[k] = f[at[k]]
  OBVIOUS
<1>6. SumFunctionOnSet(h, places) = SumFunctionOnSet(f, lines)
  <2> HIDE DEF key, at, places
  <2> QED
    BY <1>1, <1>2, <1>3, <1>4, <1>5, SumRenamed
<1> QED
  BY <1>6

-----------------------------------------------------------------------------
(* Rows. *)

\* What is in the cells of the rows the renderer writes.
LEMMA SheetRowCells ==
    ASSUME NEW label, NEW cells
    PROVE  /\ SheetRow(label, cells).label = label
           /\ \A x \in Columns : SheetRow(label, cells).cells[x] =
                                    IF x \in DOMAIN cells THEN cells[x] ELSE None
BY DEF SheetRow

LEMMA BlankCells == Blank.label = "" /\ \A x \in Columns : Blank.cells[x] = None
<1>1. DOMAIN NoCells = {}
  BY DEF NoCells
<1> QED
  BY <1>1 DEF Blank, SheetRow

\* A number is read as it is, and nothing as nothing.
LEMMA NumbersRead ==
    /\ \A n \in Int : ReadDecimal(n) = n /\ ReadPct(n) = n /\ n # None /\ n \notin Words
    /\ ReadDecimal(None) = None /\ ReadPct(None) = None /\ None \notin Words
    /\ ReadDecimal(Text) = None /\ ReadPct(Text) = None /\ Text # None
BY BookAssumption, WordsAssumption DEF ReadDecimal, ReadPct

\* int() of a whole number is the number.
LEMMA TruncatedWhole == \A n \in Nat : Truncated(n * Unit) = n
<1> SUFFICES ASSUME NEW n \in Nat PROVE Truncated(n * Unit) = n
  OBVIOUS
<1>1. \A u \in Nat \ {0} : (n * u) \div u = n /\ n * u >= 0
  OBVIOUS
<1> QED
  BY <1>1, BoundAssumption DEF Truncated

\* The rows the renderer writes of lines whose figures floating point has.
ExactRow(t) ==
    SheetRow("", [B |-> Text, C |-> IF t.pct = 0 THEN None ELSE t.pct, E |-> t.expiry,
              F |-> t.area, G |-> t.rent])
ExactBays(p) == SheetRow("", [E |-> Text, F |-> p.bays * Unit, G |-> p.rate])

LEMMA TenantRowCells ==
    ASSUME NEW t
    PROVE  /\ ExactRow(t).label = ""
           /\ ExactRow(t).cells["B"] = Text
           /\ ExactRow(t).cells["C"] = IF t.pct = 0 THEN None ELSE t.pct
           /\ ExactRow(t).cells["E"] = t.expiry
           /\ ExactRow(t).cells["F"] = t.area
           /\ ExactRow(t).cells["G"] = t.rent
           /\ ExactRow(t).cells["H"] = None
           /\ ExactRow(t).cells["I"] = None
<1> DEFINE cells == [B |-> Text, C |-> IF t.pct = 0 THEN None ELSE t.pct, E |-> t.expiry,
                     F |-> t.area, G |-> t.rent]
<1>1. ExactRow(t) = SheetRow("", cells)
  BY DEF ExactRow
<1>2. /\ DOMAIN cells = {"B", "C", "E", "F", "G"} /\ cells["B"] = Text
      /\ cells["C"] = (IF t.pct = 0 THEN None ELSE t.pct)
      /\ cells["E"] = t.expiry /\ cells["F"] = t.area /\ cells["G"] = t.rent
  OBVIOUS
<1> HIDE DEF cells
<1>3. /\ SheetRow("", cells).label = ""
      /\ \A x \in Columns : SheetRow("", cells).cells[x] = IF x \in DOMAIN cells THEN cells[x] ELSE None
  BY DEF SheetRow
<1>4. /\ ExactRow(t).label = ""
      /\ \A x \in Columns : ExactRow(t).cells[x] = IF x \in DOMAIN cells THEN cells[x] ELSE None
  BY <1>1, <1>3
<1> QED
  BY <1>2, <1>4 DEF Columns

LEMMA ParkingRowCells ==
    ASSUME NEW p
    PROVE  /\ ExactBays(p).label = ""
           /\ ExactBays(p).cells["F"] = p.bays * Unit
           /\ ExactBays(p).cells["G"] = p.rate
           /\ ExactBays(p).cells["E"] = Text
           /\ \A x \in {"B", "C", "D", "H", "I"} : ExactBays(p).cells[x] = None
<1> DEFINE cells == [E |-> Text, F |-> p.bays * Unit, G |-> p.rate]
<1>1. ExactBays(p) = SheetRow("", cells)
  BY DEF ExactBays
<1>2. /\ DOMAIN cells = {"E", "F", "G"}
      /\ cells["E"] = Text /\ cells["F"] = p.bays * Unit /\ cells["G"] = p.rate
  OBVIOUS
<1> HIDE DEF cells
<1>3. /\ SheetRow("", cells).label = ""
      /\ \A x \in Columns : SheetRow("", cells).cells[x] = IF x \in DOMAIN cells THEN cells[x] ELSE None
  BY DEF SheetRow
<1>4. /\ ExactBays(p).label = ""
      /\ \A x \in Columns : ExactBays(p).cells[x] = IF x \in DOMAIN cells THEN cells[x] ELSE None
  BY <1>1, <1>3
<1> QED
  BY <1>2, <1>4 DEF Columns

\* A tenant without its dates.
LEMMA TenantDated ==
    ASSUME NEW t \in Tenant
    PROVE  [t EXCEPT !.next = None, !.expiry = None] =
             [area |-> t.area, rent |-> t.rent, pct |-> t.pct, next |-> None, expiry |-> None]
<1> DEFINE mid == [area |-> t.area, rent |-> t.rent, pct |-> t.pct, next |-> None,
                   expiry |-> t.expiry]
<1>1. t = [area |-> t.area, rent |-> t.rent, pct |-> t.pct, next |-> t.next, expiry |-> t.expiry]
  BY DEF Tenant
<1>2. [t EXCEPT !.next = None] = mid
  BY <1>1
<1>3. [mid EXCEPT !.expiry = None] =
        [area |-> t.area, rent |-> t.rent, pct |-> t.pct, next |-> None, expiry |-> None]
  OBVIOUS
<1>4. [t EXCEPT !.next = None, !.expiry = None] = [[t EXCEPT !.next = None] EXCEPT !.expiry = None]
  OBVIOUS
<1> HIDE DEF mid
<1>5. [[t EXCEPT !.next = None] EXCEPT !.expiry = None] = [mid EXCEPT !.expiry = None]
  BY <1>2
<1> QED
  BY <1>3, <1>4, <1>5

\* The parser takes a tenant's row for one, a row of parking if it has bays,
\* and a blank row for neither.
LEMMA LinesAreTold ==
    /\ \A t \in Tenant : /\ IsTenantLine(ExactRow(t)) /\ ExactRow(t) # Blank
                         /\ TenantOf(ExactRow(t)) = [t EXCEPT !.next = None, !.expiry = None]
    /\ \A p \in Parking : /\ ExactBays(p) # Blank
                          /\ IsParkingLine(ExactBays(p)) <=> p.bays # 0
                          /\ ParkingOf(ExactBays(p)) = p
    /\ ~IsTenantLine(Blank) /\ ~IsParkingLine(Blank)
<1>2. ASSUME NEW t \in Tenant
      PROVE  /\ IsTenantLine(ExactRow(t)) /\ ExactRow(t) # Blank
             /\ TenantOf(ExactRow(t)) = [t EXCEPT !.next = None, !.expiry = None]
  <2>1. t.area \in Nat /\ t.area > 0 /\ t.rent \in Nat /\ t.pct \in Nat
    BY DEF Tenant
  <2>0. ReadDecimal(t.area) = t.area /\ ReadDecimal(t.rent) = t.rent /\ ReadPct(t.pct) = t.pct
        /\ t.area # None /\ t.rent # None /\ t.pct # None
    <3>1. t.area \in Int /\ t.rent \in Int /\ t.pct \in Int
      BY <2>1
    <3> QED
      BY <3>1, NumbersRead
  <2>2. Figure(ExactRow(t), "F") = t.area /\ Figure(ExactRow(t), "G") = t.rent
    <3>1. ExactRow(t).cells["F"] = t.area /\ ExactRow(t).cells["G"] = t.rent
      BY TenantRowCells
    <3> QED
      BY <2>0, <3>1, Zenon DEF Figure
  <2>3. IsTenantLine(ExactRow(t))
    BY <2>0, <2>1, <2>2 DEF IsTenantLine, TwoNumbers
  <2>4. ExactRow(t) # Blank
    <3>1. ExactRow(t).cells["B"] # Blank.cells["B"]
      BY TenantRowCells, BlankCells, NumbersRead DEF Columns
    <3> QED
      BY <3>1
  <2>5. (IF ReadPct(ExactRow(t).cells["C"]) = None THEN 0 ELSE ReadPct(ExactRow(t).cells["C"])) = t.pct
    <3>1. ExactRow(t).cells["C"] = IF t.pct = 0 THEN None ELSE t.pct
      BY TenantRowCells
    <3>2. ReadPct(None) = None
      BY NumbersRead
    <3> HIDE DEF ExactRow
    <3>3. CASE t.pct = 0
      BY <3>1, <3>2, <3>3
    <3>4. CASE t.pct # 0
      BY <2>0, <3>1, <3>4
    <3> QED
      BY <3>3, <3>4
  <2>6. TenantOf(ExactRow(t)) =
          [area |-> t.area, rent |-> t.rent, pct |-> t.pct, next |-> None, expiry |-> None]
    BY <2>2, <2>5 DEF TenantOf
  <2>7. [t EXCEPT !.next = None, !.expiry = None] =
          [area |-> t.area, rent |-> t.rent, pct |-> t.pct, next |-> None, expiry |-> None]
    BY TenantDated
  <2> QED
    BY <2>3, <2>4, <2>6, <2>7
<1>3. ASSUME NEW p \in Parking
      PROVE  /\ ExactBays(p) # Blank /\ (IsParkingLine(ExactBays(p)) <=> p.bays # 0)
             /\ ParkingOf(ExactBays(p)) = p
  <2>1. p.bays \in Nat /\ p.rate \in Nat /\ p = [bays |-> p.bays, rate |-> p.rate]
    BY DEF Parking
  <2>2. p.bays * Unit \in Nat /\ (p.bays * Unit = 0 <=> p.bays = 0)
    <3>1. \A x \in Nat : \A u \in Nat \ {0} : x * u \in Nat /\ (x * u = 0 <=> x = 0)
      OBVIOUS
    <3> QED
      BY <2>1, <3>1, BoundAssumption
  <2>3. /\ Figure(ExactBays(p), "F") = p.bays * Unit /\ Figure(ExactBays(p), "G") = p.rate
        /\ p.bays * Unit # None /\ p.rate # None
    <3>1. p.bays * Unit \in Int /\ p.rate \in Int
      BY <2>1, <2>2
    <3> DEFINE f == p.bays * Unit
               g == p.rate
    <3>2. ExactBays(p).cells["F"] = f /\ ExactBays(p).cells["G"] = g
      BY ParkingRowCells
    <3> HIDE DEF f, g
    <3>3. f \in Int /\ g \in Int
      BY <3>1 DEF f, g
    <3>4. ReadDecimal(f) = f /\ ReadDecimal(g) = g /\ f # None /\ g # None
      BY <3>3, NumbersRead
    <3>5. Figure(ExactBays(p), "F") = f /\ Figure(ExactBays(p), "G") = g
      BY <3>2, <3>4, Zenon DEF Figure
    <3> QED
      BY <3>4, <3>5 DEF f, g
  <2>4. IsParkingLine(ExactBays(p)) <=> p.bays # 0
    BY <2>2, <2>3 DEF IsParkingLine, TwoNumbers
  <2>5. ParkingOf(ExactBays(p)) = p
    BY <2>1, <2>3, TruncatedWhole DEF ParkingOf
  <2>6. ExactBays(p) # Blank
    <3>1. ExactBays(p).cells["E"] # Blank.cells["E"]
      BY ParkingRowCells, BlankCells, NumbersRead DEF Columns
    <3> QED
      BY <3>1
  <2> QED
    BY <2>4, <2>5, <2>6
<1>4. ~IsTenantLine(Blank) /\ ~IsParkingLine(Blank)
  BY BlankCells, NumbersRead DEF IsTenantLine, IsParkingLine, TwoNumbers, Figure, Columns
<1> QED
  BY <1>2, <1>3, <1>4

\* The date is looked for in column E first.
LEMMA DateFirst ==
    ASSUME NEW rows, CellOf(rows, "date", 1, "E") \in Dates
    PROVE  ReadDate(rows) = CellOf(rows, "date", 1, "E")
<1> DEFINE cell(k) == CellOf(rows, "date", 1, <<"E", "D", "C", "B">>[k])
           found == {k \in 1..4 : cell(k) \in Dates}
<1>1. cell(1) = CellOf(rows, "date", 1, "E")
  OBVIOUS
<1>2. ReadDate(rows) = IF found = {} THEN None ELSE cell(Min(found))
  BY DEF ReadDate
<1> HIDE DEF cell
<1>3. found \in SUBSET Int /\ 1 \in found /\ \A k \in found : 1 <= k
  BY <1>1
<1> HIDE DEF found
<1>4. found # {} /\ Min(found) = 1
  BY <1>3, MinIs
<1> QED
  BY <1>1, <1>2, <1>4

\* A label is found on the first row that has it.
LEMMA LabelFound ==
    ASSUME NEW rows, NEW label, Len(rows) \in Nat, NEW start \in Nat, NEW x \in start..Len(rows),
           rows[x].label = label,
           \A r \in start..Len(rows) : rows[r].label = label => x <= r
    PROVE  FindLabelRow(rows, label, start) = x
<1> DEFINE found == {r \in start..Len(rows) : rows[r].label = label}
<1>1. found \in SUBSET Int /\ x \in found /\ \A r \in found : x <= r
  OBVIOUS
<1> HIDE DEF found
<1>2. found # {} /\ Min(found) = x
  BY <1>1, MinIs
<1> QED
  BY <1>2 DEF FindLabelRow, found

\* So is the end of a section.
EndsAt(rows, first, r) ==
    \/ rows[r].label = "sub total"
    \/ r > first /\ rows[r] = Blank /\ rows[r - 1] = Blank

LEMMA EndFound ==
    ASSUME NEW rows, Len(rows) \in Nat, NEW first \in Nat \ {0}, NEW x \in first..Len(rows),
           EndsAt(rows, first, x), \A r \in first..(x - 1) : ~EndsAt(rows, first, r)
    PROVE  /\ SectionEnd(rows, first) = x
           /\ SectionLines(rows, first) = first..(x - 1)
<1> DEFINE ends == {r \in first..Len(rows) : EndsAt(rows, first, r)}
<1>1. ends \in SUBSET Int /\ x \in ends
  OBVIOUS
<1>2. ASSUME NEW r \in ends PROVE x <= r
  OBVIOUS
<1>3. SectionEnd(rows, first) = IF ends = {} THEN 0 ELSE Min(ends)
  BY DEF SectionEnd, EndsAt
<1> HIDE DEF ends
<1>4. ends # {} /\ Min(ends) = x
  BY <1>1, <1>2, MinIs
<1>5. SectionEnd(rows, first) = x
  BY <1>3, <1>4
<1>6. ~(first > Len(rows)) /\ x # 0
  OBVIOUS
<1>7. SectionLines(rows, first) = first..(x - 1)
  BY <1>5, <1>6 DEF SectionLines
<1> QED
  BY <1>5, <1>7

-----------------------------------------------------------------------------
(* What a file keeps. *)

\* What is read again of a document whose figures floating point has.
Reread(i) ==
    [date |-> i.date,
     tenants |-> [k \in DOMAIN i.tenants |-> [i.tenants[k] EXCEPT !.next = None, !.expiry = None]],
     parking |-> Chosen(i.parking, WithBays(i.parking)), opex |-> i.opex,
     vacancy |-> i.vacancy, cap |-> i.cap, rounding |-> "nearest_10000"]

LEMMA KeptFields ==
    ASSUME NEW i
    PROVE  /\ Reread(i).date = i.date /\ Reread(i).opex = i.opex
           /\ Reread(i).vacancy = i.vacancy /\ Reread(i).cap = i.cap
           /\ Reread(i).rounding = "nearest_10000"
           /\ Reread(i).parking = Chosen(i.parking, WithBays(i.parking))
           /\ Reread(i).tenants = [k \in DOMAIN i.tenants |->
                                     [i.tenants[k] EXCEPT !.next = None, !.expiry = None]]
           /\ Reread(i) = [date |-> Reread(i).date, tenants |-> Reread(i).tenants,
                           parking |-> Reread(i).parking, opex |-> Reread(i).opex,
                           vacancy |-> Reread(i).vacancy, cap |-> Reread(i).cap,
                           rounding |-> Reread(i).rounding]
BY DEF Reread

\* The rows at some of the numbers A of a list 1..n, where the k-th of the list
\* is on row at[k].
Places(at, A) == {at[k] : k \in A}

InOrder(at, A, n) ==
    /\ n \in Nat /\ A \subseteq 1..n
    /\ \A k \in A : at[k] \in Nat
    /\ \A k, l \in A : k < l => at[k] < at[l]

LEMMA ChosenLines ==
    ASSUME NEW rows, NEW n, NEW A, NEW at, InOrder(at, A, n)
    PROVE  /\ Cardinality(A) \in Nat
           /\ DOMAIN Chosen(rows, Places(at, A)) = 1..Cardinality(A)
           /\ \A k \in 1..Cardinality(A) :
                 /\ Nth(A, k) \in A
                 /\ Chosen(rows, Places(at, A))[k] = rows[at[Nth(A, k)]]
<1> DEFINE lines == Places(at, A)
<1>0. lines = {at[k] : k \in A}
  BY DEF Places
<1> HIDE DEF lines
<1>1. A \in SUBSET Nat /\ IsFiniteSet(A)
  <2>1. n \in Nat /\ A \subseteq 1..n
    BY DEF InOrder
  <2>2. IsFiniteSet(1..n) /\ \A k \in 1..n : k \in Nat
    BY <2>1, FS_Interval
  <2> QED
    BY <2>1, <2>2, FS_Subset
<1>2. Cardinality(A) \in Nat
  BY <1>1, FS_CardinalityType
<1>3. Cardinality(lines) = Cardinality(A) /\ \A k \in 1..Cardinality(A) : Nth(lines, k) = at[Nth(A, k)]
  <2>1. (\A k \in A : at[k] \in Nat) /\ \A k, l \in A : k < l => at[k] < at[l]
    BY DEF InOrder
  <2> QED
    BY <1>0, <1>1, <2>1, NthMoved
<1>4. \A k \in 1..Cardinality(A) : Nth(A, k) \in A
  BY <1>1, NthPlace
<1> QED
  BY <1>2, <1>3, <1>4 DEF Chosen, lines

LEMMA BaysKept ==
    ASSUME NEW i \in ValuationInput
    PROVE  /\ Cardinality(WithBays(i.parking)) \in Nat
           /\ \A k \in 1..Cardinality(WithBays(i.parking)) :
                 Nth(WithBays(i.parking), k) \in WithBays(i.parking)
           /\ Chosen(i.parking, WithBays(i.parking)) \in Seq(Parking)
           /\ \A k \in DOMAIN Chosen(i.parking, WithBays(i.parking)) :
                 Chosen(i.parking, WithBays(i.parking))[k].bays # 0
<1> DEFINE A == WithBays(i.parking)
           n == Len(i.parking)
<1>1. n \in Nat /\ DOMAIN i.parking = 1..n /\ \A k \in 1..n : i.parking[k] \in Parking
  BY InputFields
<1>2. A \subseteq 1..n /\ \A k \in A : i.parking[k].bays # 0
  BY <1>1 DEF WithBays
<1>3. A \in SUBSET Nat /\ IsFiniteSet(A)
  <2>1. IsFiniteSet(1..n) /\ \A k \in 1..n : k \in Nat
    BY <1>1, FS_Interval
  <2> QED
    BY <1>2, <2>1, FS_Subset
<1> HIDE DEF A, n
<1>4. Cardinality(A) \in Nat /\ \A k \in 1..Cardinality(A) : Nth(A, k) \in A
  BY <1>3, NthPlace, FS_CardinalityType
<1>5. \A k \in 1..Cardinality(A) : /\ Chosen(i.parking, A)[k] \in Parking
                                   /\ Chosen(i.parking, A)[k].bays # 0
  BY <1>1, <1>2, <1>4 DEF Chosen
<1>6. Chosen(i.parking, A) = [k \in 1..Cardinality(A) |-> Chosen(i.parking, A)[k]]
  BY DEF Chosen
<1>7. Chosen(i.parking, A) \in Seq(Parking)
  BY <1>4, <1>5, <1>6
<1> QED
  BY <1>4, <1>5, <1>6, <1>7 DEF A

\* What a file keeps is a document again, and keeps all of itself.
LEMMA KeptIsInput ==
    ASSUME NEW i \in ValuationInput
    PROVE  /\ Reread(i) \in ValuationInput
           /\ \A k \in DOMAIN Reread(i).tenants : /\ Reread(i).tenants[k].next = None
                                                /\ Reread(i).tenants[k].expiry = None
<1> DEFINE tenants == [k \in DOMAIN i.tenants |->
                         [i.tenants[k] EXCEPT !.next = None, !.expiry = None]]
           n == Len(i.tenants)
<1>1. n \in Nat /\ n # 0 /\ DOMAIN i.tenants = 1..n /\ \A k \in 1..n : i.tenants[k] \in Tenant
  BY InputFields
<1>2. \A k \in 1..n : TenantOf(ExactRow(i.tenants[k])) = tenants[k]
  BY <1>1, LinesAreTold
<1>3. \A k \in 1..n : tenants[k] \in Tenant /\ tenants[k].next = None /\ tenants[k].expiry = None
  <2> HIDE DEF tenants, n
  <2> SUFFICES ASSUME NEW t \in Tenant
               PROVE  /\ TenantOf(ExactRow(t)) \in Tenant
                      /\ TenantOf(ExactRow(t)).next = None /\ TenantOf(ExactRow(t)).expiry = None
    BY <1>1, <1>2, ZenonT(30)
  <2>1. t.area \in Nat \ {0} /\ t.rent \in Nat /\ t.pct \in Nat
    BY DEF Tenant
  <2>2. TenantOf(ExactRow(t)) = [t EXCEPT !.next = None, !.expiry = None]
    BY LinesAreTold
  <2> QED
    BY <2>1, <2>2 DEF Tenant
<1>4. tenants = [k \in 1..n |-> tenants[k]]
  BY <1>1
<1> HIDE DEF tenants, n
<1>5. tenants \in Seq(Tenant) /\ DOMAIN tenants = 1..n /\ tenants # << >>
  BY <1>1, <1>3, <1>4
<1>6. Chosen(i.parking, WithBays(i.parking)) \in Seq(Parking)
  BY BaysKept
<1> DEFINE parking == Chosen(i.parking, WithBays(i.parking))
<1>7. Reread(i) = [date |-> i.date, tenants |-> tenants, parking |-> parking, opex |-> i.opex,
                 vacancy |-> i.vacancy, cap |-> i.cap, rounding |-> "nearest_10000"]
  BY DEF Reread, tenants
<1>8. parking \in Seq(Parking)
  BY <1>6
<1>9. /\ i.date \in Dates /\ i.opex \in Nat /\ i.vacancy \in 0..Unit /\ i.cap \in Nat \ {0}
      /\ "nearest_10000" \in Rounding
  BY InputFields DEF Rounding
<1> HIDE DEF parking
<1>10. Reread(i) \in ValuationInput
  BY <1>5, <1>7, <1>8, <1>9 DEF ValuationInput
<1>11. Reread(i).tenants = tenants
  BY <1>7
<1> QED
  BY <1>3, <1>5, <1>10, <1>11

\* What has nothing to lose is kept as it is.
LEMMA KeptAll ==
    ASSUME NEW j \in ValuationInput, j.rounding = "nearest_10000",
           \A k \in DOMAIN j.tenants : j.tenants[k].next = None /\ j.tenants[k].expiry = None,
           \A k \in DOMAIN j.parking : j.parking[k].bays # 0
    PROVE  Reread(j) = j
<1> DEFINE tenants == [k \in DOMAIN j.tenants |->
                         [j.tenants[k] EXCEPT !.next = None, !.expiry = None]]
           n == Len(j.parking)
<1>1. /\ DOMAIN j.tenants = 1..Len(j.tenants)
      /\ \A k \in DOMAIN j.tenants : j.tenants[k] \in Tenant
      /\ j.tenants = [k \in DOMAIN j.tenants |-> j.tenants[k]]
      /\ n \in Nat /\ DOMAIN j.parking = 1..n /\ j.parking = [k \in 1..n |-> j.parking[k]]
  BY InputFields
<1>2. tenants = j.tenants
  <2>1. ASSUME NEW t \in Tenant, t.next = None, t.expiry = None
        PROVE  [t EXCEPT !.next = None, !.expiry = None] = t
    BY <2>1 DEF Tenant
  <2>2. \A k \in DOMAIN j.tenants : tenants[k] = j.tenants[k]
    BY <1>1, <2>1
  <2> QED
    BY <1>1, <2>2
<1>3. WithBays(j.parking) = 1..n
  BY <1>1 DEF WithBays
<1>4. Chosen(j.parking, 1..n) = j.parking
  BY <1>1, NthOfAll DEF Chosen
<1>5. j = [date |-> j.date, tenants |-> j.tenants, parking |-> j.parking, opex |-> j.opex,
           vacancy |-> j.vacancy, cap |-> j.cap, rounding |-> j.rounding]
  BY DEF ValuationInput
<1> QED
  BY <1>2, <1>3, <1>4, <1>5 DEF Reread

-----------------------------------------------------------------------------
(* A sheet that is laid out as the renderer lays it out, with one row at most  *)
(* put in: L says on which rows the labels are, t and p where the tenants      *)
(* and the rows of parking are.                                                *)

Ordered(L, last) ==
    /\ L.date \in Nat /\ L.tenants \in Nat /\ L.end \in Nat /\ L.parking \in Nat
    /\ L.close \in Nat /\ L.opex \in Nat /\ L.total \in Nat /\ L.vacancy \in Nat
    /\ L.cap \in Nat /\ L.value \in Nat /\ last \in Nat
    /\ 1 <= L.date /\ L.date < L.tenants /\ L.tenants < L.end /\ L.end < L.parking
    /\ L.parking + 2 < L.close /\ L.close < L.opex /\ L.opex < L.total
    /\ L.total < L.vacancy /\ L.vacancy < L.cap /\ L.cap < L.value /\ L.value <= last

Labelled(rows, L) ==
    \A r \in 1..Len(rows) :
        /\ rows[r].label = "date" <=> r = L.date
        /\ rows[r].label = "tenants" <=> r = L.tenants
        /\ rows[r].label = "sub total" <=> r = L.end \/ r = L.close \/ r = L.total
        /\ rows[r].label = "parking" <=> r = L.parking
        /\ rows[r].label = "operating expenses" <=> r = L.opex
        /\ rows[r].label = "vacancy allowance" <=> r = L.vacancy
        /\ rows[r].label = "capitalised" <=> r = L.cap
        /\ rows[r].label = "open market assessment" <=> r = L.value

Written(rows, i, sheet, L) ==
    /\ rows[L.date].cells["E"] = i.date /\ rows[L.tenants].cells["F"] = Text
    /\ rows[L.total].cells["E"] = i.opex /\ rows[L.vacancy].cells["H"] = i.vacancy
    /\ rows[L.cap].cells["H"] = i.cap /\ rows[L.value].cells["I"] = sheet

\* No line below the first of a section ends it for being the second of two
\* blank ones.
NoTwoBlanks(rows, first, end) ==
    \A r \in first..(end - 1) : ~(r > first /\ rows[r] = Blank /\ rows[r - 1] = Blank)

TenantsAt(rows, i, L, t) ==
    /\ \A k \in DOMAIN i.tenants : /\ t[k] \in (L.tenants + 1)..(L.end - 1)
                                   /\ rows[t[k]] = ExactRow(i.tenants[k])
    /\ \A k, l \in DOMAIN i.tenants : k < l => t[k] < t[l]
    /\ \A r \in (L.tenants + 1)..(L.end - 1) :
          rows[r] = Blank \/ \E k \in DOMAIN i.tenants : t[k] = r
    /\ NoTwoBlanks(rows, L.tenants + 1, L.end)

ParkingAt(rows, i, L, p) ==
    /\ \A k \in DOMAIN i.parking : /\ p[k] \in (L.parking + 2)..(L.close - 1)
                                   /\ rows[p[k]] = ExactBays(i.parking[k])
    /\ \A k, l \in DOMAIN i.parking : k < l => p[k] < p[l]
    /\ \A r \in (L.parking + 2)..(L.close - 1) :
          rows[r] = Blank \/ \E k \in DOMAIN i.parking : p[k] = r
    /\ i.parking = << >> \/ NoTwoBlanks(rows, L.parking + 2, L.close)

LaidOut(rows, i, sheet, L, t, p) ==
    /\ Ordered(L, Len(rows)) /\ DOMAIN rows = 1..Len(rows)
    /\ Labelled(rows, L)
    /\ Written(rows, i, sheet, L)
    /\ TenantsAt(rows, i, L, t)
    /\ ParkingAt(rows, i, L, p)

\* The header and the lines of the tenants are read.
LEMMA TenantsRead ==
    ASSUME NEW i \in ValuationInput, NEW rows, NEW sheet, NEW L, NEW t, NEW p,
           LaidOut(rows, i, sheet, L, t, p)
    PROVE  /\ FindTenantHeader(rows) = L.tenants
           /\ ReadTenants(rows) = [lines |-> Reread(i).tenants, last |-> L.end]
<1> DEFINE h == L.tenants
           e == L.end
           n == Len(i.tenants)
           last == Len(rows)
<1>1. /\ h \in Nat /\ e \in Nat /\ last \in Nat /\ 1 <= h /\ h < e /\ e < last
      /\ DOMAIN rows = 1..last
  <2>1. Ordered(L, last)
    BY DEF LaidOut
  <2>2. h \in Nat /\ e \in Nat /\ last \in Nat
    BY <2>1 DEF Ordered
  <2>3. 1 <= h /\ h < e
    BY <2>1 DEF Ordered
  <2>4. e < last
    BY <2>1, SMTT(30) DEF Ordered
  <2> QED
    BY <2>2, <2>3, <2>4 DEF LaidOut
<1>2. \A r \in 1..last : rows[r].label = "tenants" <=> r = h
  BY DEF LaidOut, Labelled
<1>3. rows[e].label = "sub total" /\ \A r \in (h + 1)..(e - 1) : rows[r].label # "sub total"
  <2>1. \A r \in 1..last : rows[r].label = "sub total" <=> r = e \/ r = L.close \/ r = L.total
    BY DEF LaidOut, Labelled
  <2>2. e < L.close /\ e < L.total /\ L.close \in Nat /\ L.total \in Nat
    BY SMTT(30) DEF LaidOut, Ordered
  <2> HIDE DEF h, e, last
  <2>3. e \in 1..last
    BY <1>1
  <2>4. ASSUME NEW r \in (h + 1)..(e - 1) PROVE r \in 1..last /\ r # e /\ r # L.close /\ r # L.total
    BY <1>1, <2>2
  <2> QED
    BY <2>1, <2>3, <2>4
<1>4. n \in Nat /\ n # 0 /\ DOMAIN i.tenants = 1..n
  BY InputFields
<1>5. \A k \in 1..n : i.tenants[k] \in Tenant
  BY InputFields
<1>6. TenantsAt(rows, i, L, t)
  BY DEF LaidOut
<1>7. \A k \in 1..n : t[k] \in (h + 1)..(e - 1)
  BY <1>4, <1>6 DEF TenantsAt
<1>8. \A k \in 1..n : rows[t[k]] = ExactRow(i.tenants[k])
  BY <1>4, <1>6 DEF TenantsAt
<1>9. \A k, l \in 1..n : k < l => t[k] < t[l]
  BY <1>4, <1>6 DEF TenantsAt
<1>10. \A r \in (h + 1)..(e - 1) : rows[r] = Blank \/ \E k \in 1..n : t[k] = r
  BY <1>4, <1>6 DEF TenantsAt
<1>11. NoTwoBlanks(rows, h + 1, e)
  BY <1>6 DEF TenantsAt
<1>12. rows[h].cells["F"] = Text
  BY DEF LaidOut, Written
<1> HIDE DEF h, e, n, last
<1>13. FindTenantHeader(rows) = h
  <2> DEFINE found == {r \in DOMAIN rows : rows[r].label = "tenants" /\ rows[r].cells["F"] = Text}
             it == {h}
  <2>1. h \in 1..last
    BY <1>1
  <2>2. found = it
    BY <1>1, <1>2, <1>12, <2>1
  <2>3. FindTenantHeader(rows) = IF found = {} THEN 0 ELSE Min(found)
    BY DEF FindTenantHeader
  <2>4. it \in SUBSET Int /\ h \in it /\ \A y \in it : h <= y
    BY <1>1
  <2> HIDE DEF found, it
  <2>5. Min(it) = h /\ it # {}
    BY <2>4, MinIs
  <2> QED
    BY <2>2, <2>3, <2>5
<1>14. SectionEnd(rows, h + 1) = e /\ SectionLines(rows, h + 1) = (h + 1)..(e - 1)
  <2>1. EndsAt(rows, h + 1, e)
    BY <1>3 DEF EndsAt
  <2>2. h + 1 \in Nat \ {0} /\ e \in (h + 1)..Len(rows) /\ Len(rows) \in Nat
    BY <1>1 DEF last
  <2>3. \A r \in (h + 1)..(e - 1) : ~EndsAt(rows, h + 1, r)
    BY <1>3, <1>11 DEF EndsAt, NoTwoBlanks
  <2> QED
    BY <2>1, <2>2, <2>3, EndFound
<1>15. \A k \in 1..n : /\ IsTenantLine(ExactRow(i.tenants[k]))
                       /\ TenantOf(ExactRow(i.tenants[k])) =
                            [i.tenants[k] EXCEPT !.next = None, !.expiry = None]
  <2>1. \A x \in Tenant : /\ IsTenantLine(ExactRow(x))
                          /\ TenantOf(ExactRow(x)) = [x EXCEPT !.next = None, !.expiry = None]
    BY LinesAreTold
  <2> QED
    BY <1>5, <2>1
<1>16. {r \in (h + 1)..(e - 1) : IsTenantLine(rows[r])} = Places(t, 1..n)
  <2>1. \A k \in 1..n : IsTenantLine(rows[t[k]])
    BY <1>8, <1>15
  <2>2. ~IsTenantLine(Blank)
    BY LinesAreTold
  <2>3. \A r \in (h + 1)..(e - 1) : IsTenantLine(rows[r]) => \E k \in 1..n : t[k] = r
    BY <1>10, <2>2
  <2> QED
    BY <1>7, <2>1, <2>3 DEF Places
<1> DEFINE lines == Chosen(rows, {r \in SectionLines(rows, h + 1) : IsTenantLine(rows[r])})
<1>17. DOMAIN lines = 1..n /\ \A k \in 1..n : lines[k] = ExactRow(i.tenants[k])
  <2> DEFINE A == 1..n
  <2>1. \A k \in A : t[k] \in Nat
    BY <1>1, <1>7
  <2>2. A \subseteq 1..n /\ \A k, l \in A : k < l => t[k] < t[l]
    BY <1>9
  <2>3. Cardinality(A) = n /\ \A k \in 1..n : Nth(A, k) = k
    BY <1>4, NthOfAll
  <2>4. lines = Chosen(rows, Places(t, A))
    BY <1>14, <1>16
  <2>5. /\ Cardinality(A) \in Nat
        /\ DOMAIN Chosen(rows, Places(t, A)) = 1..Cardinality(A)
        /\ \A k \in 1..Cardinality(A) :
              /\ Nth(A, k) \in A
              /\ Chosen(rows, Places(t, A))[k] = rows[t[Nth(A, k)]]
    <3>1. A \subseteq 1..n
      OBVIOUS
    <3>2. \A k, l \in A : k < l => t[k] < t[l]
      BY <2>2
    <3>3. InOrder(t, A, n)
      BY <1>4, <2>1, <3>1, <3>2 DEF InOrder
    <3> HIDE DEF A, lines
    <3> QED
      BY <3>3, ChosenLines
  <2> HIDE DEF A, lines
  <2> QED
    BY <1>8, <2>3, <2>4, <2>5
<1> HIDE DEF lines
<1>18. ReadTenants(rows).lines = [k \in DOMAIN lines |-> TenantOf(lines[k])]
  BY <1>13 DEF ReadTenants, lines
<1>19. ReadTenants(rows).last = e
  <2>1. e # 0
    BY <1>1
  <2> QED
    BY <1>13, <1>14, <2>1 DEF ReadTenants, AfterSection
<1>20. Reread(i).tenants = [k \in 1..n |-> [i.tenants[k] EXCEPT !.next = None, !.expiry = None]]
  <2>1. Reread(i).tenants = [k \in DOMAIN i.tenants |->
                             [i.tenants[k] EXCEPT !.next = None, !.expiry = None]]
    BY KeptFields
  <2> QED
    BY <1>4, <2>1
<1>21. ReadTenants(rows).lines = Reread(i).tenants
  <2>1. \A k \in 1..n : TenantOf(lines[k]) = [i.tenants[k] EXCEPT !.next = None, !.expiry = None]
    BY <1>15, <1>17
  <2> QED
    BY <1>17, <1>18, <1>20, <2>1
<1>22. ReadTenants(rows) = [lines |-> ReadTenants(rows).lines, last |-> ReadTenants(rows).last]
  BY DEF ReadTenants
<1> QED
  BY <1>13, <1>19, <1>21, <1>22 DEF h, e

\* The rows of parking are read, and the search goes on below the label.
LEMMA ParkingRead ==
    ASSUME NEW i \in ValuationInput, NEW rows, NEW sheet, NEW L, NEW t, NEW p,
           LaidOut(rows, i, sheet, L, t, p)
    PROVE  /\ ReadParking(rows, L.end).lines = Reread(i).parking
           /\ ReadParking(rows, L.end).last \in L.parking..L.close
<1> DEFINE b == L.parking
           c == L.close
           n == Len(i.parking)
           last == Len(rows)
           A == WithBays(i.parking)
<1>1. /\ L.end \in Nat /\ b \in Nat /\ c \in Nat /\ last \in Nat
      /\ L.end < b /\ b + 2 < c /\ c < last
  <2>1. Ordered(L, last)
    BY DEF LaidOut
  <2>2. L.end \in Nat /\ b \in Nat /\ c \in Nat /\ last \in Nat
    BY <2>1 DEF Ordered
  <2>3. L.end < b /\ b + 2 < c
    BY <2>1 DEF Ordered
  <2>4. c < last
    BY <2>1, SMTT(30) DEF Ordered
  <2> QED
    BY <2>2, <2>3, <2>4
<1>2. \A r \in 1..last : rows[r].label = "parking" <=> r = b
  BY DEF LaidOut, Labelled
<1>3. rows[c].label = "sub total" /\ \A r \in (b + 2)..(c - 1) : rows[r].label # "sub total"
  <2>1. \A r \in 1..last : rows[r].label = "sub total" <=> r = L.end \/ r = c \/ r = L.total
    BY DEF LaidOut, Labelled
  <2>2. c < L.total /\ L.total \in Nat
    BY DEF LaidOut, Ordered
  <2> HIDE DEF b, c, last
  <2>3. c \in 1..last
    BY <1>1
  <2>4. ASSUME NEW r \in (b + 2)..(c - 1) PROVE r \in 1..last /\ r # L.end /\ r # c /\ r # L.total
    BY <1>1, <2>2
  <2> QED
    BY <2>1, <2>3, <2>4
<1>4. n \in Nat /\ DOMAIN i.parking = 1..n /\ (n = 0 => i.parking = << >>)
  BY InputFields
<1>5. \A k \in 1..n : i.parking[k] \in Parking
  BY InputFields
<1>6. ParkingAt(rows, i, L, p)
  BY DEF LaidOut
<1>7. \A k \in 1..n : p[k] \in (b + 2)..(c - 1)
  BY <1>4, <1>6 DEF ParkingAt
<1>8. \A k \in 1..n : rows[p[k]] = ExactBays(i.parking[k])
  BY <1>4, <1>6 DEF ParkingAt
<1>9. \A k, l \in 1..n : k < l => p[k] < p[l]
  BY <1>4, <1>6 DEF ParkingAt
<1>10. \A r \in (b + 2)..(c - 1) : rows[r] = Blank \/ \E k \in 1..n : p[k] = r
  BY <1>4, <1>6 DEF ParkingAt
<1>11. i.parking = << >> \/ NoTwoBlanks(rows, b + 2, c)
  BY <1>6 DEF ParkingAt
<1>12. A \subseteq 1..n /\ \A k \in 1..n : k \in A <=> i.parking[k].bays # 0
  BY <1>4 DEF WithBays
<1> HIDE DEF b, c, n, last, A
<1>13. FindLabelRow(rows, "parking", L.end) = b
  <2>1. Len(rows) \in Nat /\ b \in L.end..Len(rows) /\ rows[b].label = "parking"
    BY <1>1, <1>2 DEF last
  <2>2. \A r \in L.end..Len(rows) : rows[r].label = "parking" => b <= r
    <3>1. ASSUME NEW r \in L.end..Len(rows), rows[r].label = "parking" PROVE r \in Nat /\ r = b
      <4>1. r \in 1..last
        <5>1. 1 <= L.end
          BY DEF LaidOut, Ordered
        <5> QED
          BY <1>1, <5>1 DEF last
      <4> QED
        BY <1>2, <3>1, <4>1
    <3> QED
      BY <1>1, <3>1
  <2> QED
    BY <1>1, <2>1, <2>2, LabelFound
<1> DEFINE ends == {r \in (b + 2)..c : EndsAt(rows, b + 2, r)}
<1>14. PICK x \in ends : \A r \in ends : x <= r
  <2>1. c \in ends
    <3>1. c \in (b + 2)..c
      BY <1>1
    <3>2. EndsAt(rows, b + 2, c)
      BY <1>3 DEF EndsAt
    <3> QED
      BY <3>1, <3>2
  <2>2. \A r \in ends : r \in Nat
    BY <1>1
  <2> HIDE DEF ends
  <2>3. ends \in SUBSET Nat /\ ends # {}
    BY <2>1, <2>2
  <2> QED
    BY <2>3, LeastNumber
<1>15. x \in (b + 2)..c /\ EndsAt(rows, b + 2, x)
  OBVIOUS
<1>16. \A r \in (b + 2)..(x - 1) : ~EndsAt(rows, b + 2, r)
  <2>1. ASSUME NEW r \in (b + 2)..(x - 1), EndsAt(rows, b + 2, r) PROVE FALSE
    <3>1. r \in (b + 2)..c /\ ~(x <= r)
      BY <1>1, <1>15
    <3> QED
      BY <1>14, <2>1, <3>1
  <2> QED
    BY <2>1
<1>17. i.parking # << >> => x = c
  <2>1. ASSUME NEW r \in (b + 2)..(c - 1), NoTwoBlanks(rows, b + 2, c) PROVE ~EndsAt(rows, b + 2, r)
    BY <1>3, <2>1 DEF EndsAt, NoTwoBlanks
  <2>2. x # c => x \in (b + 2)..(c - 1)
    BY <1>1, <1>15
  <2> QED
    BY <1>11, <1>15, <2>1, <2>2
<1> HIDE DEF ends
<1>18. SectionEnd(rows, b + 2) = x /\ SectionLines(rows, b + 2) = (b + 2)..(x - 1)
  <2>1. b + 2 \in Nat \ {0} /\ x \in (b + 2)..Len(rows) /\ Len(rows) \in Nat
    BY <1>1, <1>15 DEF last
  <2> QED
    BY <1>15, <1>16, <2>1, EndFound
<1>19. {r \in (b + 2)..(x - 1) : IsParkingLine(rows[r])} = Places(p, A)
  <2>1. \A k \in 1..n : IsParkingLine(rows[p[k]]) <=> k \in A
    <3>1. \A q \in Parking : IsParkingLine(ExactBays(q)) <=> q.bays # 0
      BY LinesAreTold
    <3>2. \A k \in 1..n : IsParkingLine(ExactBays(i.parking[k])) <=> i.parking[k].bays # 0
      BY <1>5, <3>1
    <3> QED
      BY <1>8, <1>12, <3>2
  <2>2. ~IsParkingLine(Blank)
    BY LinesAreTold
  <2>3. ASSUME NEW r \in (b + 2)..(x - 1), IsParkingLine(rows[r]) PROVE \E k \in A : p[k] = r
    <3>1. r \in (b + 2)..(c - 1)
      BY <1>1, <1>15
    <3>2. PICK k \in 1..n : p[k] = r
      BY <1>10, <2>2, <2>3, <3>1
    <3> QED
      BY <2>1, <2>3, <3>2
  <2>4. ASSUME NEW k \in A PROVE p[k] \in (b + 2)..(x - 1) /\ IsParkingLine(rows[p[k]])
    <3>1. k \in 1..n
      BY <1>12
    <3>2. i.parking # << >>
      BY <1>4, <3>1
    <3> QED
      BY <1>7, <1>17, <2>1, <3>1, <3>2
  <2> QED
    BY <2>3, <2>4 DEF Places
<1>20. InOrder(p, A, n)
  <2>1. \A k \in 1..n : p[k] \in Nat
    BY <1>1, <1>7
  <2> QED
    BY <1>4, <1>9, <1>12, <2>1 DEF InOrder
<1> DEFINE lines == Chosen(rows, {r \in SectionLines(rows, b + 2) : IsParkingLine(rows[r])})
<1>21. lines = Chosen(rows, Places(p, A))
  BY <1>18, <1>19
<1>22. /\ Cardinality(A) \in Nat
       /\ DOMAIN Chosen(rows, Places(p, A)) = 1..Cardinality(A)
       /\ \A k \in 1..Cardinality(A) :
             /\ Nth(A, k) \in A
             /\ Chosen(rows, Places(p, A))[k] = rows[p[Nth(A, k)]]
  <2> HIDE DEF lines
  <2> QED
    BY <1>20, ChosenLines
<1> HIDE DEF lines
<1>23. /\ ReadParking(rows, L.end).lines =
            [k \in DOMAIN lines |-> ParkingOf(lines[k])]
       /\ ReadParking(rows, L.end).last = x
  <2>1. b # 0 /\ x # 0
    BY <1>1, <1>15
  <2> QED
    BY <1>13, <1>18, <2>1 DEF ReadParking, AfterSection, lines
<1>24. \A k \in 1..Cardinality(A) : ParkingOf(lines[k]) = i.parking[Nth(A, k)]
  <2> SUFFICES ASSUME NEW k \in 1..Cardinality(A)
               PROVE  ParkingOf(lines[k]) = i.parking[Nth(A, k)]
    OBVIOUS
  <2>1. Nth(A, k) \in 1..n /\ lines[k] = rows[p[Nth(A, k)]]
    BY <1>12, <1>21, <1>22
  <2>2. lines[k] = ExactBays(i.parking[Nth(A, k)]) /\ i.parking[Nth(A, k)] \in Parking
    BY <1>5, <1>8, <2>1
  <2> QED
    BY <2>2, LinesAreTold
<1>25. ReadParking(rows, L.end).lines = Chosen(i.parking, A)
  <2>1. DOMAIN lines = 1..Cardinality(A)
    BY <1>21, <1>22
  <2>2. ReadParking(rows, L.end).lines = [k \in 1..Cardinality(A) |-> i.parking[Nth(A, k)]]
    BY <1>23, <1>24, <2>1
  <2> QED
    BY <2>2 DEF Chosen
<1>26. x \in b..c
  BY <1>1, <1>15
<1> QED
  BY <1>23, <1>25, <1>26, KeptFields DEF A, b, c

\* The cell of the one row below start that has the label.
OnlyOn(rows, label, r) == \A q \in 1..Len(rows) : rows[q].label = label <=> q = r

LEMMA CellFound ==
    ASSUME NEW rows, NEW label, NEW start \in Nat, NEW r \in start..Len(rows), Len(rows) \in Nat,
           1 <= start, OnlyOn(rows, label, r)
    PROVE  /\ FindLabelRow(rows, label, start) = r
           /\ \A x : CellOf(rows, label, start, x) = rows[r].cells[x]
<1>0. \A q \in 1..Len(rows) : rows[q].label = label <=> q = r
  BY DEF OnlyOn
<1>1. r \in 1..Len(rows)
  OBVIOUS
<1>2. rows[r].label = label
  BY <1>0, <1>1
<1>3. \A q \in start..Len(rows) : rows[q].label = label => r <= q
  <2>1. ASSUME NEW q \in start..Len(rows), rows[q].label = label PROVE r <= q
    <3>1. q \in 1..Len(rows)
      OBVIOUS
    <3> QED
      BY <1>0, <1>1, <2>1, <3>1
  <2> QED
    BY <2>1
<1>4. FindLabelRow(rows, label, start) = r
  BY <1>2, <1>3, LabelFound
<1>5. r # 0
  BY <1>1
<1> QED
  BY <1>4, <1>5 DEF CellOf

\* What is written below the parking's label is read from there.
Figures(rows, i, sheet, L, start) ==
    /\ ReadOpex(rows, start) = i.opex
    /\ ReadVacancy(rows, start) = i.vacancy
    /\ ReadCap(rows, start) = i.cap
    /\ CellOf(rows, "open market assessment", start, "I") = sheet
    /\ FindLabelRow(rows, "vacancy allowance", start) # 0
    /\ FindLabelRow(rows, "operating expenses", start) = L.opex
    /\ CellOf(rows, "sub total", L.opex, "E") = i.opex

LEMMA FiguresRead ==
    ASSUME NEW i \in ValuationInput, NEW rows, NEW sheet, NEW L, NEW t, NEW p,
           LaidOut(rows, i, sheet, L, t, p), NEW start \in 1..L.close
    PROVE  Figures(rows, i, sheet, L, start)
<1>1. Ordered(L, Len(rows)) /\ Labelled(rows, L) /\ Written(rows, i, sheet, L)
  BY DEF LaidOut
<1>2. /\ L.end \in Nat /\ L.close \in Nat /\ L.opex \in Nat /\ L.total \in Nat /\ L.vacancy \in Nat
      /\ L.cap \in Nat /\ L.value \in Nat /\ Len(rows) \in Nat
  BY <1>1 DEF Ordered
<1>3. L.end < L.close /\ L.close < L.opex /\ L.opex < L.total /\ L.total < L.vacancy
  BY <1>1 DEF Ordered
<1>4. L.vacancy < L.cap /\ L.cap < L.value /\ L.value <= Len(rows)
  BY <1>1 DEF Ordered
<1>5. \A n \in Nat : ReadDecimal(n) = n /\ ReadPct(n) = n /\ n # None
  BY NumbersRead
<1>0. start \in Nat /\ 1 <= start /\ start <= L.close
  BY <1>2
<1>6. i.opex \in Nat /\ i.vacancy \in Nat /\ i.cap \in Nat
  <2>1. i.opex \in Nat /\ i.vacancy \in 0..Unit /\ i.cap \in Nat
    BY InputFields
  <2> QED
    BY <2>1, BoundAssumption
<1>7. FindLabelRow(rows, "operating expenses", start) = L.opex
  <2>1. L.opex \in start..Len(rows)
    BY <1>0, <1>2, <1>3, <1>4
  <2>2. OnlyOn(rows, "operating expenses", L.opex)
    BY <1>1 DEF Labelled, OnlyOn
  <2> QED
    BY <1>0, <1>2, <2>1, <2>2, CellFound
<1>8. ASSUME NEW from \in {L.opex, L.opex + 1}
      PROVE  CellOf(rows, "sub total", from, "E") = i.opex
  <2>1. from \in Nat /\ L.total \in from..Len(rows) /\ L.total \in 1..Len(rows)
    BY <1>2, <1>3, <1>4
  <2>2. \A q \in 1..Len(rows) : rows[q].label = "sub total" <=> q = L.end \/ q = L.close \/ q = L.total
    BY <1>1 DEF Labelled
  <2>3. rows[L.total].label = "sub total"
    BY <2>1, <2>2
  <2>4. ASSUME NEW q \in from..Len(rows), rows[q].label = "sub total" PROVE L.total <= q
    <3>1. q \in 1..Len(rows) /\ q # L.end /\ q # L.close
      BY <1>2, <1>3, <2>1
    <3>2. q = L.total
      BY <2>2, <2>4, <3>1
    <3> QED
      BY <1>2, <3>2
  <2>5. FindLabelRow(rows, "sub total", from) = L.total
    BY <1>2, <2>1, <2>3, <2>4, LabelFound
  <2>6. L.total # 0 /\ rows[L.total].cells["E"] = i.opex
    BY <1>1, <2>1 DEF Written
  <2> QED
    BY <1>5, <1>6, <2>5, <2>6 DEF CellOf
<1>9. ReadOpex(rows, start) = i.opex
  <2>1. L.opex # 0
    BY <1>2, <1>3
  <2> QED
    BY <1>5, <1>6, <1>7, <1>8, <2>1, ZenonT(30) DEF ReadOpex
<1>10. FindLabelRow(rows, "vacancy allowance", start) = L.vacancy /\ ReadVacancy(rows, start) = i.vacancy
  <2>1. L.vacancy \in start..Len(rows)
    BY <1>0, <1>2, <1>3, <1>4
  <2>2. OnlyOn(rows, "vacancy allowance", L.vacancy)
    BY <1>1 DEF Labelled, OnlyOn
  <2>3. /\ FindLabelRow(rows, "vacancy allowance", start) = L.vacancy
        /\ CellOf(rows, "vacancy allowance", start, "H") = rows[L.vacancy].cells["H"]
    <3>1. /\ FindLabelRow(rows, "vacancy allowance", start) = L.vacancy
          /\ \A x : CellOf(rows, "vacancy allowance", start, x) = rows[L.vacancy].cells[x]
      BY <1>0, <1>2, <2>1, <2>2, CellFound
    <3> QED
      BY <3>1
  <2>4. rows[L.vacancy].cells["H"] = i.vacancy
    BY <1>1 DEF Written
  <2> QED
    BY <1>5, <1>6, <2>3, <2>4 DEF ReadVacancy
<1>11. ReadCap(rows, start) = i.cap
  <2>1. L.cap \in start..Len(rows)
    BY <1>0, <1>2, <1>3, <1>4
  <2>2. OnlyOn(rows, "capitalised", L.cap)
    BY <1>1 DEF Labelled, OnlyOn
  <2>3. CellOf(rows, "capitalised", start, "H") = rows[L.cap].cells["H"]
    <3>1. \A x : CellOf(rows, "capitalised", start, x) = rows[L.cap].cells[x]
      BY <1>0, <1>2, <2>1, <2>2, CellFound
    <3> QED
      BY <3>1
  <2>4. rows[L.cap].cells["H"] = i.cap
    BY <1>1 DEF Written
  <2> QED
    BY <1>5, <1>6, <2>3, <2>4 DEF ReadCap
<1>12. CellOf(rows, "open market assessment", start, "I") = sheet
  <2>1. L.value \in start..Len(rows)
    BY <1>0, <1>2, <1>3, <1>4
  <2>2. OnlyOn(rows, "open market assessment", L.value)
    BY <1>1 DEF Labelled, OnlyOn
  <2>3. CellOf(rows, "open market assessment", start, "I") = rows[L.value].cells["I"]
    <3>1. \A x : CellOf(rows, "open market assessment", start, x) = rows[L.value].cells[x]
      BY <1>0, <1>2, <2>1, <2>2, CellFound
    <3> QED
      BY <3>1
  <2> QED
    BY <1>1, <2>3 DEF Written
<1>13. L.opex # 0 /\ L.vacancy # 0
  BY <1>2, <1>3
<1> QED
  BY <1>2, <1>7, <1>8, <1>9, <1>10, <1>11, <1>12, <1>13 DEF Figures

\* A sheet that is laid out so gives the document that was rendered, as far as
\* a file keeps it, and no error.
LEMMA LayoutParsed ==
    ASSUME NEW i \in ValuationInput, NEW rows, NEW sheet, NEW L, NEW t, NEW p,
           LaidOut(rows, i, sheet, L, t, p)
    PROVE  ParseWorkbook(rows) = Parsed(Reread(i), ReadDecimal(sheet), {})
<1> DEFINE tenants == ReadTenants(rows)
           parking == ReadParking(rows, tenants.last)
           start == parking.last
           inp == Assembled(rows, tenants.lines, parking.lines, start)
<1>1. FindTenantHeader(rows) = L.tenants /\ tenants.lines = Reread(i).tenants /\ tenants.last = L.end
  BY TenantsRead
<1>2. parking.lines = Reread(i).parking /\ start \in L.parking..L.close
  BY <1>1, ParkingRead
<1>3. L.parking \in Nat /\ L.close \in Nat /\ 1 <= L.parking /\ L.tenants # 0
  <2>1. Ordered(L, Len(rows))
    BY DEF LaidOut
  <2>2. /\ L.date \in Nat /\ L.tenants \in Nat /\ L.end \in Nat /\ L.parking \in Nat /\ L.close \in Nat
        /\ 1 <= L.date /\ L.date < L.tenants /\ L.tenants < L.end /\ L.end < L.parking
    BY <2>1 DEF Ordered
  <2> QED
    BY <2>2
<1>4. start \in Nat /\ 1 <= start /\ start <= L.close
  BY <1>2, <1>3
<1> HIDE DEF tenants, parking, start, inp
<1>5. /\ ReadOpex(rows, start) = i.opex
      /\ ReadVacancy(rows, start) = i.vacancy
      /\ ReadCap(rows, start) = i.cap
      /\ CellOf(rows, "open market assessment", start, "I") = sheet
      /\ FindLabelRow(rows, "vacancy allowance", start) # 0
  <2>1. start \in 1..L.close
    BY <1>3, <1>4
  <2>2. Figures(rows, i, sheet, L, start)
    BY <2>1, FiguresRead
  <2> QED
    BY <2>2 DEF Figures
<1>6. ReadDate(rows) = i.date /\ i.date # None
  <2>1. Ordered(L, Len(rows)) /\ Labelled(rows, L) /\ Written(rows, i, sheet, L)
    BY DEF LaidOut
  <2>2. L.date \in 1..Len(rows) /\ Len(rows) \in Nat
    BY <2>1, SMTT(30) DEF Ordered
  <2>3. OnlyOn(rows, "date", L.date)
    BY <2>1 DEF Labelled, OnlyOn
  <2>4. CellOf(rows, "date", 1, "E") = rows[L.date].cells["E"]
    <3>1. 1 \in Nat /\ 1 <= 1
      OBVIOUS
    <3>2. \A x : CellOf(rows, "date", 1, x) = rows[L.date].cells[x]
      BY <2>2, <2>3, <3>1, CellFound
    <3> QED
      BY <3>2
  <2>5. i.date \in Dates
    BY InputFields
  <2>6. CellOf(rows, "date", 1, "E") = i.date
    BY <2>1, <2>4 DEF Written
  <2>7. ReadDate(rows) = CellOf(rows, "date", 1, "E")
    BY <2>5, <2>6, DateFirst
  <2> QED
    BY <2>5, <2>6, <2>7, CalendarAssumption
<1>7. i.opex # None /\ i.vacancy # None /\ i.cap # None
  <2>1. i.opex \in Int /\ i.vacancy \in Int /\ i.cap \in Int
    BY InputFields, BoundAssumption
  <2> QED
    BY <2>1, BookAssumption
<1>8. inp = Reread(i)
  <2>1. inp = [date |-> i.date, tenants |-> Reread(i).tenants, parking |-> Reread(i).parking,
               opex |-> i.opex, vacancy |-> i.vacancy, cap |-> i.cap, rounding |-> "nearest_10000"]
    BY <1>1, <1>2, <1>5, <1>6, <1>7 DEF inp, Assembled
  <2>2. /\ Reread(i).date = i.date /\ Reread(i).opex = i.opex
        /\ Reread(i).vacancy = i.vacancy /\ Reread(i).cap = i.cap
        /\ Reread(i).rounding = "nearest_10000"
    BY KeptFields
  <2>3. Reread(i) = [date |-> Reread(i).date, tenants |-> Reread(i).tenants,
                   parking |-> Reread(i).parking, opex |-> Reread(i).opex,
                   vacancy |-> Reread(i).vacancy, cap |-> Reread(i).cap,
                   rounding |-> Reread(i).rounding]
    BY KeptFields
  <2> QED
    BY <2>1, <2>2, <2>3
<1>9. Reread(i) \in ValuationInput /\ Complete(Reread(i))
  <2>1. Reread(i) \in ValuationInput
    BY KeptIsInput
  <2>2. Reread(i).tenants # << >>
    BY <2>1, InputFields
  <2> QED
    BY <1>6, <1>7, <2>1, <2>2, KeptFields DEF Complete
<1>10. Missing(rows, start) = {}
  BY <1>5, <1>6, <1>7 DEF Missing
<1> QED
  BY <1>1, <1>3, <1>5, <1>8, <1>9, <1>10 DEF ParseWorkbook, inp, start, parking, tenants

-----------------------------------------------------------------------------
(* What the renderer writes. *)

Cell == Int \cup Dates \cup {None} \cup Words
Label == {"", "building name", "date", "tenants", "sub total", "parking", "other",
          "operating expenses", "vacancy allowance", "capitalised", "open market assessment"}
Row == [label : Label, cells : [Columns -> Cell]]

LEMMA SheetRowTyped ==
    ASSUME NEW label, label \in Label, NEW cells, \A x \in DOMAIN cells : cells[x] \in Cell
    PROVE  SheetRow(label, cells) \in Row
<1>1. None \in Cell
  BY DEF Cell
<1> QED
  BY <1>1 DEF SheetRow, Row

LEMMA WrittenRowsTyped ==
    /\ \A label \in Label : SheetRow(label, NoCells) \in Row
    /\ Blank \in Row
    /\ \A t \in Tenant : ExactRow(t) \in Row
    /\ \A p \in Parking : ExactBays(p) \in Row
<1>0. "" \in Label
  BY DEF Label
<1>1. ASSUME NEW label \in Label PROVE SheetRow(label, NoCells) \in Row
  <2>1. DOMAIN NoCells = {}
    BY DEF NoCells
  <2> QED
    BY <2>1, SheetRowTyped
<1>2. Blank \in Row
  BY <1>0, <1>1 DEF Blank
<1>3. Nat \subseteq Cell /\ Dates \subseteq Cell /\ None \in Cell /\ Text \in Cell
  BY WordsAssumption DEF Cell
<1>4. ASSUME NEW t \in Tenant PROVE ExactRow(t) \in Row
  <2> DEFINE cells == [B |-> Text, C |-> IF t.pct = 0 THEN None ELSE t.pct, E |-> t.expiry,
                       F |-> t.area, G |-> t.rent]
  <2>1. ExactRow(t) = SheetRow("", cells)
    BY DEF ExactRow
  <2>2. t.area \in Nat /\ t.rent \in Nat /\ t.pct \in Nat /\ t.expiry \in Dates \cup {None}
    BY DEF Tenant
  <2>3. \A x \in DOMAIN cells : cells[x] \in Cell
    BY <1>3, <2>2
  <2> HIDE DEF cells
  <2> QED
    BY <1>0, <2>1, <2>3, SheetRowTyped
<1>5. ASSUME NEW p \in Parking PROVE ExactBays(p) \in Row
  <2> DEFINE cells == [E |-> Text, F |-> p.bays * Unit, G |-> p.rate]
  <2>1. ExactBays(p) = SheetRow("", cells)
    BY DEF ExactBays
  <2>2. p.bays * Unit \in Nat /\ p.rate \in Nat
    BY BoundAssumption DEF Parking
  <2>3. \A x \in DOMAIN cells : cells[x] \in Cell
    BY <1>3, <2>2
  <2> HIDE DEF cells
  <2> QED
    BY <1>0, <2>1, <2>3, SheetRowTyped
<1> QED
  BY <1>1, <1>2, <1>4, <1>5

\* The six parts of a sheet.
Top(i) ==
    <<SheetRow("building name", [B |-> Text]), SheetRow("date", [E |-> i.date]),
      SheetRow("tenants", [x \in Columns |-> Text])>>
TenantPart(i) == [k \in DOMAIN i.tenants |-> ExactRow(i.tenants[k])]
Middle == <<SheetRow("sub total", NoCells), Blank, SheetRow("parking", [F |-> Text, G |-> Text])>>
ParkingPart(i) ==
    IF i.parking = << >> THEN <<Blank>>
    ELSE [k \in DOMAIN i.parking |-> ExactBays(i.parking[k])]
Bottom(i) ==
    <<SheetRow("sub total", NoCells), SheetRow("other", NoCells), SheetRow("other", NoCells),
      SheetRow("operating expenses", [E |-> Text, F |-> Text, G |-> Text]),
      SheetRow("sub total", [E |-> i.opex]),
      SheetRow("vacancy allowance", [H |-> i.vacancy]),
      SheetRow("other", NoCells), SheetRow("other", NoCells),
      SheetRow("capitalised", [H |-> i.cap]),
      SheetRow("open market assessment", NoCells)>>

Exact(i) == Top(i) \o TenantPart(i) \o Middle \o ParkingGap \o ParkingPart(i) \o Bottom(i)

\* A part of so many rows.
Part(s, n) == s \in Seq(Row) /\ n \in Nat /\ Len(s) = n

LEMMA TupleParts ==
    ASSUME NEW a \in Row, NEW b \in Row, NEW c \in Row, NEW d \in Row, NEW e \in Row,
           NEW f \in Row, NEW g \in Row, NEW h \in Row, NEW j \in Row, NEW k \in Row
    PROVE  /\ Part(<<a>>, 1) /\ Part(<<a, b, c>>, 3)
           /\ Part(<<a, b, c, d, e, f, g, h, j, k>>, 10)
BY DEF Part

JoinOf(u, s, t, a, b) ==
    /\ Part(u, a + b)
    /\ \A r \in 1..(a + b) : u[r] = IF r <= a THEN s[r] ELSE t[r - a]

LEMMA JoinedParts ==
    ASSUME NEW s, NEW t, NEW a, NEW b, Part(s, a), Part(t, b)
    PROVE  JoinOf(s \o t, s, t, a, b)
<1>1. s \in Seq(Row) /\ t \in Seq(Row) /\ a \in Nat /\ b \in Nat /\ Len(s) = a /\ Len(t) = b
  BY DEF Part
<1>2. s \o t \in Seq(Row) /\ Len(s \o t) = a + b
  BY <1>1
<1>3. \A r \in 1..(a + b) : (s \o t)[r] = IF r <= a THEN s[r] ELSE t[r - a]
  BY <1>1
<1> QED
  BY <1>1, <1>2, <1>3 DEF JoinOf, Part

\* The lines of its two lists; a list without parking has a blank one.
Tenants(i) == Len(i.tenants)
Lines(i) == IF i.parking = << >> THEN 1 ELSE Len(i.parking)

LEMMA PartsTyped ==
    ASSUME NEW i \in ValuationInput
    PROVE  /\ Part(Top(i), 3) /\ Part(TenantPart(i), Tenants(i)) /\ Part(Middle, 3)
           /\ Part(ParkingGap, 1) /\ Part(ParkingPart(i), Lines(i)) /\ Part(Bottom(i), 10)
           /\ Tenants(i) \in Nat \ {0} /\ Lines(i) \in Nat \ {0}
<1>1. Nat \subseteq Cell /\ Dates \subseteq Cell /\ None \in Cell /\ Text \in Cell
  BY WordsAssumption DEF Cell
<1>2. i.date \in Cell /\ i.opex \in Cell /\ i.vacancy \in Cell /\ i.cap \in Cell
  <2>1. i.date \in Dates /\ i.opex \in Nat /\ i.vacancy \in Nat /\ i.cap \in Nat
    BY InputFields, BoundAssumption
  <2> QED
    BY <1>1, <2>1
<1>0. /\ "building name" \in Label /\ "date" \in Label /\ "tenants" \in Label
      /\ "sub total" \in Label /\ "parking" \in Label /\ "other" \in Label
      /\ "operating expenses" \in Label /\ "vacancy allowance" \in Label
      /\ "capitalised" \in Label /\ "open market assessment" \in Label
  BY DEF Label
<1>3. /\ SheetRow("date", [E |-> i.date]) \in Row
      /\ SheetRow("tenants", [x \in Columns |-> Text]) \in Row
      /\ SheetRow("building name", [B |-> Text]) \in Row
      /\ SheetRow("parking", [F |-> Text, G |-> Text]) \in Row
      /\ SheetRow("operating expenses", [E |-> Text, F |-> Text, G |-> Text]) \in Row
      /\ SheetRow("sub total", [E |-> i.opex]) \in Row
      /\ SheetRow("vacancy allowance", [H |-> i.vacancy]) \in Row
      /\ SheetRow("capitalised", [H |-> i.cap]) \in Row
  <2>1. ASSUME NEW label \in Label, NEW v \in Cell
        PROVE  SheetRow(label, [E |-> v]) \in Row /\ SheetRow(label, [H |-> v]) \in Row
    BY SheetRowTyped
  <2>2. ASSUME NEW label \in Label
        PROVE  /\ SheetRow(label, [x \in Columns |-> Text]) \in Row
               /\ SheetRow(label, [B |-> Text]) \in Row
               /\ SheetRow(label, [F |-> Text, G |-> Text]) \in Row
               /\ SheetRow(label, [E |-> Text, F |-> Text, G |-> Text]) \in Row
    BY <1>1, SheetRowTyped
  <2>3. /\ SheetRow("date", [E |-> i.date]) \in Row /\ SheetRow("sub total", [E |-> i.opex]) \in Row
        /\ SheetRow("vacancy allowance", [H |-> i.vacancy]) \in Row
        /\ SheetRow("capitalised", [H |-> i.cap]) \in Row
    BY <1>0, <1>2, <2>1
  <2> QED
    BY <1>0, <2>2, <2>3
<1>4. /\ Blank \in Row /\ SheetRow("sub total", NoCells) \in Row /\ SheetRow("other", NoCells) \in Row
      /\ SheetRow("open market assessment", NoCells) \in Row
  BY <1>0, WrittenRowsTyped
<1>5. Part(Top(i), 3)
  BY <1>3, <1>4, TupleParts DEF Top
<1>6. Part(Middle, 3) /\ Part(ParkingGap, 1)
  BY <1>3, <1>4, TupleParts DEF Middle, ParkingGap
<1>7. Part(Bottom(i), 10)
  BY <1>3, <1>4, TupleParts DEF Bottom
<1>8. /\ Tenants(i) \in Nat \ {0} /\ DOMAIN i.tenants = 1..Tenants(i)
      /\ \A k \in 1..Tenants(i) : i.tenants[k] \in Tenant
  BY InputFields DEF Tenants
<1>9. Part(TenantPart(i), Tenants(i))
  <2>1. \A k \in 1..Tenants(i) : ExactRow(i.tenants[k]) \in Row
    BY <1>8, WrittenRowsTyped
  <2>2. TenantPart(i) = [k \in 1..Tenants(i) |-> ExactRow(i.tenants[k])]
    BY <1>8 DEF TenantPart
  <2> QED
    BY <1>8, <2>1, <2>2 DEF Part
<1>10. Part(ParkingPart(i), Lines(i)) /\ Lines(i) \in Nat \ {0}
  <2>1. CASE i.parking = << >>
    <3>1. ParkingPart(i) = <<Blank>> /\ Lines(i) = 1
      BY <2>1 DEF ParkingPart, Lines
    <3> QED
      BY <1>6, <3>1 DEF ParkingGap
  <2>2. CASE i.parking # << >>
    <3>1. /\ Lines(i) \in Nat \ {0} /\ DOMAIN i.parking = 1..Lines(i)
          /\ \A k \in 1..Lines(i) : i.parking[k] \in Parking
      BY <2>2, InputFields DEF Lines
    <3>2. \A k \in 1..Lines(i) : ExactBays(i.parking[k]) \in Row
      BY <3>1, WrittenRowsTyped
    <3>3. ParkingPart(i) = [k \in 1..Lines(i) |-> ExactBays(i.parking[k])]
      BY <2>2, <3>1 DEF ParkingPart
    <3> QED
      BY <3>1, <3>2, <3>3 DEF Part
  <2> QED
    BY <2>1, <2>2
<1> QED
  BY <1>5, <1>6, <1>7, <1>8, <1>9, <1>10

\* Where the parts lie.
LEMMA RenderParts ==
    ASSUME NEW i \in ValuationInput
    PROVE  LET n == Tenants(i)
               m == Lines(i)
           IN  /\ Part(Exact(i), 17 + n + m)
               /\ \A r \in 1..3 : Exact(i)[r] = Top(i)[r]
               /\ \A r \in 1..n : Exact(i)[3 + r] = TenantPart(i)[r]
               /\ \A r \in 1..3 : Exact(i)[3 + n + r] = Middle[r]
               /\ Exact(i)[7 + n] = Blank
               /\ \A r \in 1..m : Exact(i)[7 + n + r] = ParkingPart(i)[r]
               /\ \A r \in 1..10 : Exact(i)[7 + n + m + r] = Bottom(i)[r]
<1> DEFINE n == Tenants(i)
           m == Lines(i)
           one == Top(i) \o TenantPart(i)
           two == one \o Middle
           three == two \o ParkingGap
           four == three \o ParkingPart(i)
           all == four \o Bottom(i)
<1>0. n \in Nat /\ m \in Nat
  BY PartsTyped
<1>1. Exact(i) = all
  BY DEF Exact
<1>2. /\ Part(one, 3 + n)
      /\ \A r \in 1..(3 + n) : one[r] = IF r <= 3 THEN Top(i)[r] ELSE TenantPart(i)[r - 3]
  <2>1. Part(Top(i), 3) /\ Part(TenantPart(i), n)
    BY PartsTyped
  <2>2. JoinOf(one, Top(i), TenantPart(i), 3, n)
    BY <2>1, JoinedParts
  <2>3. 3 + n = 3 + n
    BY <1>0
  <2> QED
    BY <2>2, <2>3 DEF JoinOf
<1> HIDE DEF one
<1>3. /\ Part(two, 6 + n)
      /\ \A r \in 1..(6 + n) : two[r] = IF r <= 3 + n THEN one[r] ELSE Middle[r - (3 + n)]
  <2>1. Part(one, 3 + n) /\ Part(Middle, 3)
    BY <1>2, PartsTyped
  <2>2. JoinOf(two, one, Middle, 3 + n, 3)
    BY <2>1, JoinedParts
  <2>3. (3 + n) + 3 = 6 + n
    BY <1>0
  <2> QED
    BY <2>2, <2>3 DEF JoinOf
<1> HIDE DEF two
<1>4. /\ Part(three, 7 + n)
      /\ \A r \in 1..(7 + n) : three[r] = IF r <= 6 + n THEN two[r] ELSE ParkingGap[r - (6 + n)]
  <2>1. Part(two, 6 + n) /\ Part(ParkingGap, 1)
    BY <1>3, PartsTyped
  <2>2. JoinOf(three, two, ParkingGap, 6 + n, 1)
    BY <2>1, JoinedParts
  <2>3. (6 + n) + 1 = 7 + n
    BY <1>0
  <2> QED
    BY <2>2, <2>3 DEF JoinOf
<1> HIDE DEF three
<1>5. /\ Part(four, 7 + n + m)
      /\ \A r \in 1..(7 + n + m) : four[r] = IF r <= 7 + n THEN three[r] ELSE ParkingPart(i)[r - (7 + n)]
  <2>1. Part(three, 7 + n) /\ Part(ParkingPart(i), m)
    BY <1>4, PartsTyped
  <2>2. JoinOf(four, three, ParkingPart(i), 7 + n, m)
    BY <2>1, JoinedParts
  <2>3. (7 + n) + m = 7 + n + m
    BY <1>0
  <2> QED
    BY <2>2, <2>3 DEF JoinOf
<1> HIDE DEF four
<1>6. /\ Part(all, 17 + n + m)
      /\ \A r \in 1..(17 + n + m) : all[r] = IF r <= 7 + n + m THEN four[r] ELSE Bottom(i)[r - (7 + n + m)]
  <2>1. Part(four, 7 + n + m) /\ Part(Bottom(i), 10)
    BY <1>5, PartsTyped
  <2>2. JoinOf(all, four, Bottom(i), 7 + n + m, 10)
    BY <2>1, JoinedParts
  <2>3. (7 + n + m) + 10 = 17 + n + m
    BY <1>0
  <2> QED
    BY <2>2, <2>3 DEF JoinOf
<1> HIDE DEF all
<1>7. ASSUME NEW r \in 1..3 PROVE all[r] = Top(i)[r]
  <2>1. r \in 1..(3 + n) /\ r \in 1..(6 + n) /\ r \in 1..(7 + n) /\ r \in 1..(7 + n + m)
        /\ r \in 1..(17 + n + m) /\ r <= 3 /\ r <= 3 + n /\ r <= 6 + n /\ r <= 7 + n /\ r <= 7 + n + m
    BY <1>0
  <2> QED
    BY <1>2, <1>3, <1>4, <1>5, <1>6, <2>1
<1>8. ASSUME NEW r \in 1..n PROVE all[3 + r] = TenantPart(i)[r]
  <2> DEFINE x == 3 + r
  <2>1. x \in 1..(3 + n) /\ x \in 1..(6 + n) /\ x \in 1..(7 + n) /\ x \in 1..(7 + n + m)
        /\ x \in 1..(17 + n + m) /\ ~(x <= 3) /\ x <= 3 + n /\ x <= 6 + n /\ x <= 7 + n /\ x <= 7 + n + m
        /\ x - 3 = r
    BY <1>0
  <2> HIDE DEF x
  <2> QED
    BY <1>2, <1>3, <1>4, <1>5, <1>6, <2>1 DEF x
<1>9. ASSUME NEW r \in 1..3 PROVE all[3 + n + r] = Middle[r]
  <2> DEFINE x == 3 + n + r
  <2>1. x \in 1..(6 + n) /\ x \in 1..(7 + n) /\ x \in 1..(7 + n + m)
        /\ x \in 1..(17 + n + m) /\ ~(x <= 3 + n) /\ x <= 6 + n /\ x <= 7 + n /\ x <= 7 + n + m
        /\ x - (3 + n) = r
    BY <1>0
  <2> HIDE DEF x
  <2> QED
    BY <1>3, <1>4, <1>5, <1>6, <2>1 DEF x
<1>10. all[7 + n] = Blank
  <2> DEFINE x == 7 + n
  <2>1. x \in 1..(7 + n) /\ x \in 1..(7 + n + m)
        /\ x \in 1..(17 + n + m) /\ ~(x <= 6 + n) /\ x <= 7 + n /\ x <= 7 + n + m
        /\ x - (6 + n) = 1
    BY <1>0
  <2>2. ParkingGap[1] = Blank
    BY DEF ParkingGap
  <2> HIDE DEF x
  <2> QED
    BY <1>4, <1>5, <1>6, <2>1, <2>2 DEF x
<1>11. ASSUME NEW r \in 1..m PROVE all[7 + n + r] = ParkingPart(i)[r]
  <2> DEFINE x == 7 + n + r
  <2>1. x \in 1..(7 + n + m) /\ x \in 1..(17 + n + m) /\ ~(x <= 7 + n) /\ x <= 7 + n + m
        /\ x - (7 + n) = r
    BY <1>0
  <2> HIDE DEF x
  <2> QED
    BY <1>5, <1>6, <2>1 DEF x
<1>12. ASSUME NEW r \in 1..10 PROVE all[7 + n + m + r] = Bottom(i)[r]
  <2> DEFINE x == 7 + n + m + r
  <2>1. x \in 1..(17 + n + m) /\ ~(x <= 7 + n + m) /\ x - (7 + n + m) = r
    BY <1>0
  <2> HIDE DEF x
  <2> QED
    BY <1>6, <2>1 DEF x
<1> QED
  BY <1>1, <1>6, <1>7, <1>8, <1>9, <1>10, <1>11, <1>12

\* A sheet as it is rendered, with a value in the last row.
Rendered(rows, i, sheet, n, m) ==
    /\ n = Tenants(i) /\ m = Lines(i) /\ Part(rows, 17 + n + m)
    /\ rows[1] = SheetRow("building name", [B |-> Text])
    /\ rows[2] = SheetRow("date", [E |-> i.date])
    /\ rows[3] = SheetRow("tenants", [x \in Columns |-> Text])
    /\ \A k \in 1..n : rows[3 + k] = ExactRow(i.tenants[k])
    /\ rows[4 + n] = SheetRow("sub total", NoCells) /\ rows[5 + n] = Blank
    /\ rows[6 + n] = SheetRow("parking", [F |-> Text, G |-> Text]) /\ rows[7 + n] = Blank
    /\ \A k \in 1..m : rows[7 + n + k] = IF i.parking = << >> THEN Blank
                                         ELSE ExactBays(i.parking[k])
    /\ rows[8 + n + m] = SheetRow("sub total", NoCells)
    /\ rows[9 + n + m] = SheetRow("other", NoCells) /\ rows[10 + n + m] = SheetRow("other", NoCells)
    /\ rows[11 + n + m] = SheetRow("operating expenses", [E |-> Text, F |-> Text, G |-> Text])
    /\ rows[12 + n + m] = SheetRow("sub total", [E |-> i.opex])
    /\ rows[13 + n + m] = SheetRow("vacancy allowance", [H |-> i.vacancy])
    /\ rows[14 + n + m] = SheetRow("other", NoCells) /\ rows[15 + n + m] = SheetRow("other", NoCells)
    /\ rows[16 + n + m] = SheetRow("capitalised", [H |-> i.cap])
    /\ rows[17 + n + m] = SheetRow("open market assessment", [I |-> sheet])

LEMMA RenderIsRendered ==
    ASSUME NEW i \in ValuationInput
    PROVE  Rendered(Exact(i), i, None, Tenants(i), Lines(i))
<1> DEFINE n == Tenants(i)
           m == Lines(i)
           rows == Exact(i)
<1>1. n \in Nat /\ m \in Nat
  BY PartsTyped
<1>2. /\ Part(rows, 17 + n + m)
      /\ \A r \in 1..3 : rows[r] = Top(i)[r]
      /\ \A r \in 1..n : rows[3 + r] = TenantPart(i)[r]
      /\ \A r \in 1..3 : rows[3 + n + r] = Middle[r]
      /\ rows[7 + n] = Blank
      /\ \A r \in 1..m : rows[7 + n + r] = ParkingPart(i)[r]
      /\ \A r \in 1..10 : rows[7 + n + m + r] = Bottom(i)[r]
  BY RenderParts
<1>3. \A k \in 1..n : TenantPart(i)[k] = ExactRow(i.tenants[k])
  <2>1. DOMAIN i.tenants = 1..n
    BY InputFields DEF Tenants
  <2> QED
    BY <2>1 DEF TenantPart
<1>4. \A k \in 1..m : ParkingPart(i)[k] = IF i.parking = << >> THEN Blank ELSE ExactBays(i.parking[k])
  <2>1. CASE i.parking = << >>
    BY <2>1 DEF ParkingPart, Lines
  <2>2. CASE i.parking # << >>
    <3>1. DOMAIN i.parking = 1..m
      BY <2>2, InputFields DEF Lines
    <3> QED
      BY <2>2, <3>1 DEF ParkingPart
  <2> QED
    BY <2>1, <2>2
<1>5. SheetRow("open market assessment", NoCells) = SheetRow("open market assessment", [I |-> None])
  <2> DEFINE cells == [I |-> None]
  <2>1. DOMAIN NoCells = {} /\ DOMAIN cells = {"I"} /\ cells["I"] = None
    BY DEF NoCells
  <2> HIDE DEF cells
  <2>2. [x \in Columns |-> IF x \in DOMAIN NoCells THEN NoCells[x] ELSE None]
          = [x \in Columns |-> IF x \in DOMAIN cells THEN cells[x] ELSE None]
    BY <2>1
  <2> QED
    BY <2>2 DEF SheetRow, cells
<1> HIDE DEF rows, n, m
<1>6. /\ rows[1] = SheetRow("building name", [B |-> Text])
      /\ rows[2] = SheetRow("date", [E |-> i.date])
      /\ rows[3] = SheetRow("tenants", [x \in Columns |-> Text])
  <2>1. rows[1] = Top(i)[1] /\ rows[2] = Top(i)[2] /\ rows[3] = Top(i)[3]
    BY <1>2
  <2> QED
    BY <2>1 DEF Top
<1>7. \A k \in 1..n : rows[3 + k] = ExactRow(i.tenants[k])
  BY <1>2, <1>3
<1>8. /\ rows[4 + n] = SheetRow("sub total", NoCells) /\ rows[5 + n] = Blank
      /\ rows[6 + n] = SheetRow("parking", [F |-> Text, G |-> Text])
  <2>1. rows[3 + n + 1] = Middle[1] /\ rows[3 + n + 2] = Middle[2] /\ rows[3 + n + 3] = Middle[3]
    BY <1>2
  <2>2. 3 + n + 1 = 4 + n /\ 3 + n + 2 = 5 + n /\ 3 + n + 3 = 6 + n
    BY <1>1
  <2> QED
    BY <2>1, <2>2 DEF Middle
<1>9. \A k \in 1..m : rows[7 + n + k] = IF i.parking = << >> THEN Blank ELSE ExactBays(i.parking[k])
  BY <1>2, <1>4
<1>10. /\ rows[8 + n + m] = Bottom(i)[1] /\ rows[9 + n + m] = Bottom(i)[2]
       /\ rows[10 + n + m] = Bottom(i)[3] /\ rows[11 + n + m] = Bottom(i)[4]
       /\ rows[12 + n + m] = Bottom(i)[5] /\ rows[13 + n + m] = Bottom(i)[6]
       /\ rows[14 + n + m] = Bottom(i)[7] /\ rows[15 + n + m] = Bottom(i)[8]
       /\ rows[16 + n + m] = Bottom(i)[9] /\ rows[17 + n + m] = Bottom(i)[10]
  <2>1. /\ rows[7 + n + m + 1] = Bottom(i)[1] /\ rows[7 + n + m + 2] = Bottom(i)[2]
        /\ rows[7 + n + m + 3] = Bottom(i)[3] /\ rows[7 + n + m + 4] = Bottom(i)[4]
        /\ rows[7 + n + m + 5] = Bottom(i)[5] /\ rows[7 + n + m + 6] = Bottom(i)[6]
        /\ rows[7 + n + m + 7] = Bottom(i)[7] /\ rows[7 + n + m + 8] = Bottom(i)[8]
        /\ rows[7 + n + m + 9] = Bottom(i)[9] /\ rows[7 + n + m + 10] = Bottom(i)[10]
    BY <1>2
  <2>2. /\ 7 + n + m + 1 = 8 + n + m /\ 7 + n + m + 2 = 9 + n + m /\ 7 + n + m + 3 = 10 + n + m
        /\ 7 + n + m + 4 = 11 + n + m /\ 7 + n + m + 5 = 12 + n + m /\ 7 + n + m + 6 = 13 + n + m
        /\ 7 + n + m + 7 = 14 + n + m /\ 7 + n + m + 8 = 15 + n + m /\ 7 + n + m + 9 = 16 + n + m
        /\ 7 + n + m + 10 = 17 + n + m
    BY <1>1
  <2> QED
    BY <2>1, <2>2
<1>11. /\ rows[8 + n + m] = SheetRow("sub total", NoCells)
       /\ rows[9 + n + m] = SheetRow("other", NoCells) /\ rows[10 + n + m] = SheetRow("other", NoCells)
       /\ rows[11 + n + m] = SheetRow("operating expenses", [E |-> Text, F |-> Text, G |-> Text])
       /\ rows[12 + n + m] = SheetRow("sub total", [E |-> i.opex])
       /\ rows[13 + n + m] = SheetRow("vacancy allowance", [H |-> i.vacancy])
       /\ rows[14 + n + m] = SheetRow("other", NoCells) /\ rows[15 + n + m] = SheetRow("other", NoCells)
       /\ rows[16 + n + m] = SheetRow("capitalised", [H |-> i.cap])
       /\ rows[17 + n + m] = SheetRow("open market assessment", [I |-> None])
  BY <1>5, <1>10 DEF Bottom
<1> QED
  BY <1>2, <1>6, <1>7, <1>8, <1>9, <1>11 DEF Rendered, n, m, rows

\* The labels of its rows.
LabelsOf(rows, n, m) ==
    \A r \in 1..(17 + n + m) :
        /\ rows[r].label = "date" <=> r = 2
        /\ rows[r].label = "tenants" <=> r = 3
        /\ rows[r].label = "sub total" <=> r = 4 + n \/ r = 8 + n + m \/ r = 12 + n + m
        /\ rows[r].label = "parking" <=> r = 6 + n
        /\ rows[r].label = "operating expenses" <=> r = 11 + n + m
        /\ rows[r].label = "vacancy allowance" <=> r = 13 + n + m
        /\ rows[r].label = "capitalised" <=> r = 16 + n + m
        /\ rows[r].label = "open market assessment" <=> r = 17 + n + m

LEMMA RenderedLabels ==
    ASSUME NEW rows, NEW i, NEW sheet, NEW n \in Nat, NEW m \in Nat, Rendered(rows, i, sheet, n, m)
    PROVE  LabelsOf(rows, n, m)
<1>1. ASSUME NEW label, NEW cells PROVE SheetRow(label, cells).label = label
  BY DEF SheetRow
<1>2. Blank.label = ""
  BY BlankCells
<1>3. ASSUME NEW k \in 1..n PROVE rows[3 + k].label = ""
  <2>1. rows[3 + k] = ExactRow(i.tenants[k])
    BY DEF Rendered
  <2> QED
    BY <2>1, TenantRowCells
<1>4. ASSUME NEW k \in 1..m PROVE rows[7 + n + k].label = ""
  <2>1. rows[7 + n + k] = IF i.parking = << >> THEN Blank ELSE ExactBays(i.parking[k])
    BY DEF Rendered
  <2>2. ExactBays(i.parking[k]).label = ""
    BY ParkingRowCells
  <2> QED
    BY <1>2, <2>1, <2>2
<1>5. /\ rows[1].label = "building name" /\ rows[2].label = "date" /\ rows[3].label = "tenants"
      /\ rows[4 + n].label = "sub total" /\ rows[5 + n].label = "" /\ rows[6 + n].label = "parking"
      /\ rows[7 + n].label = "" /\ rows[8 + n + m].label = "sub total"
      /\ rows[9 + n + m].label = "other" /\ rows[10 + n + m].label = "other"
      /\ rows[11 + n + m].label = "operating expenses" /\ rows[12 + n + m].label = "sub total"
      /\ rows[13 + n + m].label = "vacancy allowance" /\ rows[14 + n + m].label = "other"
      /\ rows[15 + n + m].label = "other" /\ rows[16 + n + m].label = "capitalised"
      /\ rows[17 + n + m].label = "open market assessment"
  <2>1. /\ rows[1] = SheetRow("building name", [B |-> Text])
        /\ rows[2] = SheetRow("date", [E |-> i.date])
        /\ rows[3] = SheetRow("tenants", [x \in Columns |-> Text])
        /\ rows[4 + n] = SheetRow("sub total", NoCells) /\ rows[5 + n] = Blank
        /\ rows[6 + n] = SheetRow("parking", [F |-> Text, G |-> Text]) /\ rows[7 + n] = Blank
    BY ZenonT(30) DEF Rendered
  <2>2. /\ rows[8 + n + m] = SheetRow("sub total", NoCells)
        /\ rows[9 + n + m] = SheetRow("other", NoCells)
        /\ rows[10 + n + m] = SheetRow("other", NoCells)
        /\ rows[11 + n + m] = SheetRow("operating expenses", [E |-> Text, F |-> Text, G |-> Text])
        /\ rows[12 + n + m] = SheetRow("sub total", [E |-> i.opex])
        /\ rows[13 + n + m] = SheetRow("vacancy allowance", [H |-> i.vacancy])
        /\ rows[14 + n + m] = SheetRow("other", NoCells)
        /\ rows[15 + n + m] = SheetRow("other", NoCells)
        /\ rows[16 + n + m] = SheetRow("capitalised", [H |-> i.cap])
        /\ rows[17 + n + m] = SheetRow("open market assessment", [I |-> sheet])
    BY ZenonT(30) DEF Rendered
  <2>3. /\ rows[1].label = "building name" /\ rows[2].label = "date" /\ rows[3].label = "tenants"
        /\ rows[4 + n].label = "sub total" /\ rows[5 + n].label = "" /\ rows[6 + n].label = "parking"
        /\ rows[7 + n].label = ""
    BY <1>1, <1>2, <2>1, ZenonT(30)
  <2>4. /\ rows[8 + n + m].label = "sub total"
        /\ rows[9 + n + m].label = "other" /\ rows[10 + n + m].label = "other"
        /\ rows[11 + n + m].label = "operating expenses" /\ rows[12 + n + m].label = "sub total"
    BY <1>1, <2>2, ZenonT(60)
  <2>5. /\ rows[13 + n + m].label = "vacancy allowance" /\ rows[14 + n + m].label = "other"
        /\ rows[15 + n + m].label = "other" /\ rows[16 + n + m].label = "capitalised"
        /\ rows[17 + n + m].label = "open market assessment"
    BY <1>1, <2>2, ZenonT(60)
  <2> QED
    BY <2>3, <2>4, <2>5
<1> DEFINE Told(r) ==
             /\ rows[r].label = "date" <=> r = 2
             /\ rows[r].label = "tenants" <=> r = 3
             /\ rows[r].label = "sub total" <=> r = 4 + n \/ r = 8 + n + m \/ r = 12 + n + m
             /\ rows[r].label = "parking" <=> r = 6 + n
             /\ rows[r].label = "operating expenses" <=> r = 11 + n + m
             /\ rows[r].label = "vacancy allowance" <=> r = 13 + n + m
             /\ rows[r].label = "capitalised" <=> r = 16 + n + m
             /\ rows[r].label = "open market assessment" <=> r = 17 + n + m
<1>6. ASSUME NEW r \in 1..(17 + n + m) PROVE Told(r)
  <2>1. CASE r \in 4..(3 + n)
    <3>1. r - 3 \in 1..n /\ 3 + (r - 3) = r
      BY <2>1
    <3>2. rows[r].label = ""
      BY <1>3, <3>1
    <3>3. /\ r # 2 /\ r # 3 /\ r # 4 + n /\ r # 8 + n + m /\ r # 12 + n + m /\ r # 6 + n
          /\ r # 11 + n + m /\ r # 13 + n + m /\ r # 16 + n + m /\ r # 17 + n + m
      BY <2>1
    <3> QED
      BY <3>2, <3>3
  <2>2. CASE r \in (8 + n)..(7 + n + m)
    <3>1. r - (7 + n) \in 1..m /\ 7 + n + (r - (7 + n)) = r
      BY <2>2
    <3>2. rows[r].label = ""
      BY <1>4, <3>1
    <3>3. /\ r # 2 /\ r # 3 /\ r # 4 + n /\ r # 8 + n + m /\ r # 12 + n + m /\ r # 6 + n
          /\ r # 11 + n + m /\ r # 13 + n + m /\ r # 16 + n + m /\ r # 17 + n + m
      BY <2>2
    <3> QED
      BY <3>2, <3>3
  <2>3. CASE r \in {1, 2, 3, 4 + n, 5 + n, 6 + n, 7 + n}
    <3>1. CASE r \in {1, 5 + n, 7 + n}
      <4>1. rows[r].label \in {"building name", ""}
        BY <1>5, <3>1
      <4>2. /\ r # 2 /\ r # 3 /\ r # 4 + n /\ r # 8 + n + m /\ r # 12 + n + m /\ r # 6 + n
            /\ r # 11 + n + m /\ r # 13 + n + m /\ r # 16 + n + m /\ r # 17 + n + m
        BY <3>1
      <4> QED
        BY <4>1, <4>2
    <3>2. CASE r \in {2, 3}
      <4>1. rows[r].label = IF r = 2 THEN "date" ELSE "tenants"
        BY <1>5, <3>2
      <4>2. /\ r # 4 + n /\ r # 8 + n + m /\ r # 12 + n + m /\ r # 6 + n
            /\ r # 11 + n + m /\ r # 13 + n + m /\ r # 16 + n + m /\ r # 17 + n + m
        BY <3>2
      <4> QED
        BY <3>2, <4>1, <4>2
    <3>3. CASE r \in {4 + n, 6 + n}
      <4>1. rows[r].label = IF r = 4 + n THEN "sub total" ELSE "parking"
        BY <1>5, <3>3
      <4>2. /\ r # 2 /\ r # 3 /\ r # 8 + n + m /\ r # 12 + n + m /\ (r # 4 + n <=> r = 6 + n)
            /\ r # 11 + n + m /\ r # 13 + n + m /\ r # 16 + n + m /\ r # 17 + n + m
        BY <3>3
      <4> QED
        BY <4>1, <4>2
    <3> QED
      BY <2>3, <3>1, <3>2, <3>3
  <2>4. CASE r \in {9 + n + m, 10 + n + m, 14 + n + m, 15 + n + m}
    <3>1. rows[r].label = "other"
      BY <1>5, <2>4
    <3>2. /\ r # 2 /\ r # 3 /\ r # 4 + n /\ r # 6 + n /\ r # 8 + n + m /\ r # 11 + n + m
          /\ r # 12 + n + m /\ r # 13 + n + m /\ r # 16 + n + m /\ r # 17 + n + m
      BY <2>4
    <3> QED
      BY <3>1, <3>2
  <2>5. CASE r \in {8 + n + m, 12 + n + m}
    <3>1. rows[r].label = "sub total"
      BY <1>5, <2>5
    <3>2. /\ r # 2 /\ r # 3 /\ r # 6 + n /\ r # 11 + n + m /\ r # 13 + n + m /\ r # 16 + n + m
          /\ r # 17 + n + m
      BY <2>5
    <3> QED
      BY <2>5, <3>1, <3>2
  <2>6. CASE r = 11 + n + m
    <3>1. rows[r].label = "operating expenses"
      BY <1>5, <2>6
    <3>2. /\ r # 2 /\ r # 3 /\ r # 4 + n /\ r # 6 + n /\ r # 8 + n + m /\ r # 12 + n + m
          /\ r # 13 + n + m /\ r # 16 + n + m /\ r # 17 + n + m
      BY <2>6
    <3> QED
      BY <2>6, <3>1, <3>2
  <2>7. CASE r = 13 + n + m
    <3>1. rows[r].label = "vacancy allowance"
      BY <1>5, <2>7
    <3>2. /\ r # 2 /\ r # 3 /\ r # 4 + n /\ r # 6 + n /\ r # 8 + n + m /\ r # 11 + n + m
          /\ r # 12 + n + m /\ r # 16 + n + m /\ r # 17 + n + m
      BY <2>7
    <3> QED
      BY <2>7, <3>1, <3>2
  <2>8. CASE r = 16 + n + m
    <3>1. rows[r].label = "capitalised"
      BY <1>5, <2>8
    <3>2. /\ r # 2 /\ r # 3 /\ r # 4 + n /\ r # 6 + n /\ r # 8 + n + m /\ r # 11 + n + m
          /\ r # 12 + n + m /\ r # 13 + n + m /\ r # 17 + n + m
      BY <2>8
    <3> QED
      BY <2>8, <3>1, <3>2
  <2>9. CASE r = 17 + n + m
    <3>1. rows[r].label = "open market assessment"
      BY <1>5, <2>9
    <3>2. /\ r # 2 /\ r # 3 /\ r # 4 + n /\ r # 6 + n /\ r # 8 + n + m /\ r # 11 + n + m
          /\ r # 12 + n + m /\ r # 13 + n + m /\ r # 16 + n + m
      BY <2>9
    <3> QED
      BY <2>9, <3>1, <3>2
  <2>10. \/ r \in 4..(3 + n) \/ r \in (8 + n)..(7 + n + m)
         \/ r \in {1, 2, 3, 4 + n, 5 + n, 6 + n, 7 + n}
         \/ r \in {9 + n + m, 10 + n + m, 14 + n + m, 15 + n + m} \/ r \in {8 + n + m, 12 + n + m}
         \/ r = 11 + n + m \/ r = 13 + n + m \/ r = 16 + n + m \/ r = 17 + n + m
    OBVIOUS
  <2> QED
    BY <2>1, <2>2, <2>3, <2>4, <2>5, <2>6, <2>7, <2>8, <2>9, <2>10
<1> QED
  BY <1>6 DEF LabelsOf

-----------------------------------------------------------------------------
(* A blank row put into it. *)

\* Where row x goes when one is put at g.
Below(g, x) == IF x < g THEN x ELSE x + 1

LEMMA BelowIs ==
    ASSUME NEW g \in Nat, NEW x \in Nat
    PROVE  /\ Below(g, x) \in Nat /\ Below(g, x) # g
           /\ Below(g, x + 1) <= Below(g, x) + 2
           /\ Below(g, x + 1) = Below(g, x) + 2 => g = x + 1
BY DEF Below

LEMMA BelowApart ==
    ASSUME NEW g \in Nat, NEW x \in Nat, NEW y \in Nat
    PROVE  /\ x < y <=> Below(g, x) < Below(g, y)
           /\ x = y <=> Below(g, x) = Below(g, y)
           /\ x < y => Below(g, x) + (y - x) <= Below(g, y)
BY DEF Below

\* The rows of base, and perhaps a blank one at g.
Spread(rows, base, g, last) ==
    /\ g \in Nat /\ Len(rows) \in Nat /\ DOMAIN rows = 1..Len(rows)
    /\ \A x \in 1..last : Below(g, x) \in 1..Len(rows) /\ rows[Below(g, x)] = base[x]
    /\ \A r \in 1..Len(rows) :
          \/ r = g /\ rows[r] = Blank
          \/ \E x \in 1..last : r = Below(g, x)

\* A label that one row of base has is on that row's place, and nowhere else.
OneOf(base, last, label, y) == \A x \in 1..last : base[x].label = label <=> x = y

LEMMA RowNumbers == \A last \in Nat : \A x \in 1..last : x \in Nat
OBVIOUS

LEMMA LabelSpread ==
    ASSUME NEW rows, NEW base, NEW g, NEW last \in Nat, Spread(rows, base, g, last),
           NEW label, label # "", NEW y \in 1..last,
           OneOf(base, last, label, y)
    PROVE  OnlyOn(rows, label, Below(g, y))
<1>1. g \in Nat /\ Len(rows) \in Nat
  BY Zenon DEF Spread
<1>0. y \in Nat /\ \A x \in 1..last : x \in Nat /\ (base[x].label = label <=> x = y)
  <2>1. \A x \in 1..last : x \in Nat
    BY RowNumbers, Zenon
  <2>2. \A x \in 1..last : base[x].label = label <=> x = y
    BY Zenon DEF OneOf
  <2> QED
    BY <2>1, <2>2
<1>2. ASSUME NEW r \in 1..Len(rows) PROVE rows[r].label = label <=> r = Below(g, y)
  <2>1. CASE r = g /\ rows[r] = Blank
    BY <1>0, <1>1, <2>1, BlankCells, BelowIs
  <2>2. ASSUME NEW x \in 1..last, r = Below(g, x) PROVE rows[r].label = label <=> r = Below(g, y)
    <3>1. rows[r] = base[x]
      BY <2>2 DEF Spread
    <3>2. x = y <=> Below(g, x) = Below(g, y)
      BY <1>0, <1>1, BelowApart
    <3> QED
      BY <1>0, <2>2, <3>1, <3>2
  <2> QED
    BY <2>1, <2>2 DEF Spread
<1> QED
  BY <1>2 DEF OnlyOn

\* The rows the parser looks for, and where the lines of the lists are.
LayoutOf(g, n, m) ==
    [date |-> Below(g, 2), tenants |-> Below(g, 3), end |-> Below(g, 4 + n),
     parking |-> Below(g, 6 + n), close |-> Below(g, 8 + n + m), opex |-> Below(g, 11 + n + m),
     total |-> Below(g, 12 + n + m), vacancy |-> Below(g, 13 + n + m),
     cap |-> Below(g, 16 + n + m), value |-> Below(g, 17 + n + m)]
TenantPlaces(g, n) == [k \in 1..n |-> Below(g, 3 + k)]
ParkingPlaces(g, n, m) == [k \in 1..m |-> Below(g, 7 + n + k)]

LEMMA LayoutOrdered ==
    ASSUME NEW g \in Nat, NEW n \in Nat, NEW m \in Nat \ {0}, NEW last \in Nat,
           Below(g, 17 + n + m) <= last
    PROVE  Ordered(LayoutOf(g, n, m), last)
<1> DEFINE L == LayoutOf(g, n, m)
<1>1. /\ L.date = Below(g, 2) /\ L.tenants = Below(g, 3) /\ L.end = Below(g, 4 + n)
      /\ L.parking = Below(g, 6 + n) /\ L.close = Below(g, 8 + n + m)
      /\ L.opex = Below(g, 11 + n + m) /\ L.total = Below(g, 12 + n + m)
      /\ L.vacancy = Below(g, 13 + n + m) /\ L.cap = Below(g, 16 + n + m)
      /\ L.value = Below(g, 17 + n + m)
  BY DEF LayoutOf
<1>2. /\ Below(g, 2) \in Nat /\ Below(g, 3) \in Nat /\ Below(g, 4 + n) \in Nat
      /\ 1 <= Below(g, 2) /\ Below(g, 2) < Below(g, 3) /\ Below(g, 3) < Below(g, 4 + n)
  BY DEF Below
<1>3. /\ Below(g, 6 + n) \in Nat /\ Below(g, 8 + n + m) \in Nat
      /\ Below(g, 4 + n) < Below(g, 6 + n) /\ Below(g, 6 + n) + 2 < Below(g, 8 + n + m)
  BY DEF Below
<1>4. /\ Below(g, 11 + n + m) \in Nat /\ Below(g, 12 + n + m) \in Nat
      /\ Below(g, 8 + n + m) < Below(g, 11 + n + m) /\ Below(g, 11 + n + m) < Below(g, 12 + n + m)
  BY DEF Below
<1>5. /\ Below(g, 13 + n + m) \in Nat /\ Below(g, 16 + n + m) \in Nat /\ Below(g, 17 + n + m) \in Nat
      /\ Below(g, 12 + n + m) < Below(g, 13 + n + m)
      /\ Below(g, 13 + n + m) < Below(g, 16 + n + m)
      /\ Below(g, 16 + n + m) < Below(g, 17 + n + m)
  BY DEF Below
<1> HIDE DEF L
<1>6. Ordered(L, last)
  BY <1>1, <1>2, <1>3, <1>4, <1>5 DEF Ordered
<1> QED
  BY <1>6 DEF L

LEMMA LayoutLabelled ==
    ASSUME NEW rows, NEW base, NEW g, NEW n \in Nat, NEW m \in Nat \ {0},
           Spread(rows, base, g, 17 + n + m), LabelsOf(base, n, m)
    PROVE  Labelled(rows, LayoutOf(g, n, m))
<1> DEFINE L == LayoutOf(g, n, m)
           last == 17 + n + m
<1>1. /\ L.date = Below(g, 2) /\ L.tenants = Below(g, 3) /\ L.end = Below(g, 4 + n)
      /\ L.parking = Below(g, 6 + n) /\ L.close = Below(g, 8 + n + m)
      /\ L.opex = Below(g, 11 + n + m) /\ L.total = Below(g, 12 + n + m)
      /\ L.vacancy = Below(g, 13 + n + m) /\ L.cap = Below(g, 16 + n + m)
      /\ L.value = Below(g, 17 + n + m)
  BY DEF LayoutOf
<1>2. g \in Nat /\ last \in Nat /\ Len(rows) \in Nat
  BY DEF Spread
<1>3. /\ 2 \in 1..last /\ 3 \in 1..last /\ 6 + n \in 1..last /\ 11 + n + m \in 1..last
      /\ 13 + n + m \in 1..last /\ 16 + n + m \in 1..last /\ 17 + n + m \in 1..last
  OBVIOUS
<1> HIDE DEF last
<1>4. /\ OneOf(base, last, "date", 2) /\ OneOf(base, last, "tenants", 3)
      /\ OneOf(base, last, "parking", 6 + n) /\ OneOf(base, last, "operating expenses", 11 + n + m)
      /\ OneOf(base, last, "vacancy allowance", 13 + n + m)
      /\ OneOf(base, last, "capitalised", 16 + n + m)
      /\ OneOf(base, last, "open market assessment", 17 + n + m)
  BY DEF LabelsOf, OneOf, last
<1>5. Spread(rows, base, g, last)
  BY DEF last
<1>6. OnlyOn(rows, "date", Below(g, 2)) /\ OnlyOn(rows, "tenants", Below(g, 3))
  BY <1>2, <1>3, <1>4, <1>5, LabelSpread
<1>7. OnlyOn(rows, "parking", Below(g, 6 + n)) /\ OnlyOn(rows, "operating expenses", Below(g, 11 + n + m))
  BY <1>2, <1>3, <1>4, <1>5, LabelSpread
<1>8. /\ OnlyOn(rows, "vacancy allowance", Below(g, 13 + n + m))
      /\ OnlyOn(rows, "capitalised", Below(g, 16 + n + m))
  BY <1>2, <1>3, <1>4, <1>5, LabelSpread
<1>9. OnlyOn(rows, "open market assessment", Below(g, 17 + n + m))
  BY <1>2, <1>3, <1>4, <1>5, LabelSpread
<1>10. ASSUME NEW r \in 1..Len(rows)
       PROVE  rows[r].label = "sub total" <=>
                 r = Below(g, 4 + n) \/ r = Below(g, 8 + n + m) \/ r = Below(g, 12 + n + m)
  <2>1. CASE r = g /\ rows[r] = Blank
    <3>1. Below(g, 4 + n) # g /\ Below(g, 8 + n + m) # g /\ Below(g, 12 + n + m) # g
      <4>1. 4 + n \in Nat /\ 8 + n + m \in Nat /\ 12 + n + m \in Nat
        OBVIOUS
      <4> QED
        BY <1>2, <4>1, BelowIs
    <3> QED
      BY <2>1, <3>1, BlankCells
  <2>2. ASSUME NEW x \in 1..last, r = Below(g, x)
        PROVE  rows[r].label = "sub total" <=>
                  r = Below(g, 4 + n) \/ r = Below(g, 8 + n + m) \/ r = Below(g, 12 + n + m)
    <3>1. rows[r] = base[x]
      BY <1>5, <2>2 DEF Spread
    <3>2. /\ x = 4 + n <=> Below(g, x) = Below(g, 4 + n)
          /\ x = 8 + n + m <=> Below(g, x) = Below(g, 8 + n + m)
          /\ x = 12 + n + m <=> Below(g, x) = Below(g, 12 + n + m)
      <4>1. x \in Nat /\ 4 + n \in Nat /\ 8 + n + m \in Nat /\ 12 + n + m \in Nat
        BY <1>2
      <4> QED
        BY <1>2, <4>1, BelowApart
    <3>3. base[x].label = "sub total" <=> x = 4 + n \/ x = 8 + n + m \/ x = 12 + n + m
      BY DEF LabelsOf, last
    <3> QED
      BY <2>2, <3>1, <3>2, <3>3, Zenon
  <2> QED
    BY <1>5, <2>1, <2>2 DEF Spread
<1> HIDE DEF L
<1>11. ASSUME NEW r \in 1..Len(rows)
       PROVE  /\ rows[r].label = "date" <=> r = L.date
              /\ rows[r].label = "tenants" <=> r = L.tenants
              /\ rows[r].label = "parking" <=> r = L.parking
              /\ rows[r].label = "operating expenses" <=> r = L.opex
              /\ rows[r].label = "vacancy allowance" <=> r = L.vacancy
              /\ rows[r].label = "capitalised" <=> r = L.cap
              /\ rows[r].label = "open market assessment" <=> r = L.value
  <2>1. rows[r].label = "date" <=> r = L.date
    BY <1>1, <1>6 DEF OnlyOn
  <2>2. rows[r].label = "tenants" <=> r = L.tenants
    BY <1>1, <1>6 DEF OnlyOn
  <2>3. rows[r].label = "parking" <=> r = L.parking
    BY <1>1, <1>7 DEF OnlyOn
  <2>4. rows[r].label = "operating expenses" <=> r = L.opex
    BY <1>1, <1>7 DEF OnlyOn
  <2>5. rows[r].label = "vacancy allowance" <=> r = L.vacancy
    BY <1>1, <1>8 DEF OnlyOn
  <2>6. rows[r].label = "capitalised" <=> r = L.cap
    BY <1>1, <1>8 DEF OnlyOn
  <2>7. rows[r].label = "open market assessment" <=> r = L.value
    BY <1>1, <1>9 DEF OnlyOn
  <2> QED
    BY <2>1, <2>2, <2>3, <2>4, <2>5, <2>6, <2>7
<1>12. ASSUME NEW r \in 1..Len(rows)
       PROVE  rows[r].label = "sub total" <=> r = L.end \/ r = L.close \/ r = L.total
  BY <1>1, <1>10
<1>13. Labelled(rows, L)
  BY <1>11, <1>12 DEF Labelled
<1> QED
  BY <1>13 DEF L

LEMMA TenantsLaidOut ==
    ASSUME NEW rows, NEW base, NEW i \in ValuationInput, NEW sheet, NEW g,
           NEW n \in Nat, NEW m \in Nat \ {0}, Rendered(base, i, sheet, n, m),
           Spread(rows, base, g, 17 + n + m)
    PROVE  TenantsAt(rows, i, LayoutOf(g, n, m), TenantPlaces(g, n))
<1> DEFINE L == LayoutOf(g, n, m)
           t == TenantPlaces(g, n)
           last == 17 + n + m
           first == Below(g, 3)
           end == Below(g, 4 + n)
<1>1. L.tenants = first /\ L.end = end
  BY DEF LayoutOf
<1>2. \A k \in 1..n : t[k] = Below(g, 3 + k)
  BY DEF TenantPlaces
<1>3. g \in Nat /\ Len(rows) \in Nat
  BY Zenon DEF Spread
<1>4. last \in Nat /\ \A x \in 1..last : x \in Nat
  OBVIOUS
<1>5. \A x \in 1..last : Below(g, x) \in 1..Len(rows) /\ rows[Below(g, x)] = base[x]
  BY Zenon DEF Spread
<1>6. \A r \in 1..Len(rows) : (r = g /\ rows[r] = Blank) \/ \E x \in 1..last : r = Below(g, x)
  BY Zenon DEF Spread
<1>7. \A k \in 1..n : base[3 + k] = ExactRow(i.tenants[k])
  BY Zenon DEF Rendered
<1>8. DOMAIN i.tenants = 1..n /\ \A k \in 1..n : i.tenants[k] \in Tenant
  <2>1. n = Tenants(i)
    BY Zenon DEF Rendered
  <2> QED
    BY <2>1, InputFields DEF Tenants
<1> HIDE DEF last, first, end, L, t
<1>9. ASSUME NEW k \in 1..n
      PROVE  /\ t[k] \in (first + 1)..(end - 1)
             /\ rows[t[k]] = ExactRow(i.tenants[k])
  <2>1. 3 + k \in 1..last /\ 3 \in Nat /\ 3 + k \in Nat /\ 4 + n \in Nat /\ 3 < 3 + k /\ 3 + k < 4 + n
    BY DEF last
  <2>2. first < Below(g, 3 + k) /\ Below(g, 3 + k) < end
    BY <1>3, <2>1, BelowApart DEF first, end
  <2>3. Below(g, 3 + k) \in Nat /\ first \in Nat /\ end \in Nat
    BY <1>3, <2>1, BelowIs DEF first, end
  <2>4. t[k] \in (first + 1)..(end - 1)
    BY <1>2, <2>2, <2>3
  <2> QED
    BY <1>2, <1>5, <1>7, <2>1, <2>4
<1>10. ASSUME NEW k \in 1..n, NEW l \in 1..n, k < l PROVE t[k] < t[l]
  <2>1. 3 + k \in Nat /\ 3 + l \in Nat /\ 3 + k < 3 + l
    BY <1>10
  <2> QED
    BY <1>2, <1>3, <2>1, BelowApart
<1>11. ASSUME NEW r \in (first + 1)..(end - 1)
       PROVE  r = g \/ \E k \in 1..n : t[k] = r
  <2>1. first \in Nat /\ end \in Nat /\ end \in 1..Len(rows)
    <3>1. 3 \in Nat /\ 4 + n \in Nat /\ 4 + n \in 1..last
      BY DEF last
    <3> QED
      BY <1>3, <1>5, <3>1, BelowIs DEF first, end
  <2>2. r \in 1..Len(rows) /\ first < r /\ r < end
    BY <1>3, <2>1
  <2>3. ASSUME NEW x \in 1..last, r = Below(g, x) PROVE \E k \in 1..n : t[k] = r
    <3>1. x \in Nat /\ 3 \in Nat /\ 4 + n \in Nat
      BY <1>4
    <3>2. 3 < x /\ x < 4 + n
      BY <1>3, <2>2, <2>3, <3>1, BelowApart DEF first, end
    <3>3. x - 3 \in 1..n /\ 3 + (x - 3) = x
      BY <3>1, <3>2
    <3>4. t[x - 3] = r
      BY <1>2, <2>3, <3>3
    <3> QED
      BY <3>3, <3>4
  <2> QED
    BY <1>6, <2>2, <2>3
<1>12. ASSUME NEW r \in (first + 1)..(end - 1) PROVE rows[r] = Blank \/ \E k \in 1..n : t[k] = r
  <2>1. r = g /\ r \in 1..Len(rows) => rows[r] = Blank
    <3>1. ASSUME NEW x \in 1..last, g = Below(g, x) PROVE FALSE
      BY <1>3, <1>4, <3>1, BelowIs
    <3> QED
      BY <1>6, <3>1
  <2>2. r \in 1..Len(rows)
    <3>1. 3 \in Nat /\ 3 \in 1..last /\ 4 + n \in 1..last /\ 4 + n \in Nat
      BY DEF last
    <3>2. first \in Nat /\ end \in 1..Len(rows)
      BY <1>3, <1>5, <3>1, BelowIs DEF first, end
    <3> QED
      BY <1>3, <3>2
  <2> QED
    BY <1>11, <2>1, <2>2
<1>13. \A k \in 1..n : rows[t[k]] # Blank
  BY <1>8, <1>9, LinesAreTold
<1>14. ASSUME NEW r \in (first + 1)..(end - 1), r > first + 1, rows[r] = Blank, rows[r - 1] = Blank
       PROVE  FALSE
  <2>1. first \in Nat /\ end \in Nat
    <3>1. 3 \in Nat /\ 4 + n \in Nat
      OBVIOUS
    <3> QED
      BY <1>3, <3>1, BelowIs DEF first, end
  <2>2. r \in Nat /\ r - 1 \in (first + 1)..(end - 1) /\ r - 1 # r
    BY <1>14, <2>1
  <2>3. r = g /\ r - 1 = g
    BY <1>11, <1>13, <1>14, <2>2
  <2> QED
    BY <2>2, <2>3
<1>15. NoTwoBlanks(rows, first + 1, end)
  BY <1>14 DEF NoTwoBlanks
<1>16. TenantsAt(rows, i, L, t)
  BY <1>1, <1>8, <1>9, <1>10, <1>12, <1>15 DEF TenantsAt
<1> QED
  BY <1>16 DEF L, t

\* A list without parking has a blank line in its place.
LEMMA ParkingLaidOut ==
    ASSUME NEW rows, NEW base, NEW i \in ValuationInput, NEW sheet, NEW g,
           NEW n \in Nat, NEW m \in Nat \ {0}, Rendered(base, i, sheet, n, m),
           Spread(rows, base, g, 17 + n + m)
    PROVE  ParkingAt(rows, i, LayoutOf(g, n, m), ParkingPlaces(g, n, m))
<1> DEFINE L == LayoutOf(g, n, m)
           p == ParkingPlaces(g, n, m)
           last == 17 + n + m
           label == Below(g, 6 + n)
           gap == Below(g, 7 + n)
           close == Below(g, 8 + n + m)
<1>1. L.parking = label /\ L.close = close
  BY DEF LayoutOf
<1>2. \A k \in 1..m : p[k] = Below(g, 7 + n + k)
  BY DEF ParkingPlaces
<1>3. g \in Nat /\ Len(rows) \in Nat
  BY Zenon DEF Spread
<1>4. last \in Nat /\ \A x \in 1..last : x \in Nat
  OBVIOUS
<1>5. \A x \in 1..last : Below(g, x) \in 1..Len(rows) /\ rows[Below(g, x)] = base[x]
  BY Zenon DEF Spread
<1>6. \A r \in 1..Len(rows) : (r = g /\ rows[r] = Blank) \/ \E x \in 1..last : r = Below(g, x)
  BY Zenon DEF Spread
<1>7. /\ \A k \in 1..m : base[7 + n + k] = IF i.parking = << >> THEN Blank ELSE ExactBays(i.parking[k])
      /\ base[7 + n] = Blank
  BY Zenon DEF Rendered
<1>8. /\ i.parking = << >> => DOMAIN i.parking = {}
      /\ i.parking # << >> => DOMAIN i.parking = 1..m /\ \A k \in 1..m : i.parking[k] \in Parking
  <2>1. m = Lines(i)
    BY Zenon DEF Rendered
  <2> QED
    BY <2>1, InputFields DEF Lines
<1> HIDE DEF last, label, gap, close, L, p
<1>9. /\ label \in Nat /\ gap \in Nat /\ close \in Nat /\ label < gap
      /\ gap <= label + 2 /\ (gap = label + 2 => g = 7 + n)
      /\ gap < close /\ close \in 1..Len(rows)
  <2>1. /\ 6 + n \in Nat /\ 7 + n \in Nat /\ 8 + n + m \in Nat /\ (6 + n) + 1 = 7 + n
        /\ 6 + n < 7 + n /\ 7 + n < 8 + n + m /\ 8 + n + m \in 1..last
    BY DEF last
  <2>2. label \in Nat /\ gap \in Nat /\ close \in Nat
    BY <1>3, <2>1, BelowIs DEF label, gap, close
  <2>3. gap <= label + 2 /\ (gap = label + 2 => g = 7 + n)
    <3>1. /\ Below(g, (6 + n) + 1) <= Below(g, 6 + n) + 2
          /\ Below(g, (6 + n) + 1) = Below(g, 6 + n) + 2 => g = (6 + n) + 1
      BY <1>3, <2>1, BelowIs
    <3> QED
      BY <2>1, <3>1 DEF label, gap
  <2>4. label < gap /\ gap < close
    BY <1>3, <2>1, BelowApart DEF label, gap, close
  <2> QED
    BY <1>5, <2>1, <2>2, <2>3, <2>4 DEF close
<1>10. ASSUME NEW k \in 1..m
       PROVE  /\ p[k] \in (label + 2)..(close - 1)
              /\ rows[p[k]] = IF i.parking = << >> THEN Blank ELSE ExactBays(i.parking[k])
  <2>1. /\ 7 + n + k \in 1..last /\ 7 + n + k \in Nat /\ 7 + n \in Nat /\ 8 + n + m \in Nat
        /\ 7 + n < 7 + n + k /\ 7 + n + k < 8 + n + m
    BY DEF last
  <2>2. gap < Below(g, 7 + n + k) /\ Below(g, 7 + n + k) < close
    BY <1>3, <2>1, BelowApart DEF gap, close
  <2>3. Below(g, 7 + n + k) \in Nat
    BY <1>3, <2>1, BelowIs
  <2>4. p[k] \in (label + 2)..(close - 1)
    BY <1>2, <1>9, <2>2, <2>3
  <2> QED
    BY <1>2, <1>5, <1>7, <2>1, <2>4
<1>11. ASSUME NEW k \in 1..m, NEW l \in 1..m, k < l PROVE p[k] < p[l]
  <2>1. 7 + n + k \in Nat /\ 7 + n + l \in Nat /\ 7 + n + k < 7 + n + l
    BY <1>11
  <2> QED
    BY <1>2, <1>3, <2>1, BelowApart
<1>12. ASSUME NEW r \in (label + 2)..(close - 1)
       PROVE  r \in 1..Len(rows) /\ (r = g \/ r = gap \/ \E k \in 1..m : p[k] = r)
  <2>1. r \in 1..Len(rows) /\ label < r /\ r < close
    BY <1>3, <1>9
  <2>2. ASSUME NEW x \in 1..last, r = Below(g, x) PROVE r = gap \/ \E k \in 1..m : p[k] = r
    <3>1. x \in Nat /\ 6 + n \in Nat /\ 8 + n + m \in Nat
      BY <1>4
    <3>2. 6 + n < x /\ x < 8 + n + m
      BY <1>3, <2>1, <2>2, <3>1, BelowApart DEF label, close
    <3>3. x # 7 + n => x - (7 + n) \in 1..m /\ 7 + n + (x - (7 + n)) = x
      BY <3>1, <3>2
    <3>4. x # 7 + n => p[x - (7 + n)] = r
      BY <1>2, <2>2, <3>3
    <3> QED
      BY <2>2, <3>3, <3>4 DEF gap
  <2> QED
    BY <1>6, <2>1, <2>2
<1>13. rows[gap] = Blank
  <2>1. 7 + n \in 1..last
    BY DEF last
  <2> QED
    BY <1>5, <1>7, <2>1 DEF gap
<1>14. g \in 1..Len(rows) => rows[g] = Blank
  <2>1. ASSUME NEW x \in 1..last, g = Below(g, x) PROVE FALSE
    BY <1>3, <1>4, <2>1, BelowIs
  <2> QED
    BY <1>6, <2>1
<1>15. ASSUME NEW r \in (label + 2)..(close - 1) PROVE rows[r] = Blank \/ \E k \in 1..m : p[k] = r
  BY <1>12, <1>13, <1>14
<1>16. i.parking # << >> => \A k \in 1..m : rows[p[k]] # Blank
  BY <1>8, <1>10, LinesAreTold
<1>17. ASSUME i.parking # << >>, NEW r \in (label + 2)..(close - 1), r > label + 2,
              rows[r] = Blank, rows[r - 1] = Blank
       PROVE  FALSE
  <2>1. r \in Nat /\ r - 1 \in (label + 2)..(close - 1) /\ r # gap /\ r - 1 # r
    BY <1>9, <1>17
  <2>2. r = g
    BY <1>12, <1>16, <1>17, <2>1
  <2>3. r - 1 = gap
    BY <1>12, <1>16, <1>17, <2>1, <2>2
  <2>4. gap = label + 2
    BY <1>9, <2>1, <2>3
  <2>5. Below(g, 7 + n) = 8 + n
    BY <1>9, <2>4 DEF Below
  <2> QED
    BY <1>9, <2>1, <2>2, <2>3, <2>4, <2>5 DEF gap
<1>18. i.parking = << >> \/ NoTwoBlanks(rows, label + 2, close)
  BY <1>17 DEF NoTwoBlanks
<1>19. /\ \A k \in DOMAIN i.parking : /\ k \in 1..m /\ p[k] \in (label + 2)..(close - 1)
                                      /\ rows[p[k]] = ExactBays(i.parking[k])
       /\ \A r \in (label + 2)..(close - 1) : rows[r] = Blank \/ \E k \in DOMAIN i.parking : p[k] = r
  <2>1. CASE i.parking = << >>
    BY <1>8, <1>10, <1>15, <2>1
  <2>2. CASE i.parking # << >>
    BY <1>8, <1>10, <1>15, <2>2
  <2> QED
    BY <2>1, <2>2
<1>20. ParkingAt(rows, i, L, p)
  BY <1>1, <1>11, <1>18, <1>19 DEF ParkingAt
<1> QED
  BY <1>20 DEF L, p

LEMMA OneCell ==
    ASSUME NEW label, NEW v
    PROVE  /\ SheetRow(label, [E |-> v]).cells["E"] = v
           /\ SheetRow(label, [H |-> v]).cells["H"] = v
           /\ SheetRow(label, [I |-> v]).cells["I"] = v
<1> DEFINE e == [E |-> v]
           h == [H |-> v]
           j == [I |-> v]
<1>1. /\ DOMAIN e = {"E"} /\ e["E"] = v /\ DOMAIN h = {"H"} /\ h["H"] = v
      /\ DOMAIN j = {"I"} /\ j["I"] = v
  OBVIOUS
<1> HIDE DEF e, h, j
<1>2. /\ SheetRow(label, e).cells["E"] = v /\ SheetRow(label, h).cells["H"] = v
      /\ SheetRow(label, j).cells["I"] = v
  BY <1>1 DEF SheetRow, Columns
<1> QED
  BY <1>2 DEF e, h, j

LEMMA HeaderCell ==
    SheetRow("tenants", [x \in Columns |-> Text]).cells["F"] = Text
<1> DEFINE cells == [x \in Columns |-> Text]
<1>1. DOMAIN cells = Columns /\ cells["F"] = Text
  BY DEF Columns
<1> HIDE DEF cells
<1>2. SheetRow("tenants", cells).cells["F"] = Text
  BY <1>1 DEF SheetRow, Columns
<1> QED
  BY <1>2 DEF cells

LEMMA FiguresLaidOut ==
    ASSUME NEW rows, NEW base, NEW i \in ValuationInput, NEW sheet, NEW g,
           NEW n \in Nat, NEW m \in Nat \ {0}, Rendered(base, i, sheet, n, m),
           Spread(rows, base, g, 17 + n + m)
    PROVE  Written(rows, i, sheet, LayoutOf(g, n, m))
<1> DEFINE L == LayoutOf(g, n, m)
           last == 17 + n + m
<1>1. /\ L.date = Below(g, 2) /\ L.tenants = Below(g, 3) /\ L.total = Below(g, 12 + n + m)
      /\ L.vacancy = Below(g, 13 + n + m) /\ L.cap = Below(g, 16 + n + m)
      /\ L.value = Below(g, 17 + n + m)
  BY DEF LayoutOf
<1>2. /\ 2 \in 1..last /\ 3 \in 1..last /\ 12 + n + m \in 1..last
      /\ 13 + n + m \in 1..last /\ 16 + n + m \in 1..last /\ 17 + n + m \in 1..last
  OBVIOUS
<1>3. \A x \in 1..last : rows[Below(g, x)] = base[x]
  BY Zenon DEF Spread
<1>4. /\ base[2] = SheetRow("date", [E |-> i.date])
      /\ base[3] = SheetRow("tenants", [x \in Columns |-> Text])
      /\ base[12 + n + m] = SheetRow("sub total", [E |-> i.opex])
      /\ base[13 + n + m] = SheetRow("vacancy allowance", [H |-> i.vacancy])
      /\ base[16 + n + m] = SheetRow("capitalised", [H |-> i.cap])
      /\ base[17 + n + m] = SheetRow("open market assessment", [I |-> sheet])
  BY ZenonT(30) DEF Rendered
<1>5. /\ base[2].cells["E"] = i.date /\ base[3].cells["F"] = Text
      /\ base[12 + n + m].cells["E"] = i.opex /\ base[13 + n + m].cells["H"] = i.vacancy
      /\ base[16 + n + m].cells["H"] = i.cap /\ base[17 + n + m].cells["I"] = sheet
  <2>1. ASSUME NEW label, NEW v
        PROVE  /\ SheetRow(label, [E |-> v]).cells["E"] = v
               /\ SheetRow(label, [H |-> v]).cells["H"] = v
               /\ SheetRow(label, [I |-> v]).cells["I"] = v
    BY OneCell
  <2> DEFINE a == SheetRow("date", [E |-> i.date])
             b == SheetRow("tenants", [x \in Columns |-> Text])
             c == SheetRow("sub total", [E |-> i.opex])
             d == SheetRow("vacancy allowance", [H |-> i.vacancy])
             e == SheetRow("capitalised", [H |-> i.cap])
             f == SheetRow("open market assessment", [I |-> sheet])
  <2>2. /\ a.cells["E"] = i.date /\ b.cells["F"] = Text /\ c.cells["E"] = i.opex
        /\ d.cells["H"] = i.vacancy /\ e.cells["H"] = i.cap /\ f.cells["I"] = sheet
    BY <2>1, HeaderCell, ZenonT(30)
  <2>3. /\ base[2] = a /\ base[3] = b /\ base[12 + n + m] = c /\ base[13 + n + m] = d
        /\ base[16 + n + m] = e /\ base[17 + n + m] = f
    BY <1>4, Zenon
  <2> HIDE DEF a, b, c, d, e, f
  <2> QED
    BY <2>2, <2>3
<1> HIDE DEF L, last
<1>6. Written(rows, i, sheet, L)
  BY <1>1, <1>2, <1>3, <1>5, ZenonT(30) DEF Written
<1> QED
  BY <1>6 DEF L

LEMMA SpreadLaidOut ==
    ASSUME NEW rows, NEW base, NEW i \in ValuationInput, NEW sheet, NEW g,
           NEW n \in Nat, NEW m \in Nat \ {0}, Rendered(base, i, sheet, n, m),
           Spread(rows, base, g, 17 + n + m)
    PROVE  LaidOut(rows, i, sheet, LayoutOf(g, n, m), TenantPlaces(g, n), ParkingPlaces(g, n, m))
<1> DEFINE L == LayoutOf(g, n, m)
           t == TenantPlaces(g, n)
           p == ParkingPlaces(g, n, m)
<1>1. Labelled(rows, L)
  BY RenderedLabels, LayoutLabelled
<1>2. Ordered(L, Len(rows)) /\ DOMAIN rows = 1..Len(rows)
  <2>1. g \in Nat /\ Len(rows) \in Nat /\ DOMAIN rows = 1..Len(rows)
    BY Zenon DEF Spread
  <2>2. \A x \in 1..(17 + n + m) : Below(g, x) \in 1..Len(rows)
    BY Zenon DEF Spread
  <2>3. 17 + n + m \in 1..(17 + n + m)
    OBVIOUS
  <2>4. Below(g, 17 + n + m) <= Len(rows)
    BY <2>1, <2>2, <2>3
  <2> QED
    BY <2>1, <2>4, LayoutOrdered
<1>3. TenantsAt(rows, i, L, t) /\ ParkingAt(rows, i, L, p) /\ Written(rows, i, sheet, L)
  BY TenantsLaidOut, ParkingLaidOut, FiguresLaidOut
<1> HIDE DEF L, t, p
<1>4. LaidOut(rows, i, sheet, L, t, p)
  BY <1>1, <1>2, <1>3 DEF LaidOut
<1> QED
  BY <1>4 DEF L, t, p

\* A rendered sheet, and one with a blank row put anywhere into it, gives the
\* document it was rendered of.
LEMMA SpreadParsed ==
    ASSUME NEW rows, NEW base, NEW i \in ValuationInput, NEW sheet, NEW g,
           NEW n \in Nat, NEW m \in Nat \ {0}, Rendered(base, i, sheet, n, m),
           Spread(rows, base, g, 17 + n + m)
    PROVE  ParseWorkbook(rows) = Parsed(Reread(i), ReadDecimal(sheet), {})
BY SpreadLaidOut, LayoutParsed

LEMMA AsItIs ==
    ASSUME NEW rows, NEW last, Part(rows, last)
    PROVE  Spread(rows, rows, last + 1, last)
<1>1. rows \in Seq(Row) /\ last \in Nat /\ Len(rows) = last
  BY DEF Part
<1>2. last + 1 \in Nat /\ Len(rows) \in Nat /\ DOMAIN rows = 1..Len(rows)
  BY <1>1
<1>3. ASSUME NEW x \in 1..last PROVE Below(last + 1, x) = x
  BY <1>1 DEF Below
<1> QED
  BY <1>1, <1>2, <1>3 DEF Spread

LEMMA BlankPut ==
    ASSUME NEW rows, NEW last, Part(rows, last), NEW r \in 1..last
    PROVE  /\ Spread(WithBlankAt(rows, r), rows, r, last) /\ Len(WithBlankAt(rows, r)) = last + 1
           /\ WithBlankAt(rows, r) \in Seq(Row)
<1> DEFINE before == SubSeq(rows, 1, r - 1)
           after == SubSeq(rows, r, Len(rows))
           one == before \o <<Blank>>
           all == one \o after
<1>1. rows \in Seq(Row) /\ last \in Nat /\ Len(rows) = last /\ r \in Nat /\ 1 <= r /\ r <= last
  BY DEF Part
<1>2. Part(before, r - 1) /\ \A x \in 1..(r - 1) : before[x] = rows[x]
  BY <1>1 DEF Part
<1>3. Part(after, last - r + 1) /\ \A x \in 1..(last - r + 1) : after[x] = rows[r + x - 1]
  BY <1>1 DEF Part
<1>4. Part(<<Blank>>, 1) /\ <<Blank>>[1] = Blank
  BY WrittenRowsTyped DEF Part
<1> HIDE DEF before, after
<1>5. JoinOf(one, before, <<Blank>>, r - 1, 1)
  BY <1>2, <1>4, JoinedParts
<1>6. Part(one, r) /\ \A x \in 1..r : one[x] = IF x < r THEN rows[x] ELSE Blank
  <2>1. (r - 1) + 1 = r
    BY <1>1
  <2>2. Part(one, r) /\ \A x \in 1..r : one[x] = IF x <= r - 1 THEN before[x] ELSE <<Blank>>[x - (r - 1)]
    BY <1>5, <2>1 DEF JoinOf
  <2> HIDE DEF one
  <2>3. ASSUME NEW x \in 1..r PROVE one[x] = IF x < r THEN rows[x] ELSE Blank
    <3>1. CASE x < r
      <4>1. x \in 1..(r - 1) /\ x <= r - 1
        BY <1>1, <3>1
      <4> QED
        BY <1>2, <2>2, <3>1, <4>1
    <3>2. CASE x = r
      <4>1. ~(x <= r - 1) /\ x - (r - 1) = 1 /\ ~(x < r)
        BY <1>1, <3>2
      <4> QED
        BY <1>4, <2>2, <4>1
    <3> QED
      BY <1>1, <3>1, <3>2
  <2> QED
    BY <2>2, <2>3
<1> HIDE DEF one
<1>7. JoinOf(all, one, after, r, last - r + 1)
  BY <1>3, <1>6, JoinedParts
<1>8. /\ Part(all, last + 1)
      /\ \A x \in 1..(last + 1) : all[x] = IF x <= r THEN one[x] ELSE after[x - r]
  <2>1. r + (last - r + 1) = last + 1
    BY <1>1
  <2> QED
    BY <1>7, <2>1 DEF JoinOf
<1> HIDE DEF all
<1>9. all[r] = Blank
  <2>1. r \in 1..(last + 1) /\ r <= r /\ r \in 1..r /\ ~(r < r)
    BY <1>1
  <2> QED
    BY <1>6, <1>8, <2>1
<1>10. ASSUME NEW x \in 1..last PROVE Below(r, x) \in 1..(last + 1) /\ all[Below(r, x)] = rows[x]
  <2>1. CASE x < r
    <3>1. Below(r, x) = x /\ x \in 1..(last + 1) /\ x <= r /\ x \in 1..r
      BY <1>1, <2>1 DEF Below
    <3> QED
      BY <1>6, <1>8, <2>1, <3>1
  <2>2. CASE ~(x < r)
    <3> DEFINE y == x + 1
    <3>1. /\ Below(r, x) = y /\ y \in 1..(last + 1) /\ ~(y <= r) /\ y - r \in 1..(last - r + 1)
          /\ r + (y - r) - 1 = x
      BY <1>1, <2>2 DEF Below
    <3> HIDE DEF y
    <3>2. all[y] = after[y - r] /\ after[y - r] = rows[x]
      BY <1>3, <1>8, <3>1
    <3> QED
      BY <3>1, <3>2
  <2> QED
    BY <2>1, <2>2
<1>11. ASSUME NEW q \in 1..(last + 1), q # r PROVE \E x \in 1..last : q = Below(r, x)
  <2>1. CASE q < r
    <3>1. q \in 1..last /\ q = Below(r, q)
      BY <1>1, <2>1 DEF Below
    <3> QED
      BY <3>1
  <2>2. CASE q > r
    <3>1. q - 1 \in 1..last /\ q = Below(r, q - 1)
      BY <1>1, <2>2 DEF Below
    <3> QED
      BY <3>1
  <2> QED
    BY <1>1, <1>11, <2>1, <2>2
<1>12. all \in Seq(Row) /\ Len(all) = last + 1 /\ Len(all) \in Nat /\ DOMAIN all = 1..Len(all)
  BY <1>1, <1>8 DEF Part
<1>13. Spread(all, rows, r, last)
  BY <1>1, <1>9, <1>10, <1>11, <1>12 DEF Spread
<1> QED
  BY <1>12, <1>13 DEF WithBlankAt, all, one, before, after

-----------------------------------------------------------------------------
(* Floating point. *)

LEMMA MagnitudeNat == \A n \in Int : Magnitude(n) \in Nat /\ Magnitude(n) = IF n < 0 THEN -n ELSE n
BY DEF Magnitude

\* float() gives one of the nearest numbers, which one it has keeps, and which
\* is not on the other side of 0 or 1.
LEMMA FloatIs ==
    ASSUME NEW n \in Nat
    PROVE  /\ Float(n) \in Doubles /\ Float(n) \in Nat
           /\ n \in Doubles => Float(n) = n
           /\ Float(n) = 0 <=> n = 0
           /\ n <= Unit => Float(n) <= Unit
<1> DEFINE far == {Magnitude(m - n) : m \in Doubles}
           Nearest(m) == \A q \in Doubles : Magnitude(m - n) <= Magnitude(q - n)
<1>1. Doubles \subseteq Nat /\ 0 \in Doubles /\ 1 \in Doubles /\ Unit \in Doubles
  BY DoublesAssumption
<1>2. \A m \in Doubles : m \in Nat /\ m - n \in Int /\ Magnitude(m - n) \in Nat
  <2>1. \A m \in Doubles : m \in Nat /\ m - n \in Int
    BY <1>1
  <2> QED
    BY <2>1, MagnitudeNat
<1>3. far \in SUBSET Nat /\ far # {}
  BY <1>1, <1>2
<1>4. PICK least \in far : \A x \in far : least <= x
  <2> HIDE DEF far
  <2> QED
    BY <1>3, LeastNumber
<1>5. \E m \in Doubles : Nearest(m)
  BY <1>4
<1>6. CASE n \in Doubles
  BY <1>2, <1>6 DEF Float
<1>7. CASE n \notin Doubles
  <2> DEFINE m == CHOOSE m \in Doubles : Nearest(m)
  <2>1. Float(n) = m
    BY <1>7 DEF Float
  <2>2. m \in Doubles /\ Nearest(m)
    BY <1>5
  <2> HIDE DEF m
  <2>3. m \in Nat /\ Magnitude(m - n) <= Magnitude(1 - n) /\ Magnitude(m - n) <= Magnitude(Unit - n)
    BY <1>1, <1>2, <2>2
  <2>4. n # 0 /\ n >= 1
    BY <1>1, <1>7
  <2>5. m # 0
    BY <2>3, <2>4 DEF Magnitude
  <2>6. n <= Unit => m <= Unit
    BY <2>3, BoundAssumption DEF Magnitude
  <2> QED
    BY <1>7, <2>1, <2>2, <2>3, <2>4, <2>5, <2>6
<1> QED
  BY <1>6, <1>7

\* A document with its figures as floating point has them.
FloatTenant(t) ==
    [area |-> Float(t.area), rent |-> Float(t.rent), pct |-> Float(t.pct), next |-> t.next,
     expiry |-> t.expiry]

Floated(i) ==
    [date |-> i.date,
     tenants |-> [k \in DOMAIN i.tenants |-> FloatTenant(i.tenants[k])],
     parking |-> [k \in DOMAIN i.parking |-> KeptParking(i.parking[k])],
     opex |-> Float(i.opex), vacancy |-> Float(i.vacancy), cap |-> Float(i.cap),
     rounding |-> i.rounding]

LEMMA FloatedFields ==
    ASSUME NEW i
    PROVE  /\ Floated(i).date = i.date /\ Floated(i).opex = Float(i.opex)
           /\ Floated(i).vacancy = Float(i.vacancy) /\ Floated(i).cap = Float(i.cap)
           /\ Floated(i).rounding = i.rounding
           /\ Floated(i).tenants = [k \in DOMAIN i.tenants |-> FloatTenant(i.tenants[k])]
           /\ Floated(i).parking = [k \in DOMAIN i.parking |-> KeptParking(i.parking[k])]
BY DEF Floated

LEMMA FloatedLines ==
    /\ \A t \in Tenant : /\ FloatTenant(t) \in Tenant /\ TenantRow(t) = ExactRow(FloatTenant(t))
                         /\ [FloatTenant(t) EXCEPT !.next = None, !.expiry = None] = KeptTenant(t)
    /\ \A p \in Parking : /\ KeptParking(p) \in Parking /\ KeptParking(p).bays = p.bays
                          /\ KeptParking(p).rate = Float(p.rate)
                          /\ ParkingRow(p) = ExactBays(KeptParking(p))
<1>1. ASSUME NEW t \in Tenant
      PROVE  /\ FloatTenant(t) \in Tenant /\ TenantRow(t) = ExactRow(FloatTenant(t))
             /\ [FloatTenant(t) EXCEPT !.next = None, !.expiry = None] = KeptTenant(t)
  <2>1. /\ t.area \in Nat \ {0} /\ t.rent \in Nat /\ t.pct \in Nat
        /\ t.next \in Dates \cup {None} /\ t.expiry \in Dates \cup {None}
    BY DEF Tenant
  <2>2. /\ Float(t.area) \in Nat \ {0} /\ Float(t.rent) \in Nat /\ Float(t.pct) \in Nat
        /\ Float(t.pct) = 0 <=> t.pct = 0
    BY <2>1, FloatIs
  <2>3. FloatTenant(t) \in Tenant
    BY <2>1, <2>2 DEF FloatTenant, Tenant
  <2>4. /\ FloatTenant(t).area = Float(t.area) /\ FloatTenant(t).rent = Float(t.rent)
        /\ FloatTenant(t).pct = Float(t.pct) /\ FloatTenant(t).expiry = t.expiry
    BY DEF FloatTenant
  <2>5. (IF t.pct = 0 THEN None ELSE Float(t.pct))
          = (IF FloatTenant(t).pct = 0 THEN None ELSE FloatTenant(t).pct)
    BY <2>2, <2>4
  <2>6. TenantRow(t) = ExactRow(FloatTenant(t))
    BY <2>4, <2>5 DEF TenantRow, ExactRow
  <2>7. [FloatTenant(t) EXCEPT !.next = None, !.expiry = None] = KeptTenant(t)
    BY <2>3, <2>4, TenantDated DEF KeptTenant
  <2> QED
    BY <2>3, <2>6, <2>7
<1>2. ASSUME NEW p \in Parking
      PROVE  /\ KeptParking(p) \in Parking /\ KeptParking(p).bays = p.bays
             /\ KeptParking(p).rate = Float(p.rate) /\ ParkingRow(p) = ExactBays(KeptParking(p))
  <2>1. p.bays \in Nat /\ p.rate \in Nat /\ p = [bays |-> p.bays, rate |-> p.rate]
    BY DEF Parking
  <2>2. Float(p.rate) \in Nat
    BY <2>1, FloatIs
  <2>3. KeptParking(p) = [bays |-> p.bays, rate |-> Float(p.rate)]
    BY <2>1 DEF KeptParking
  <2>4. ParkingRow(p) = ExactBays(KeptParking(p))
    BY <2>3 DEF ParkingRow, ExactBays
  <2> QED
    BY <2>1, <2>2, <2>3, <2>4 DEF Parking
<1> QED
  BY <1>1, <1>2

LEMMA FloatedIsInput ==
    ASSUME NEW i \in ValuationInput
    PROVE  Floated(i) \in ValuationInput
<1> DEFINE n == Len(i.tenants)
           m == Len(i.parking)
           tenants == [k \in DOMAIN i.tenants |-> FloatTenant(i.tenants[k])]
           parking == [k \in DOMAIN i.parking |-> KeptParking(i.parking[k])]
<1>1. /\ n \in Nat /\ n # 0 /\ DOMAIN i.tenants = 1..n /\ \A k \in 1..n : i.tenants[k] \in Tenant
      /\ m \in Nat /\ DOMAIN i.parking = 1..m /\ \A k \in 1..m : i.parking[k] \in Parking
  BY InputFields
<1>2. (\A k \in 1..n : tenants[k] \in Tenant) /\ \A k \in 1..m : parking[k] \in Parking
  BY <1>1, FloatedLines
<1>3. tenants = [k \in 1..n |-> tenants[k]] /\ parking = [k \in 1..m |-> parking[k]]
  BY <1>1
<1> HIDE DEF n, m, tenants, parking
<1>4. tenants \in Seq(Tenant) /\ DOMAIN tenants = 1..n /\ tenants # << >> /\ parking \in Seq(Parking)
  BY <1>1, <1>2, <1>3
<1>5. /\ i.date \in Dates /\ Float(i.opex) \in Nat /\ Float(i.vacancy) \in 0..Unit
      /\ Float(i.cap) \in Nat \ {0} /\ i.rounding \in Rounding
  <2>1. /\ i.date \in Dates /\ i.opex \in Nat /\ i.vacancy \in Nat /\ i.vacancy <= Unit
        /\ i.cap \in Nat /\ i.cap # 0 /\ i.rounding \in Rounding
    BY InputFields, BoundAssumption
  <2> QED
    BY <2>1, FloatIs, BoundAssumption
<1>6. Floated(i) = [date |-> i.date, tenants |-> tenants, parking |-> parking,
                    opex |-> Float(i.opex), vacancy |-> Float(i.vacancy), cap |-> Float(i.cap),
                    rounding |-> i.rounding]
  BY DEF Floated, tenants, parking
<1> QED
  BY <1>4, <1>5, <1>6 DEF ValuationInput

\* What is written of a document is what is written, figure for figure, of the
\* one that floating point has; and that is what is read of it again.
LEMMA FloatedIsRendered ==
    ASSUME NEW i \in ValuationInput
    PROVE  Render(i) = Exact(Floated(i))
<1> DEFINE j == Floated(i)
           rowsOf == [k \in DOMAIN i.tenants |-> TenantRow(i.tenants[k])]
           bays == [k \in DOMAIN i.parking |-> ParkingRow(i.parking[k])]
<1>1. /\ \A k \in DOMAIN i.tenants : i.tenants[k] \in Tenant
      /\ \A k \in DOMAIN i.parking : i.parking[k] \in Parking
      /\ i.parking \in Seq(Parking)
  BY InputFields
<1>2. /\ j.date = i.date /\ j.opex = Float(i.opex) /\ j.vacancy = Float(i.vacancy)
      /\ j.cap = Float(i.cap)
      /\ j.tenants = [k \in DOMAIN i.tenants |-> FloatTenant(i.tenants[k])]
      /\ j.parking = [k \in DOMAIN i.parking |-> KeptParking(i.parking[k])]
  BY FloatedFields
<1> HIDE DEF j
<1>3. DOMAIN j.tenants = DOMAIN i.tenants /\ DOMAIN j.parking = DOMAIN i.parking
  BY <1>2
<1>4. TenantPart(j) = rowsOf
  <2>1. ASSUME NEW k \in DOMAIN i.tenants PROVE ExactRow(j.tenants[k]) = TenantRow(i.tenants[k])
    BY <1>1, <1>2, FloatedLines
  <2> QED
    BY <1>3, <2>1 DEF TenantPart
<1>5. ParkingPart(j) = IF i.parking = << >> THEN <<Blank>> ELSE bays
  <2>1. ASSUME NEW k \in DOMAIN i.parking PROVE ExactBays(j.parking[k]) = ParkingRow(i.parking[k])
    BY <1>1, <1>2, FloatedLines
  <2>2. j.parking = << >> <=> i.parking = << >>
    <3>1. j \in ValuationInput
      BY FloatedIsInput DEF j
    <3>2. j.parking \in Seq(Parking)
      BY <3>1, InputFields
    <3>3. \A q \in Seq(Parking) : q = << >> <=> DOMAIN q = {}
      OBVIOUS
    <3> QED
      BY <1>1, <1>3, <3>2, <3>3
  <2>3. [k \in DOMAIN j.parking |-> ExactBays(j.parking[k])] = bays
    BY <1>3, <2>1
  <2> QED
    BY <2>2, <2>3 DEF ParkingPart
<1> DEFINE bottom == <<SheetRow("sub total", NoCells), SheetRow("other", NoCells), SheetRow("other", NoCells),
                       SheetRow("operating expenses", [E |-> Text, F |-> Text, G |-> Text]),
                       SheetRow("sub total", [E |-> Float(i.opex)]),
                       SheetRow("vacancy allowance", [H |-> Float(i.vacancy)]),
                       SheetRow("other", NoCells), SheetRow("other", NoCells),
                       SheetRow("capitalised", [H |-> Float(i.cap)]),
                       SheetRow("open market assessment", NoCells)>>
           top == <<SheetRow("building name", [B |-> Text]), SheetRow("date", [E |-> i.date]),
                    SheetRow("tenants", [x \in Columns |-> Text])>>
<1>6. Top(j) = top /\ Bottom(j) = bottom
  BY <1>2 DEF Top, Bottom
<1>7. Render(i) = top \o rowsOf \o Middle \o ParkingGap
                    \o (IF i.parking = << >> THEN <<Blank>> ELSE bays) \o bottom
  BY Zenon DEF Render, Middle
<1> HIDE DEF top, bottom, rowsOf, bays
<1> QED
  BY <1>4, <1>5, <1>6, <1>7, Zenon DEF Exact, j

LEMMA FloatedIsKept ==
    ASSUME NEW i \in ValuationInput
    PROVE  Kept(i) = Reread(Floated(i))
<1> DEFINE j == Floated(i)
           A == WithBays(i.parking)
<1>1. /\ \A k \in DOMAIN i.tenants : i.tenants[k] \in Tenant
      /\ \A k \in DOMAIN i.parking : i.parking[k] \in Parking
  BY InputFields
<1>2. /\ j.date = i.date /\ j.opex = Float(i.opex) /\ j.vacancy = Float(i.vacancy)
      /\ j.cap = Float(i.cap)
      /\ j.tenants = [k \in DOMAIN i.tenants |-> FloatTenant(i.tenants[k])]
      /\ j.parking = [k \in DOMAIN i.parking |-> KeptParking(i.parking[k])]
  BY FloatedFields
<1> HIDE DEF j
<1>3. [k \in DOMAIN j.tenants |-> [j.tenants[k] EXCEPT !.next = None, !.expiry = None]]
        = [k \in DOMAIN i.tenants |-> KeptTenant(i.tenants[k])]
  <2>1. DOMAIN j.tenants = DOMAIN i.tenants
    BY <1>2
  <2>2. ASSUME NEW k \in DOMAIN i.tenants
        PROVE  [j.tenants[k] EXCEPT !.next = None, !.expiry = None] = KeptTenant(i.tenants[k])
    <3>1. j.tenants[k] = FloatTenant(i.tenants[k])
      BY <1>2
    <3>2. [FloatTenant(i.tenants[k]) EXCEPT !.next = None, !.expiry = None] = KeptTenant(i.tenants[k])
      BY <1>1, FloatedLines
    <3> QED
      BY <3>1, <3>2
  <2> QED
    BY <2>1, <2>2
<1>4. WithBays(j.parking) = A
  <2>1. \A k \in DOMAIN i.parking : j.parking[k].bays = i.parking[k].bays
    BY <1>1, <1>2, FloatedLines
  <2>2. DOMAIN j.parking = DOMAIN i.parking
    BY <1>2
  <2> QED
    BY <2>1, <2>2 DEF WithBays
<1> DEFINE parking == Chosen(i.parking, A)
<1>5. Chosen(j.parking, A) = [k \in DOMAIN parking |-> KeptParking(parking[k])]
  <2>1. DOMAIN parking = 1..Cardinality(A) /\ \A k \in 1..Cardinality(A) : parking[k] = i.parking[Nth(A, k)]
    BY DEF Chosen
  <2>2. \A k \in 1..Cardinality(A) : Nth(A, k) \in DOMAIN i.parking
    <3>1. \A k \in 1..Cardinality(A) : Nth(A, k) \in A
      BY BaysKept
    <3>2. A \subseteq DOMAIN i.parking
      BY DEF WithBays
    <3> QED
      BY <3>1, <3>2
  <2> HIDE DEF parking, A
  <2>3. ASSUME NEW k \in 1..Cardinality(A) PROVE j.parking[Nth(A, k)] = KeptParking(parking[k])
    BY <1>2, <2>1, <2>2
  <2>4. Chosen(j.parking, A) = [k \in 1..Cardinality(A) |-> j.parking[Nth(A, k)]]
    BY DEF Chosen
  <2> QED
    BY <2>1, <2>3, <2>4
<1> HIDE DEF parking, A
<1>6. Kept(i) = [date |-> i.date, tenants |-> [k \in DOMAIN i.tenants |-> KeptTenant(i.tenants[k])],
                 parking |-> [k \in DOMAIN parking |-> KeptParking(parking[k])],
                 opex |-> Float(i.opex), vacancy |-> Float(i.vacancy), cap |-> Float(i.cap),
                 rounding |-> "nearest_10000"]
  BY DEF Kept, parking, A
<1>7. Reread(j) = Kept(i)
  BY <1>2, <1>3, <1>4, <1>5, <1>6 DEF Reread
<1> QED
  BY <1>7 DEF j

\* A document whose figures floating point has is not changed.
LEMMA FloatedSame ==
    ASSUME NEW j \in ValuationInput, j.opex \in Doubles, j.vacancy \in Doubles, j.cap \in Doubles,
           \A k \in DOMAIN j.tenants :
              j.tenants[k].area \in Doubles /\ j.tenants[k].rent \in Doubles /\ j.tenants[k].pct \in Doubles,
           \A k \in DOMAIN j.parking : j.parking[k].rate \in Doubles
    PROVE  Floated(j) = j
<1>1. \A n \in Doubles : Float(n) = n
  BY DEF Float
<1>2. /\ \A k \in DOMAIN j.tenants : j.tenants[k] \in Tenant
      /\ \A k \in DOMAIN j.parking : j.parking[k] \in Parking
      /\ j.tenants = [k \in DOMAIN j.tenants |-> j.tenants[k]]
      /\ j.parking = [k \in DOMAIN j.parking |-> j.parking[k]]
  BY InputFields
<1>3. \A k \in DOMAIN j.tenants : FloatTenant(j.tenants[k]) = j.tenants[k]
  <2>1. ASSUME NEW t \in Tenant, t.area \in Doubles, t.rent \in Doubles, t.pct \in Doubles
        PROVE  FloatTenant(t) = t
    <3>1. t = [area |-> t.area, rent |-> t.rent, pct |-> t.pct, next |-> t.next, expiry |-> t.expiry]
      BY DEF Tenant
    <3>2. Float(t.area) = t.area /\ Float(t.rent) = t.rent /\ Float(t.pct) = t.pct
      BY <1>1, <2>1
    <3> QED
      BY <3>1, <3>2 DEF FloatTenant
  <2> QED
    BY <1>2, <2>1
<1>4. \A k \in DOMAIN j.parking : KeptParking(j.parking[k]) = j.parking[k]
  <2>1. ASSUME NEW p \in Parking, p.rate \in Doubles PROVE KeptParking(p) = p
    <3>1. p = [bays |-> p.bays, rate |-> p.rate] /\ Float(p.rate) = p.rate
      BY <1>1, <2>1 DEF Parking
    <3> QED
      BY <3>1 DEF KeptParking
  <2> QED
    BY <1>2, <2>1
<1>5. j = [date |-> j.date, tenants |-> j.tenants, parking |-> j.parking, opex |-> j.opex,
           vacancy |-> j.vacancy, cap |-> j.cap, rounding |-> j.rounding]
  BY DEF ValuationInput
<1>6. /\ [k \in DOMAIN j.tenants |-> FloatTenant(j.tenants[k])] = j.tenants
      /\ [k \in DOMAIN j.parking |-> KeptParking(j.parking[k])] = j.parking
  BY <1>2, <1>3, <1>4
<1>7. Float(j.opex) = j.opex /\ Float(j.vacancy) = j.vacancy /\ Float(j.cap) = j.cap
  BY <1>1
<1> QED
  BY <1>5, <1>6, <1>7 DEF Floated

\* What a file keeps is a document, and a file of that keeps all of it.
LEMMA KeptIsKept ==
    ASSUME NEW i \in ValuationInput
    PROVE  Kept(i) \in ValuationInput /\ Kept(Kept(i)) = Kept(i)
<1> DEFINE j == Kept(i)
           f == Floated(i)
<1>1. f \in ValuationInput /\ j = Reread(f)
  BY FloatedIsInput, FloatedIsKept
<1>2. /\ j \in ValuationInput /\ j.rounding = "nearest_10000"
      /\ \A k \in DOMAIN j.tenants : j.tenants[k].next = None /\ j.tenants[k].expiry = None
      /\ \A k \in DOMAIN j.parking : j.parking[k].bays # 0
  <2> HIDE DEF f, j
  <2>1. j.parking = Chosen(f.parking, WithBays(f.parking)) /\ j.rounding = "nearest_10000"
    BY <1>1, KeptFields
  <2>2. \A k \in DOMAIN Chosen(f.parking, WithBays(f.parking)) :
           Chosen(f.parking, WithBays(f.parking))[k].bays # 0
    BY <1>1, BaysKept
  <2> QED
    BY <1>1, <2>1, <2>2, KeptIsInput
<1>3. /\ j.date = i.date /\ j.opex = Float(i.opex) /\ j.vacancy = Float(i.vacancy)
      /\ j.cap = Float(i.cap)
  BY DEF Kept
<1>4. j.opex \in Doubles /\ j.vacancy \in Doubles /\ j.cap \in Doubles
  <2>1. i.opex \in Nat /\ i.vacancy \in Nat /\ i.cap \in Nat
    BY InputFields, BoundAssumption
  <2> QED
    BY <1>3, <2>1, FloatIs
<1>5. \A k \in DOMAIN j.tenants :
        j.tenants[k].area \in Doubles /\ j.tenants[k].rent \in Doubles /\ j.tenants[k].pct \in Doubles
  <2>1. j.tenants = [k \in DOMAIN i.tenants |-> KeptTenant(i.tenants[k])]
    BY DEF Kept
  <2> HIDE DEF j
  <2>2. ASSUME NEW k \in DOMAIN j.tenants
        PROVE  /\ j.tenants[k].area \in Doubles /\ j.tenants[k].rent \in Doubles
               /\ j.tenants[k].pct \in Doubles
    <3>1. k \in DOMAIN i.tenants /\ j.tenants[k] = KeptTenant(i.tenants[k])
      BY <2>1
    <3>2. i.tenants[k] \in Tenant
      BY <3>1, InputFields
    <3>3. i.tenants[k].area \in Nat /\ i.tenants[k].rent \in Nat /\ i.tenants[k].pct \in Nat
      BY <3>2 DEF Tenant
    <3>4. /\ KeptTenant(i.tenants[k]).area = Float(i.tenants[k].area)
          /\ KeptTenant(i.tenants[k]).rent = Float(i.tenants[k].rent)
          /\ KeptTenant(i.tenants[k]).pct = Float(i.tenants[k].pct)
      BY DEF KeptTenant
    <3> QED
      BY <3>1, <3>3, <3>4, FloatIs
  <2> QED
    BY <2>2
<1>6. \A k \in DOMAIN j.parking : j.parking[k].rate \in Doubles
  <2> DEFINE parking == Chosen(i.parking, WithBays(i.parking))
  <2>1. j.parking = [k \in DOMAIN parking |-> KeptParking(parking[k])]
    BY DEF Kept
  <2>2. \A k \in DOMAIN parking : parking[k] \in Parking
    BY BaysKept
  <2> HIDE DEF j, parking
  <2>3. ASSUME NEW k \in DOMAIN j.parking PROVE j.parking[k].rate \in Doubles
    <3>1. j.parking[k] = KeptParking(parking[k]) /\ parking[k] \in Parking
      BY <2>1, <2>2
    <3>2. parking[k].rate \in Nat /\ KeptParking(parking[k]).rate = Float(parking[k].rate)
      BY <3>1, FloatedLines DEF Parking
    <3> QED
      BY <3>1, <3>2, FloatIs
  <2> QED
    BY <2>3
<1> HIDE DEF j, f
<1>7. Floated(j) = j
  BY <1>2, <1>4, <1>5, <1>6, FloatedSame
<1>8. Reread(j) = j
  BY <1>2, KeptAll
<1>9. Kept(j) = j
  BY <1>2, <1>7, <1>8, FloatedIsKept
<1> QED
  BY <1>2, <1>9 DEF j

-----------------------------------------------------------------------------
(* The value of the sheet's formulas. *)

\* The monthly income without any escalation, in parts of Unit times Unit.
ParkingIncome(i) == SumFunctionOnSet(ParkingLines(i), DOMAIN i.parking)
SheetIncome(i) == MonthlyRoll(i) + Unit * ParkingIncome(i)

RollLines(i) == [k \in DOMAIN i.tenants |-> i.tenants[k].rent * i.tenants[k].area]

LEMMA SheetIncomeParts ==
    ASSUME NEW i \in ValuationInput
    PROVE  /\ \A k \in DOMAIN i.tenants : RollLines(i)[k] \in Nat
           /\ \A k \in DOMAIN i.parking : ParkingLines(i)[k] \in Nat
           /\ MonthlyRoll(i) = SumFunctionOnSet(RollLines(i), DOMAIN i.tenants)
           /\ MonthlyRoll(i) \in Nat
           /\ ParkingIncome(i) \in Nat
           /\ SheetIncome(i) \in Nat
<1>1. ASSUME NEW k \in DOMAIN i.tenants PROVE RollLines(i)[k] \in Nat
  <2>1. i.tenants[k].rent \in Nat /\ i.tenants[k].area \in Nat
    BY InputFields
  <2> QED
    BY <2>1 DEF RollLines
<1>2. ASSUME NEW k \in DOMAIN i.parking PROVE ParkingLines(i)[k] \in Nat
  <2>1. i.parking[k].bays \in Nat /\ i.parking[k].rate \in Nat
    BY InputFields
  <2> QED
    BY <2>1 DEF ParkingLines
<1>3. IsFiniteSet(DOMAIN i.tenants) /\ IsFiniteSet(DOMAIN i.parking)
  BY InputFields
<1>4. MonthlyRoll(i) = SumFunctionOnSet(RollLines(i), DOMAIN i.tenants)
  <2>1. DOMAIN RollLines(i) = DOMAIN i.tenants
    BY DEF RollLines
  <2>2. MonthlyRoll(i) = SumFunction(RollLines(i))
    BY DEF MonthlyRoll, RollLines
  <2> QED
    BY <2>1, <2>2, SumOfAll
<1>5. SumFunctionOnSet(RollLines(i), DOMAIN i.tenants) \in Nat
  BY <1>1, <1>3, SumNat
<1>6. ParkingIncome(i) \in Nat
  BY <1>2, <1>3, SumNat DEF ParkingIncome
<1>7. Unit * ParkingIncome(i) \in Nat
  BY <1>6, BoundAssumption
<1> QED
  BY <1>1, <1>2, <1>4, <1>5, <1>6, <1>7 DEF SheetIncome

\* Of the rows the renderer writes, those of the lists have two numbers.
LEMMA NumbersWritten ==
    /\ ~TwoNumbers(Blank)
    /\ \A label : ~TwoNumbers(SheetRow(label, NoCells))
    /\ \A label, v : /\ ~TwoNumbers(SheetRow(label, [B |-> v]))
                     /\ ~TwoNumbers(SheetRow(label, [E |-> v]))
                     /\ ~TwoNumbers(SheetRow(label, [H |-> v]))
                     /\ ~TwoNumbers(SheetRow(label, [I |-> v]))
    /\ \A label : /\ ~TwoNumbers(SheetRow(label, [F |-> Text, G |-> Text]))
                  /\ ~TwoNumbers(SheetRow(label, [E |-> Text, F |-> Text, G |-> Text]))
                  /\ ~TwoNumbers(SheetRow(label, [x \in Columns |-> Text]))
    /\ \A t \in Tenant : TwoNumbers(ExactRow(t))
    /\ \A p \in Parking : TwoNumbers(ExactBays(p))
<1>1. ASSUME NEW label, NEW cells, "F" \notin DOMAIN cells \/ cells["F"] = Text
      PROVE  ~TwoNumbers(SheetRow(label, cells))
  <2>1. SheetRow(label, cells).cells["F"] \in {None, Text}
    BY <1>1, SheetRowCells DEF Columns
  <2>2. Figure(SheetRow(label, cells), "F") = None
    BY <2>1, NumbersRead DEF Figure
  <2> QED
    BY <2>2 DEF TwoNumbers
<1>2. ASSUME NEW label PROVE ~TwoNumbers(SheetRow(label, NoCells))
  <2>1. DOMAIN NoCells = {}
    BY DEF NoCells
  <2> QED
    BY <1>1, <2>1
<1>3. ASSUME NEW label, NEW v
      PROVE  /\ ~TwoNumbers(SheetRow(label, [B |-> v]))
             /\ ~TwoNumbers(SheetRow(label, [E |-> v]))
             /\ ~TwoNumbers(SheetRow(label, [H |-> v]))
             /\ ~TwoNumbers(SheetRow(label, [I |-> v]))
  <2> DEFINE b == [B |-> v]
             e == [E |-> v]
             h == [H |-> v]
             j == [I |-> v]
  <2>1. "F" \notin DOMAIN b /\ "F" \notin DOMAIN e /\ "F" \notin DOMAIN h /\ "F" \notin DOMAIN j
    OBVIOUS
  <2> HIDE DEF b, e, h, j
  <2>2. /\ ~TwoNumbers(SheetRow(label, b)) /\ ~TwoNumbers(SheetRow(label, e))
        /\ ~TwoNumbers(SheetRow(label, h)) /\ ~TwoNumbers(SheetRow(label, j))
    BY <1>1, <2>1
  <2> QED
    BY <2>2 DEF b, e, h, j
<1>4. ASSUME NEW label
      PROVE  /\ ~TwoNumbers(SheetRow(label, [F |-> Text, G |-> Text]))
             /\ ~TwoNumbers(SheetRow(label, [E |-> Text, F |-> Text, G |-> Text]))
             /\ ~TwoNumbers(SheetRow(label, [x \in Columns |-> Text]))
  <2> DEFINE two == [F |-> Text, G |-> Text]
             three == [E |-> Text, F |-> Text, G |-> Text]
             all == [x \in Columns |-> Text]
  <2>1. two["F"] = Text /\ three["F"] = Text /\ all["F"] = Text
    BY DEF Columns
  <2> HIDE DEF two, three, all
  <2>2. /\ ~TwoNumbers(SheetRow(label, two)) /\ ~TwoNumbers(SheetRow(label, three))
        /\ ~TwoNumbers(SheetRow(label, all))
    BY <1>1, <2>1
  <2> QED
    BY <2>2 DEF two, three, all
<1>5. \A n \in Nat : ReadDecimal(n) # None
  BY NumbersRead
<1>6. ASSUME NEW t \in Tenant PROVE TwoNumbers(ExactRow(t))
  <2>1. t.area \in Nat /\ t.rent \in Nat
    BY DEF Tenant
  <2>2. ExactRow(t).cells["F"] = t.area /\ ExactRow(t).cells["G"] = t.rent
    BY TenantRowCells
  <2>3. ReadDecimal(t.area) # None /\ ReadDecimal(t.rent) # None
    BY <1>5, <2>1
  <2> QED
    BY <2>2, <2>3, Zenon DEF TwoNumbers, Figure
<1>7. ASSUME NEW p \in Parking PROVE TwoNumbers(ExactBays(p))
  <2>1. p.bays * Unit \in Nat /\ p.rate \in Nat
    BY BoundAssumption DEF Parking
  <2>2. ExactBays(p).cells["F"] = p.bays * Unit /\ ExactBays(p).cells["G"] = p.rate
    BY ParkingRowCells
  <2>3. ReadDecimal(p.bays * Unit) # None /\ ReadDecimal(p.rate) # None
    BY <1>5, <2>1
  <2> QED
    BY <2>2, <2>3, Zenon DEF TwoNumbers, Figure
<1>8. ~TwoNumbers(Blank)
  BY <1>2 DEF Blank
<1> QED
  BY <1>2, <1>3, <1>4, <1>6, <1>7, <1>8

\* A sum over consecutive lines is one over their numbers.
CopiedBelow(f, h, from, n) == \A k \in 1..n : f[from + k] = h[k] /\ h[k] \in Int

LEMMA SumMoved ==
    ASSUME NEW f, NEW h, NEW from \in Nat, NEW n \in Nat, CopiedBelow(f, h, from, n)
    PROVE  SumFunctionOnSet(f, (from + 1)..(from + n)) = SumFunctionOnSet(h, 1..n)
<1> DEFINE S == (from + 1)..(from + n)
           G == 1..n
           key == [x \in S |-> x - from]
           at == [k \in G |-> from + k]
<1>0. \A k \in 1..n : f[from + k] = h[k] /\ h[k] \in Int
  BY DEF CopiedBelow
<1>1. IsFiniteSet(S) /\ IsFiniteSet(G)
  BY FS_Interval
<1>2. ASSUME NEW x \in S PROVE f[x] \in Int /\ key[x] \in G /\ at[key[x]] = x
  <2>1. x - from \in G /\ from + (x - from) = x
    OBVIOUS
  <2> QED
    BY <1>0, <2>1
<1>3. ASSUME NEW k \in G PROVE at[k] \in S /\ key[at[k]] = k /\ h[k] = f[at[k]]
  <2>1. from + k \in S /\ (from + k) - from = k
    OBVIOUS
  <2> QED
    BY <1>0, <2>1
<1> HIDE DEF S, G, key, at
<1>4. SumFunctionOnSet(h, G) = SumFunctionOnSet(f, S)
  BY <1>1, <1>2, <1>3, SumRenamed
<1> QED
  BY <1>4 DEF S, G

\* The lines of parking, in parts of Unit times Unit.
BayLines(i) == [k \in DOMAIN i.parking |-> Unit * ParkingLines(i)[k]]

LEMMA BaysAddUp ==
    ASSUME NEW i \in ValuationInput
    PROVE  /\ \A k \in DOMAIN i.parking : BayLines(i)[k] \in Int
           /\ SumFunctionOnSet(BayLines(i), DOMAIN i.parking) = Unit * ParkingIncome(i)
<1> DEFINE S == DOMAIN i.parking
<1>1. IsFiniteSet(S) /\ Unit \in Int
  BY InputFields, BoundAssumption
<1>2. ASSUME NEW k \in S
      PROVE  /\ ParkingLines(i)[k] \in Int /\ BayLines(i)[k] = Unit * ParkingLines(i)[k]
             /\ BayLines(i)[k] \in Int
  <2>1. ParkingLines(i)[k] \in Nat
    BY SheetIncomeParts
  <2>2. BayLines(i)[k] = Unit * ParkingLines(i)[k]
    BY DEF BayLines
  <2>3. \A x \in Nat : \A u \in Int : u * x \in Int
    OBVIOUS
  <2> QED
    BY <1>1, <2>1, <2>2, <2>3
<1> HIDE DEF S
<1>3. SumFunctionOnSet(BayLines(i), S) = Unit * SumFunctionOnSet(ParkingLines(i), S)
  BY <1>1, <1>2, SumTimes
<1> QED
  BY <1>2, <1>3 DEF S, ParkingIncome

SheetLines(rows) ==
    [r \in DOMAIN rows |-> IF TwoNumbers(rows[r]) THEN rows[r].cells["F"] * rows[r].cells["G"] ELSE 0]

\* The rents and the parking of the sheet.
LEMMA SheetAddsUp ==
    ASSUME NEW rows, NEW i \in ValuationInput, NEW sheet, NEW n \in Nat, NEW m \in Nat \ {0},
           Rendered(rows, i, sheet, n, m)
    PROVE  SumFunction(SheetLines(rows)) = SheetIncome(i)
<1> DEFINE last == 17 + n + m
           A == (3 + 1)..(3 + n)
           B == (7 + n + 1)..(7 + n + m)
           C == {1, 2, 3, 4 + n, 5 + n, 6 + n, 7 + n}
           D == (8 + n + m)..(17 + n + m)
           f == SheetLines(rows)
<1>1. DOMAIN rows = 1..last
  <2>1. Part(rows, last)
    BY Zenon DEF Rendered
  <2> QED
    BY <2>1 DEF Part
<1>2. \A r \in 1..last : f[r] = IF TwoNumbers(rows[r]) THEN rows[r].cells["F"] * rows[r].cells["G"] ELSE 0
  BY <1>1 DEF SheetLines
<1>3. DOMAIN f = 1..last
  BY <1>1 DEF SheetLines
<1>4. /\ DOMAIN i.tenants = 1..n /\ \A k \in 1..n : i.tenants[k] \in Tenant
      /\ i.parking = << >> => DOMAIN i.parking = {}
      /\ i.parking # << >> => DOMAIN i.parking = 1..m /\ \A k \in 1..m : i.parking[k] \in Parking
  <2>1. n = Tenants(i) /\ m = Lines(i)
    BY Zenon DEF Rendered
  <2> QED
    BY <2>1, InputFields DEF Tenants, Lines
<1> HIDE DEF f
<1>5. ASSUME NEW k \in 1..n PROVE f[3 + k] = RollLines(i)[k]
  <2>1. 3 + k \in 1..last
    OBVIOUS
  <2>2. rows[3 + k] = ExactRow(i.tenants[k])
    BY Zenon DEF Rendered
  <2>3. /\ ExactRow(i.tenants[k]).cells["F"] = i.tenants[k].area
        /\ ExactRow(i.tenants[k]).cells["G"] = i.tenants[k].rent
    BY TenantRowCells
  <2>4. TwoNumbers(rows[3 + k])
    BY <1>4, <2>2, NumbersWritten
  <2>5. f[3 + k] = i.tenants[k].area * i.tenants[k].rent
    BY <1>2, <2>1, <2>2, <2>3, <2>4
  <2>6. i.tenants[k].area \in Nat /\ i.tenants[k].rent \in Nat
    BY <1>4, InputFields
  <2>7. RollLines(i)[k] = i.tenants[k].rent * i.tenants[k].area
    BY <1>4 DEF RollLines
  <2> QED
    BY <2>5, <2>6, <2>7
<1>6. ASSUME NEW k \in 1..m
      PROVE  f[7 + n + k] = IF i.parking = << >> THEN 0 ELSE BayLines(i)[k]
  <2>1. 7 + n + k \in 1..last
    OBVIOUS
  <2>2. rows[7 + n + k] = IF i.parking = << >> THEN Blank ELSE ExactBays(i.parking[k])
    BY Zenon DEF Rendered
  <2>3. CASE i.parking = << >>
    BY <1>2, <2>1, <2>2, <2>3, NumbersWritten
  <2>4. CASE i.parking # << >>
    <3>1. /\ ExactBays(i.parking[k]).cells["F"] = i.parking[k].bays * Unit
          /\ ExactBays(i.parking[k]).cells["G"] = i.parking[k].rate
      BY ParkingRowCells
    <3>2. TwoNumbers(rows[7 + n + k])
      BY <1>4, <2>2, <2>4, NumbersWritten
    <3>3. f[7 + n + k] = (i.parking[k].bays * Unit) * i.parking[k].rate
      BY <1>2, <2>1, <2>2, <2>4, <3>1, <3>2
    <3>4. i.parking[k].bays \in Nat /\ i.parking[k].rate \in Nat /\ Unit \in Nat
      BY <1>4, <2>4, BoundAssumption DEF Parking
    <3>5. \A x, y, z \in Nat : (x * z) * y = z * (x * y)
      OBVIOUS
    <3>6. BayLines(i)[k] = Unit * (i.parking[k].bays * i.parking[k].rate)
      BY <1>4, <2>4 DEF BayLines, ParkingLines
    <3> QED
      BY <2>4, <3>3, <3>4, <3>5, <3>6
  <2> QED
    BY <2>3, <2>4
<1>7. ASSUME NEW r \in C PROVE r \in 1..last /\ f[r] = 0
  <2>1. /\ rows[1] = SheetRow("building name", [B |-> Text])
        /\ rows[2] = SheetRow("date", [E |-> i.date])
        /\ rows[3] = SheetRow("tenants", [x \in Columns |-> Text])
        /\ rows[4 + n] = SheetRow("sub total", NoCells) /\ rows[5 + n] = Blank
        /\ rows[6 + n] = SheetRow("parking", [F |-> Text, G |-> Text]) /\ rows[7 + n] = Blank
    BY ZenonT(30) DEF Rendered
  <2>2. ~TwoNumbers(rows[1]) /\ ~TwoNumbers(rows[2]) /\ ~TwoNumbers(rows[3])
    <3>1. /\ ~TwoNumbers(SheetRow("building name", [B |-> Text]))
          /\ ~TwoNumbers(SheetRow("date", [E |-> i.date]))
          /\ ~TwoNumbers(SheetRow("tenants", [x \in Columns |-> Text]))
      BY NumbersWritten
    <3> QED
      BY <2>1, <3>1
  <2>3. ~TwoNumbers(rows[4 + n]) /\ ~TwoNumbers(rows[5 + n]) /\ ~TwoNumbers(rows[6 + n])
        /\ ~TwoNumbers(rows[7 + n])
    BY <2>1, NumbersWritten, ZenonT(60)
  <2>4. ~TwoNumbers(rows[r])
    BY <2>2, <2>3
  <2>5. r \in 1..last
    OBVIOUS
  <2> HIDE DEF last, C
  <2> QED
    BY <1>2, <2>4, <2>5
<1>8. ASSUME NEW r \in D PROVE r \in 1..last /\ f[r] = 0
  <2>1. /\ rows[8 + n + m] = SheetRow("sub total", NoCells)
        /\ rows[9 + n + m] = SheetRow("other", NoCells)
        /\ rows[10 + n + m] = SheetRow("other", NoCells)
        /\ rows[11 + n + m] = SheetRow("operating expenses", [E |-> Text, F |-> Text, G |-> Text])
        /\ rows[12 + n + m] = SheetRow("sub total", [E |-> i.opex])
        /\ rows[13 + n + m] = SheetRow("vacancy allowance", [H |-> i.vacancy])
        /\ rows[14 + n + m] = SheetRow("other", NoCells)
        /\ rows[15 + n + m] = SheetRow("other", NoCells)
        /\ rows[16 + n + m] = SheetRow("capitalised", [H |-> i.cap])
        /\ rows[17 + n + m] = SheetRow("open market assessment", [I |-> sheet])
    BY ZenonT(30) DEF Rendered
  <2>2. ~TwoNumbers(rows[8 + n + m]) /\ ~TwoNumbers(rows[9 + n + m]) /\ ~TwoNumbers(rows[10 + n + m])
        /\ ~TwoNumbers(rows[11 + n + m])
    BY <2>1, NumbersWritten, ZenonT(60)
  <2>3. ~TwoNumbers(rows[12 + n + m]) /\ ~TwoNumbers(rows[13 + n + m]) /\ ~TwoNumbers(rows[14 + n + m])
    BY <2>1, NumbersWritten, ZenonT(60)
  <2>4. ~TwoNumbers(rows[15 + n + m]) /\ ~TwoNumbers(rows[16 + n + m]) /\ ~TwoNumbers(rows[17 + n + m])
    BY <2>1, NumbersWritten, ZenonT(60)
  <2>5. \/ r = 8 + n + m \/ r = 9 + n + m \/ r = 10 + n + m \/ r = 11 + n + m \/ r = 12 + n + m
        \/ r = 13 + n + m \/ r = 14 + n + m \/ r = 15 + n + m \/ r = 16 + n + m \/ r = 17 + n + m
    OBVIOUS
  <2>6. ~TwoNumbers(rows[r])
    BY <2>2, <2>3, <2>4, <2>5
  <2>7. r \in 1..last
    OBVIOUS
  <2> HIDE DEF last, D
  <2> QED
    BY <1>2, <2>6, <2>7
<1>9. SumFunctionOnSet(f, A) = MonthlyRoll(i)
  <2>1. CopiedBelow(f, RollLines(i), 3, n)
    BY <1>4, <1>5, SheetIncomeParts DEF CopiedBelow
  <2>2. 3 \in Nat
    OBVIOUS
  <2>3. SumFunctionOnSet(f, A) = SumFunctionOnSet(RollLines(i), 1..n)
    BY <2>1, <2>2, SumMoved
  <2> QED
    BY <1>4, <2>3, SheetIncomeParts
<1>10. SumFunctionOnSet(f, B) = SumFunctionOnSet(BayLines(i), DOMAIN i.parking)
  <2>1. CASE i.parking = << >>
    <3>1. IsFiniteSet(B)
      BY FS_Interval
    <3>2. ASSUME NEW r \in B PROVE f[r] = 0
      <4>1. r - (7 + n) \in 1..m /\ 7 + n + (r - (7 + n)) = r
        OBVIOUS
      <4> QED
        BY <1>6, <2>1, <4>1
    <3> HIDE DEF B
    <3>3. SumFunctionOnSet(f, B) = 0
      BY <3>1, <3>2, SumZero
    <3>4. SumFunctionOnSet(BayLines(i), DOMAIN i.parking) = 0
      BY <1>4, <2>1, SumEmpty
    <3> QED
      BY <3>3, <3>4
  <2>2. CASE i.parking # << >>
    <3>1. CopiedBelow(f, BayLines(i), 7 + n, m)
      BY <1>4, <1>6, <2>2, BaysAddUp DEF CopiedBelow
    <3>2. 7 + n \in Nat /\ m \in Nat
      OBVIOUS
    <3>3. SumFunctionOnSet(f, B) = SumFunctionOnSet(BayLines(i), 1..m)
      BY <3>1, <3>2, SumMoved
    <3> QED
      BY <1>4, <2>2, <3>3
  <2> QED
    BY <2>1, <2>2
<1>11. SumFunctionOnSet(f, C \cup D) = 0
  <2>1. IsFiniteSet(C \cup D)
    <3>1. IsFiniteSet(1..last)
      BY FS_Interval
    <3>2. \A r \in C \cup D : r \in 1..last
      BY <1>7, <1>8
    <3> HIDE DEF C, D, last
    <3>3. C \cup D \subseteq 1..last
      BY <3>2
    <3> QED
      BY <3>1, <3>3, FS_Subset
  <2>2. \A r \in C \cup D : f[r] = 0
    BY <1>7, <1>8
  <2> HIDE DEF C, D
  <2> QED
    BY <2>1, <2>2, SumZero
<1>12. /\ 1..last = (A \cup B) \cup (C \cup D)
       /\ A \cap B = {} /\ (A \cup B) \cap (C \cup D) = {}
  <2>1. \A r : r \in 1..last <=> r \in A \/ r \in B \/ r \in C \/ r \in D
    OBVIOUS
  <2>2. A \cap B = {}
    OBVIOUS
  <2>3. A \cap C = {} /\ A \cap D = {} /\ B \cap C = {} /\ B \cap D = {}
    OBVIOUS
  <2> HIDE DEF A, B, C, D, last
  <2> QED
    BY <2>1, <2>2, <2>3
<1>13. \A r \in 1..last : f[r] \in Int
  <2>1. ASSUME NEW r \in A PROVE f[r] \in Int
    <3>1. r - 3 \in 1..n /\ 3 + (r - 3) = r
      OBVIOUS
    <3>2. f[r] = RollLines(i)[r - 3] /\ RollLines(i)[r - 3] \in Int
      BY <1>4, <1>5, <3>1, SheetIncomeParts
    <3> QED
      BY <3>2
  <2>2. ASSUME NEW r \in B PROVE f[r] \in Int
    <3>1. r - (7 + n) \in 1..m /\ 7 + n + (r - (7 + n)) = r
      OBVIOUS
    <3>2. f[r] = 0 \/ (i.parking # << >> /\ f[r] = BayLines(i)[r - (7 + n)])
      BY <1>6, <3>1
    <3> QED
      BY <1>4, <3>1, <3>2, BaysAddUp
  <2> HIDE DEF A, B, C, D, last
  <2> QED
    BY <1>7, <1>8, <1>12, <2>1, <2>2
<1>14. IsFiniteSet(A) /\ IsFiniteSet(B) /\ IsFiniteSet(A \cup B) /\ IsFiniteSet(C \cup D)
  <2>1. IsFiniteSet(1..last)
    BY FS_Interval
  <2> HIDE DEF A, B, C, D, last
  <2> QED
    BY <1>12, <2>1, FS_Subset
<1> HIDE DEF A, B, C, D, last
<1>15. SumFunctionOnSet(f, A \cup B) = SumFunctionOnSet(f, A) + SumFunctionOnSet(f, B)
  <2>1. \A r \in A \cup B : f[r] \in Int
    BY <1>12, <1>13
  <2> QED
    BY <1>12, <1>14, <2>1, SumUnion
<1>16. SumFunctionOnSet(f, 1..last) = SumFunctionOnSet(f, A \cup B) + SumFunctionOnSet(f, C \cup D)
  <2>1. \A r \in (A \cup B) \cup (C \cup D) : f[r] \in Int
    BY <1>12, <1>13
  <2>2. SumFunctionOnSet(f, (A \cup B) \cup (C \cup D))
          = SumFunctionOnSet(f, A \cup B) + SumFunctionOnSet(f, C \cup D)
    BY <1>12, <1>14, <2>1, SumUnion
  <2> QED
    BY <1>12, <2>2
<1>17. SumFunctionOnSet(f, 1..last) = SheetIncome(i)
  <2>1. MonthlyRoll(i) \in Nat /\ Unit * ParkingIncome(i) \in Nat
    BY SheetIncomeParts, BoundAssumption
  <2>2. SumFunctionOnSet(f, B) = Unit * ParkingIncome(i)
    BY <1>10, BaysAddUp
  <2> QED
    BY <1>9, <1>11, <1>15, <1>16, <2>1, <2>2 DEF SheetIncome
<1>18. SumFunction(f) = SumFunctionOnSet(f, DOMAIN f)
  BY SumOfAll
<1> QED
  BY <1>3, <1>17, <1>18 DEF f

LEMMA ScaledQuotient ==
    ASSUME NEW a \in Nat, NEW b \in Nat \ {0}, NEW s \in Nat \ {0}
    PROVE  (s * a) \div (s * b) = a \div b
<1> DEFINE q == a \div b
           x == s * a
           y == s * b
<1>1. q \in Int /\ b * q <= a /\ a < b * q + b
  OBVIOUS
<1>2. x \in Int /\ y \in Nat \ {0}
  OBVIOUS
<1> HIDE DEF q
<1>3. s * (b * q) = y * q /\ s * (b * q + b) = y * q + y
  <2>1. \A c, d, e \in Int : d * (e * c) = (d * e) * c /\ d * (e * c + e) = (d * e) * c + d * e
    OBVIOUS
  <2>2. s \in Int /\ b \in Int /\ q \in Int
    BY <1>1
  <2> QED
    BY <2>1, <2>2
<1>4. ASSUME NEW u \in Int, NEW v \in Int
      PROVE  (u <= v => s * u <= s * v) /\ (u < v => s * u < s * v)
  <2>1. s * (v - u) = s * v - s * u /\ s * v \in Int /\ s * u \in Int
    OBVIOUS
  <2>2. \A k \in Nat : s * k >= 0
    OBVIOUS
  <2>3. \A k \in Nat \ {0} : s * k >= 1
    OBVIOUS
  <2>4. ASSUME u <= v PROVE s * u <= s * v
    <3>1. v - u \in Nat
      BY <2>4
    <3>2. s * (v - u) >= 0
      BY <2>2, <3>1
    <3> QED
      BY <2>1, <3>2
  <2>5. ASSUME u < v PROVE s * u < s * v
    <3>1. v - u \in Nat \ {0}
      BY <2>5
    <3>2. s * (v - u) >= 1
      BY <2>3, <3>1
    <3> QED
      BY <2>1, <3>2
  <2> QED
    BY <2>4, <2>5
<1>5. b * q \in Int /\ b * q + b \in Int /\ a \in Int
  BY <1>1
<1> HIDE DEF x, y
<1>6. y * q <= x /\ x < y * q + y
  <2>1. s * (b * q) <= s * a /\ s * a < s * (b * q + b)
    BY <1>1, <1>4, <1>5
  <2> QED
    BY <1>3, <2>1 DEF x
<1>7. x \div y = q
  BY <1>1, <1>2, <1>6
<1> QED
  BY <1>7 DEF x, y, q

\* What is rounded does not depend on the parts it is counted in.
LEMMA HalfUpScaled ==
    ASSUME NEW n \in Int, NEW d \in Nat \ {0}, NEW s \in Nat \ {0}
    PROVE  HalfUp(s * n, s * d) = HalfUp(n, d)
<1>1. s * n >= 0 <=> n >= 0
  <2>1. n >= 0 => s * n >= 0
    OBVIOUS
  <2>2. CASE n <= -1
    <3>1. \A k \in Nat \ {0} : s * k >= 1
      OBVIOUS
    <3>2. -n \in Nat \ {0}
      BY <2>2
    <3>3. s * (-n) >= 1
      BY <3>1, <3>2
    <3>4. s * (-n) = -(s * n) /\ s * n \in Int
      OBVIOUS
    <3> QED
      BY <2>2, <3>3, <3>4
  <2> QED
    BY <2>1, <2>2
<1>2. CASE n >= 0
  <2>1. 2 * (s * n) + s * d = s * (2 * n + d) /\ 2 * (s * d) = s * (2 * d)
    OBVIOUS
  <2>2. 2 * n + d \in Nat /\ 2 * d \in Nat \ {0}
    BY <1>2
  <2>3. (s * (2 * n + d)) \div (s * (2 * d)) = (2 * n + d) \div (2 * d)
    BY <2>2, ScaledQuotient
  <2>4. HalfUp(s * n, s * d) = (2 * (s * n) + s * d) \div (2 * (s * d))
    BY <1>1, <1>2 DEF HalfUp
  <2>5. HalfUp(n, d) = (2 * n + d) \div (2 * d)
    BY <1>2 DEF HalfUp
  <2> QED
    BY <2>1, <2>3, <2>4, <2>5
<1>3. CASE ~(n >= 0)
  <2>1. s * d - 2 * (s * n) = s * (d - 2 * n) /\ 2 * (s * d) = s * (2 * d)
    OBVIOUS
  <2>2. d - 2 * n \in Nat /\ 2 * d \in Nat \ {0}
    BY <1>3
  <2>3. (s * (d - 2 * n)) \div (s * (2 * d)) = (d - 2 * n) \div (2 * d)
    BY <2>2, ScaledQuotient
  <2>4. HalfUp(s * n, s * d) = -((s * d - 2 * (s * n)) \div (2 * (s * d)))
    BY <1>1, <1>3 DEF HalfUp
  <2>5. HalfUp(n, d) = -((d - 2 * n) \div (2 * d))
    BY <1>3 DEF HalfUp
  <2> QED
    BY <2>1, <2>3, <2>4, <2>5
<1> QED
  BY <1>2, <1>3

\* The yearly net income of the sheet, in parts of the cube of Unit, and what
\* the sheet makes of it, in parts of Unit.
SheetNet(i) == 12 * SheetIncome(i) * (Unit - i.vacancy) - 12 * i.opex * Unit * Unit
SheetRounded(i, p) == Unit * p * HalfUp(SheetNet(i), i.cap * p * Unit * Unit)

\* What Excel writes into the file: whatever is calculated is a number.
LEMMA SheetValueIs ==
    ASSUME NEW rows, NEW i \in ValuationInput, NEW sheet, NEW n \in Nat, NEW m \in Nat \ {0},
           Rendered(rows, i, sheet, n, m), NEW digits \in {0, 3, 4}
    PROVE  /\ SheetValue(rows, digits) = SheetRounded(i, 10 ^ digits)
           /\ SheetValue(rows, digits) \in Int
           /\ SheetNet(i) \in Int
<1> DEFINE last == 17 + n + m
           L == LayoutOf(last + 1, n, m)
           p == 10 ^ digits
<1>1. Figures(rows, i, sheet, L, 1)
  <2>1. Part(rows, last)
    BY Zenon DEF Rendered
  <2>2. Spread(rows, rows, last + 1, 17 + n + m)
    BY <2>1, AsItIs
  <2>3. LaidOut(rows, i, sheet, L, TenantPlaces(last + 1, n), ParkingPlaces(last + 1, n, m))
    BY <2>2, SpreadLaidOut
  <2>4. 1 \in 1..L.close
    <3>1. /\ L.close \in Nat /\ L.date \in Nat /\ L.tenants \in Nat /\ L.end \in Nat /\ L.parking \in Nat
          /\ 1 <= L.date /\ L.date < L.tenants /\ L.tenants < L.end /\ L.end < L.parking
          /\ L.parking + 2 < L.close
      BY <2>3 DEF LaidOut, Ordered
    <3> HIDE DEF L
    <3> QED
      BY <3>1
  <2> HIDE DEF L
  <2> QED
    BY <2>3, <2>4, FiguresRead
<1>2. p \in Nat \ {0}
  <2>1. 10 ^ 0 = 1 /\ 10 ^ 3 = 1000 /\ 10 ^ 4 = 10000
    OBVIOUS
  <2>2. CASE digits = 0
    BY <2>1, <2>2
  <2>3. CASE digits = 3
    BY <2>1, <2>3
  <2>4. CASE digits = 4
    BY <2>1, <2>4
  <2> QED
    BY <2>2, <2>3, <2>4
<1> HIDE DEF p, L, last
<1>3. SheetValue(rows, digits) =
        Unit * p * HalfUp(12 * SumFunction(SheetLines(rows)) * (Unit - ReadVacancy(rows, 1))
                            - 12 * ReadOpex(rows, 1) * Unit * Unit,
                          ReadCap(rows, 1) * p * Unit * Unit)
  BY DEF SheetValue, SheetLines, p
<1>4. /\ SumFunction(SheetLines(rows)) = SheetIncome(i)
      /\ ReadVacancy(rows, 1) = i.vacancy /\ ReadCap(rows, 1) = i.cap
      /\ ReadOpex(rows, 1) = i.opex
  BY <1>1, SheetAddsUp DEF Figures
<1>5. SheetValue(rows, digits) = SheetRounded(i, p)
  BY <1>3, <1>4 DEF SheetNet, SheetRounded
<1>6. SheetNet(i) \in Int /\ i.cap * p * Unit * Unit \in Nat \ {0}
  <2>1. /\ SheetIncome(i) \in Nat /\ Unit \in Nat \ {0} /\ i.vacancy \in Int /\ i.opex \in Nat
        /\ i.cap \in Nat \ {0}
    BY SheetIncomeParts, InputFields, BoundAssumption
  <2>2. 12 * SheetIncome(i) * (Unit - i.vacancy) \in Int /\ 12 * i.opex * Unit * Unit \in Int
    BY <2>1
  <2>3. \A x, y \in Nat \ {0} : x * y \in Nat \ {0}
    OBVIOUS
  <2>4. i.cap * p * Unit * Unit \in Nat \ {0}
    BY <1>2, <2>1, <2>3
  <2> QED
    BY <2>2, <2>4 DEF SheetNet
<1>7. HalfUp(SheetNet(i), i.cap * p * Unit * Unit) \in Int
  BY <1>6, HalfUpIsNearest
<1>8. SheetRounded(i, p) \in Int
  <2>1. \A x, y, z \in Int : x * y * z \in Int
    OBVIOUS
  <2>2. Unit \in Int /\ p \in Int
    BY <1>2, BoundAssumption
  <2> QED
    BY <1>7, <2>1, <2>2 DEF SheetRounded
<1> QED
  BY <1>5, <1>6, <1>8 DEF p

\* The engine's income is the sheet's where no rent escalates.
LEMMA IncomeUnescalated ==
    ASSUME NEW i \in ValuationInput, \A k \in DOMAIN i.tenants : Cycles(i.tenants[k].next, i.date) = 0
    PROVE  MonthlyIncome(i) = Compound * SheetIncome(i)
<1> DEFINE S == DOMAIN i.tenants
<1>1. WithinCycles(i)
  BY BoundAssumption DEF WithinCycles
<1>2. IsFiniteSet(S) /\ Compound \in Nat \ {0} /\ Compound \in Int
  BY InputFields, ScalePositive
<1>3. ASSUME NEW k \in S PROVE RollLines(i)[k] \in Int /\ RentLines(i)[k] = Compound * RollLines(i)[k]
  <2> DEFINE t == i.tenants[k]
  <2>1. t.rent \in Nat /\ t.area \in Nat /\ t.pct \in Nat
    BY InputFields
  <2>2. Cycles(t.next, i.date) = 0
    OBVIOUS
  <2>3. EffectiveRent(t, i.date) = t.rent * (Power(Unit + t.pct, 0) * Power(Unit, MaxCycles - 0))
    BY <2>2 DEF EffectiveRent
  <2>4. Power(Unit + t.pct, 0) = 1 /\ MaxCycles - 0 = MaxCycles
    BY PowerSteps, BoundAssumption
  <2>5. EffectiveRent(t, i.date) = t.rent * Compound
    BY <1>2, <2>1, <2>3, <2>4 DEF Compound
  <2>6. RollLines(i)[k] = t.rent * t.area /\ RentLines(i)[k] = (t.rent * Compound) * t.area
    BY <2>5 DEF RentLines, RollLines
  <2>7. \A x, y, z \in Nat : (x * z) * y = z * (x * y) /\ x * y \in Int
    OBVIOUS
  <2> HIDE DEF t
  <2> QED
    BY <1>2, <2>1, <2>6, <2>7
<1>4. SumFunctionOnSet(RentLines(i), S) = Compound * SumFunctionOnSet(RollLines(i), S)
  <2> HIDE DEF S
  <2> QED
    BY <1>2, <1>3, SumTimes
<1>5. MonthlyIncome(i) = Compound * MonthlyRoll(i) + (Unit * Compound) * ParkingIncome(i)
  BY <1>1, <1>4, IncomeParts, SheetIncomeParts DEF Finer, ParkingIncome
<1>6. MonthlyRoll(i) \in Int /\ ParkingIncome(i) \in Int /\ Unit \in Int
  BY SheetIncomeParts, BoundAssumption
<1>7. \A c, u, x, y \in Int : c * x + (u * c) * y = c * (x + u * y)
  OBVIOUS
<1> QED
  BY <1>2, <1>5, <1>6, <1>7 DEF SheetIncome

\* Parking without bays pays nothing, so that a file keeps the income.
LEMMA KeptIncome ==
    ASSUME NEW i \in ValuationInput
    PROVE  SheetIncome(Reread(i)) = SheetIncome(i)
<1> DEFINE j == Reread(i)
           A == WithBays(i.parking)
           S == DOMAIN i.tenants
           D == DOMAIN i.parking
           f == ParkingLines(i)
           h == ParkingLines(j)
<1>1. j \in ValuationInput /\ DOMAIN j.tenants = S /\ j.parking = Chosen(i.parking, A)
      /\ \A k \in S : j.tenants[k] = [i.tenants[k] EXCEPT !.next = None, !.expiry = None]
  <2>1. j \in ValuationInput
    BY KeptIsInput
  <2>2. j.tenants = [k \in S |-> [i.tenants[k] EXCEPT !.next = None, !.expiry = None]]
    BY KeptFields
  <2>3. j.parking = Chosen(i.parking, A)
    BY KeptFields
  <2> HIDE DEF j, S
  <2> QED
    BY <2>1, <2>2, <2>3
<1> HIDE DEF j
<1>2. IsFiniteSet(S) /\ IsFiniteSet(D)
  BY InputFields
<1>3. MonthlyRoll(j) = MonthlyRoll(i)
  <2>1. ASSUME NEW k \in S PROVE RollLines(j)[k] = RollLines(i)[k]
    <3>1. i.tenants[k] \in Tenant
      BY InputFields
    <3>2. j.tenants[k].rent = i.tenants[k].rent /\ j.tenants[k].area = i.tenants[k].area
      BY <1>1, <3>1 DEF Tenant
    <3> QED
      BY <1>1, <3>2 DEF RollLines
  <2>2. /\ MonthlyRoll(j) = SumFunctionOnSet(RollLines(j), S)
        /\ MonthlyRoll(i) = SumFunctionOnSet(RollLines(i), S)
    BY <1>1, SheetIncomeParts
  <2> HIDE DEF S
  <2>3. SumFunctionOnSet(RollLines(j), S) = SumFunctionOnSet(RollLines(i), S)
    BY <1>2, <2>1, SumSame
  <2> QED
    BY <2>2, <2>3
<1>4. /\ A \subseteq D /\ (\A k \in D : k \in A <=> i.parking[k].bays # 0) /\ (\A k \in D : k \in Nat)
      /\ \A k \in D : i.parking[k].bays \in Nat /\ i.parking[k].rate \in Nat
  BY InputFields DEF WithBays
<1>5. \A k \in D : f[k] \in Int /\ f[k] = i.parking[k].bays * i.parking[k].rate
  BY SheetIncomeParts DEF ParkingLines
<1>6. IsFiniteSet(A) /\ IsFiniteSet(D \ A)
  BY <1>2, <1>4, FS_Subset
<1>7. Cardinality(A) \in Nat /\ \A k \in 1..Cardinality(A) : Nth(A, k) \in A
  BY BaysKept
<1> HIDE DEF A, D, f, h
<1>8. DOMAIN j.parking = 1..Cardinality(A) /\ \A k \in 1..Cardinality(A) : h[k] = f[Nth(A, k)]
  <2>1. j.parking = [k \in 1..Cardinality(A) |-> i.parking[Nth(A, k)]]
    BY <1>1 DEF Chosen
  <2>2. DOMAIN j.parking = 1..Cardinality(A)
    BY <2>1
  <2>3. ASSUME NEW k \in 1..Cardinality(A) PROVE h[k] = f[Nth(A, k)]
    <3>1. j.parking[k] = i.parking[Nth(A, k)]
      BY <2>1
    <3>2. h[k] = j.parking[k].bays * j.parking[k].rate
      BY <2>2 DEF ParkingLines, h
    <3>3. Nth(A, k) \in D
      BY <1>4, <1>7
    <3> QED
      BY <1>5, <3>1, <3>2, <3>3
  <2> QED
    BY <2>2, <2>3
<1>9. SumFunctionOnSet(h, 1..Cardinality(A)) = SumFunctionOnSet(f, A)
  BY <1>4, <1>5, <1>6, <1>8, SumChosen
<1>10. SumFunctionOnSet(f, D \ A) = 0
  <2>1. ASSUME NEW k \in D \ A PROVE f[k] = 0
    <3>1. /\ f[k] = i.parking[k].bays * i.parking[k].rate
          /\ i.parking[k].bays = 0 /\ i.parking[k].rate \in Nat
      BY <1>4, <1>5
    <3> QED
      BY <3>1
  <2> QED
    BY <1>6, <2>1, SumZero
<1>11. SumFunctionOnSet(f, D) = SumFunctionOnSet(f, A)
  <2>1. A \cap (D \ A) = {} /\ A \cup (D \ A) = D
    BY <1>4
  <2>2. \A k \in A \cup (D \ A) : f[k] \in Int
    BY <1>5, <2>1
  <2>3. SumFunctionOnSet(f, A \cup (D \ A)) = SumFunctionOnSet(f, A) + SumFunctionOnSet(f, D \ A)
    BY <1>6, <2>1, <2>2, SumUnion
  <2>4. SumFunctionOnSet(f, A) \in Int
    BY <1>4, <1>5, <1>6, SumInt
  <2>5. SumFunctionOnSet(f, D) = SumFunctionOnSet(f, A \cup (D \ A))
    BY <2>1, Zenon
  <2> DEFINE x == SumFunctionOnSet(f, A)
             y == SumFunctionOnSet(f, D \ A)
             z == SumFunctionOnSet(f, A \cup (D \ A))
  <2>6. z = x + y /\ y = 0 /\ x \in Int
    BY <1>10, <2>3, <2>4
  <2> HIDE DEF x, y, z
  <2>7. z = x
    BY <2>6
  <2> QED
    BY <2>5, <2>7 DEF x, z
<1>12. SheetIncome(j) = SheetIncome(i)
  <2>1. SheetIncome(j) = MonthlyRoll(j) + Unit * SumFunctionOnSet(h, DOMAIN j.parking)
    BY DEF SheetIncome, ParkingIncome, h
  <2>2. SheetIncome(i) = MonthlyRoll(i) + Unit * SumFunctionOnSet(f, D)
    BY DEF SheetIncome, ParkingIncome, f, D
  <2> QED
    BY <1>3, <1>8, <1>9, <1>11, <2>1, <2>2
<1> QED
  BY <1>12 DEF j

\* The engine's market value is the sheet's where no rent escalates.
LEMMA ValueUnescalated ==
    ASSUME NEW i \in ValuationInput, \A k \in DOMAIN i.tenants : Cycles(i.tenants[k].next, i.date) = 0,
           i.rounding = "nearest_10000"
    PROVE  Calculate(i).value = [num |-> Finer * SheetRounded(i, 10000), den |-> 1]
<1>1. /\ SheetIncome(i) \in Nat /\ Unit \in Nat \ {0} /\ i.vacancy \in Int /\ i.opex \in Nat
      /\ i.cap \in Nat \ {0} /\ Compound \in Nat \ {0}
  BY SheetIncomeParts, InputFields, BoundAssumption, ScalePositive
<1> DEFINE income == SheetIncome(i)
           let == Unit - i.vacancy
           costs == 12 * i.opex * Unit
           net == SheetNet(i)
           d == i.cap * 10000 * Unit * Unit
<1>2. /\ income \in Int /\ let \in Int /\ costs \in Int /\ Compound \in Int /\ Unit \in Int
      /\ net = 12 * income * let - costs * Unit /\ net \in Int /\ d \in Nat \ {0}
  <2>1. income \in Int /\ let \in Int /\ costs \in Int /\ Compound \in Int /\ Unit \in Int
    BY <1>1
  <2>2. net = 12 * income * let - costs * Unit
    BY DEF SheetNet
  <2>3. \A x, y \in Nat \ {0} : x * y \in Nat \ {0}
    OBVIOUS
  <2>4. d \in Nat \ {0}
    BY <1>1, <2>3
  <2> HIDE DEF income, let, costs, net, d
  <2>5. net \in Int
    BY <2>1, <2>2
  <2> QED
    BY <2>1, <2>2, <2>4, <2>5
<1>3. NetIncome(i) = 12 * (Compound * income) * let - costs * (Unit * Compound)
  BY IncomeUnescalated DEF NetIncome, GrossIncome, LetShare, Finer
<1>4. i.cap * 10000 * Scale = Compound * d
  <2>1. \A x, u, c \in Int : x * (u * (u * c)) = c * (x * u * u)
    OBVIOUS
  <2>2. i.cap * 10000 \in Int
    BY <1>1
  <2> QED
    BY <1>2, <2>1, <2>2 DEF Scale, Finer
<1> HIDE DEF income, let, costs, net, d
<1>5. NetIncome(i) = Compound * net
  <2>1. \A s, x, y, z, u \in Int : 12 * (s * x) * y - z * (u * s) = s * (12 * x * y - z * u)
    OBVIOUS
  <2> QED
    BY <1>2, <1>3, <2>1
<1>6. Calculate(i).value = RoundToIncrement(Capitalised(i), 10000)
  BY DEF Calculate, Increment
<1>7. Capitalised(i).num = Compound * net /\ Capitalised(i).den = i.cap
  BY <1>5 DEF Capitalised
<1>8. Calculate(i).value =
        [num |-> 10000 * Scale * HalfUp(Compound * net, Compound * d), den |-> 1]
  BY <1>4, <1>6, <1>7 DEF RoundToIncrement
<1>9. HalfUp(Compound * net, Compound * d) = HalfUp(net, d)
  BY <1>1, <1>2, HalfUpScaled
<1> DEFINE rounded == HalfUp(net, d)
<1>10. rounded \in Int
  BY <1>2, HalfUpIsNearest
<1>11. Calculate(i).value = [num |-> 10000 * Scale * rounded, den |-> 1]
  BY <1>8, <1>9
<1>12. SheetRounded(i, 10000) = Unit * 10000 * rounded
  BY DEF SheetRounded, net, d
<1> HIDE DEF rounded
<1>13. 10000 * Scale * rounded = Finer * (Unit * 10000 * rounded)
  <2>1. \A u, f, r \in Int : 10000 * (u * f) * r = f * (u * 10000 * r)
    OBVIOUS
  <2>2. Finer \in Int
    BY ScalePositive
  <2> QED
    BY <1>2, <1>10, <2>1, <2>2 DEF Scale
<1> QED
  BY <1>11, <1>12, <1>13

LEMMA ValueOfKept ==
    ASSUME NEW i \in ValuationInput
    PROVE  Calculate(Reread(i)).value = [num |-> Finer * SheetRounded(i, 10000), den |-> 1]
<1> DEFINE j == Reread(i)
<1>1. /\ j \in ValuationInput /\ j.rounding = "nearest_10000"
      /\ j.cap = i.cap /\ j.opex = i.opex /\ j.vacancy = i.vacancy
  BY KeptIsInput, KeptFields
<1>2. \A k \in DOMAIN j.tenants : j.tenants[k].next = None
  BY KeptIsInput
<1>3. SheetIncome(j) = SheetIncome(i)
  BY KeptIncome
<1> HIDE DEF j
<1>4. \A k \in DOMAIN j.tenants : Cycles(j.tenants[k].next, j.date) = 0
  BY <1>2 DEF Cycles
<1>5. SheetNet(j) = SheetNet(i)
  BY <1>1, <1>3 DEF SheetNet
<1>6. Calculate(j).value = [num |-> Finer * SheetRounded(j, 10000), den |-> 1]
  BY <1>1, <1>4, ValueUnescalated
<1>7. SheetRounded(j, 10000) = SheetRounded(i, 10000)
  BY <1>1, <1>5 DEF SheetRounded
<1> QED
  BY <1>6, <1>7 DEF j

\* Where floating point has the figures, the sheet adds up the same.
LEMMA DigitsKept ==
    ASSUME NEW i \in ValuationInput, KeepsDigits(i), NEW p
    PROVE  SheetRounded(Floated(i), p) = SheetRounded(i, p)
<1> DEFINE j == Floated(i)
<1>1. \A n \in Doubles : Float(n) = n
  BY DEF Float
<1>2. /\ i.opex \in Doubles /\ i.vacancy \in Doubles /\ i.cap \in Doubles
      /\ \A k \in DOMAIN i.tenants : i.tenants[k].area \in Doubles /\ i.tenants[k].rent \in Doubles
      /\ \A k \in DOMAIN i.parking : i.parking[k].rate \in Doubles
  BY DEF KeepsDigits
<1>3. j.opex = i.opex /\ j.vacancy = i.vacancy /\ j.cap = i.cap
  BY <1>1, <1>2, FloatedFields
<1>4. MonthlyRoll(j) = MonthlyRoll(i)
  <2>1. j.tenants = [k \in DOMAIN i.tenants |-> FloatTenant(i.tenants[k])]
    BY FloatedFields
  <2> HIDE DEF j
  <2>2. ASSUME NEW k \in DOMAIN i.tenants
        PROVE  j.tenants[k].rent = i.tenants[k].rent /\ j.tenants[k].area = i.tenants[k].area
    <3>1. j.tenants[k] = FloatTenant(i.tenants[k])
      BY <2>1
    <3>2. /\ FloatTenant(i.tenants[k]).rent = Float(i.tenants[k].rent)
          /\ FloatTenant(i.tenants[k]).area = Float(i.tenants[k].area)
      BY DEF FloatTenant
    <3> QED
      BY <1>1, <1>2, <3>1, <3>2
  <2>3. DOMAIN j.tenants = DOMAIN i.tenants
    BY <2>1
  <2>4. [k \in DOMAIN j.tenants |-> j.tenants[k].rent * j.tenants[k].area]
          = [k \in DOMAIN i.tenants |-> i.tenants[k].rent * i.tenants[k].area]
    BY <2>2, <2>3
  <2> QED
    BY <2>4 DEF MonthlyRoll
<1>5. ParkingIncome(j) = ParkingIncome(i)
  <2>1. j.parking = [k \in DOMAIN i.parking |-> KeptParking(i.parking[k])]
    BY FloatedFields
  <2> HIDE DEF j
  <2>2. ASSUME NEW k \in DOMAIN i.parking
        PROVE  j.parking[k].bays = i.parking[k].bays /\ j.parking[k].rate = i.parking[k].rate
    <3>1. j.parking[k] = KeptParking(i.parking[k]) /\ i.parking[k] \in Parking
      BY <2>1, InputFields
    <3> QED
      BY <1>1, <1>2, <3>1, FloatedLines
  <2>3. DOMAIN j.parking = DOMAIN i.parking
    BY <2>1
  <2>4. ParkingLines(j) = ParkingLines(i)
    BY <2>2, <2>3 DEF ParkingLines
  <2> QED
    BY <2>3, <2>4 DEF ParkingIncome
<1> HIDE DEF j
<1>6. SheetNet(j) = SheetNet(i)
  BY <1>3, <1>4, <1>5 DEF SheetNet, SheetIncome
<1> QED
  BY <1>3, <1>6 DEF SheetRounded, j

-----------------------------------------------------------------------------
(* The file at hand. *)

\* A file that was not edited is as it was rendered, the figures as floating
\* point has them, or calculated besides; one that was edited shows no value.
Unvalued(rows) ==
    \A r \in DOMAIN rows : rows[r].label = "open market assessment" => rows[r].cells["I"] = None

AsRendered(rows, i, sheet) == Rendered(rows, i, sheet, Tenants(i), Lines(i))

Calculation(rows, i, digits) ==
    \/ AsRendered(rows, i, None)
    \/ \E v \in Int : /\ AsRendered(rows, i, v)
                      /\ v = SheetRounded(i, 10 ^ digits)

AsExported ==
    book # None =>
        /\ book.rows \in Seq(Row)
        /\ book.edits = 0 => Calculation(book.rows, Floated(inputs), book.digits)
        /\ book.edits # 0 => Unvalued(book.rows)

LEMMA UnvaluedNotCalculated ==
    ASSUME NEW rows \in Seq(Row)
    PROVE  Unvalued(rows) => ~Calculated(rows)
<1> SUFFICES ASSUME Unvalued(rows), Calculated(rows) PROVE FALSE
  OBVIOUS
<1> DEFINE last == Len(rows)
           found == {r \in 1..last : rows[r].label = "open market assessment"}
           r == FindLabelRow(rows, "open market assessment", 1)
<1>0. last \in Nat /\ DOMAIN rows = 1..last
  OBVIOUS
<1>1. r # 0 /\ rows[r].cells["I"] # None
  <2>1. CellOf(rows, "open market assessment", 1, "I") # None
    BY DEF Calculated
  <2> HIDE DEF r
  <2> QED
    BY <2>1 DEF CellOf, r
<1>2. found # {} /\ r = Min(found)
  BY <1>1 DEF FindLabelRow
<1> HIDE DEF last
<1>3. PICK least \in found : \A q \in found : least <= q
  <2>1. \A q \in 1..last : q \in Nat
    BY <1>0
  <2>2. found \in SUBSET Nat
    BY <2>1
  <2> HIDE DEF found
  <2> QED
    BY <1>2, <2>2, LeastNumber
<1>4. Min(found) = least
  <2>0. \A q \in 1..last : q \in Nat
    BY <1>0, RowNumbers, Zenon
  <2>1. found \in SUBSET Nat
    BY <2>0
  <2> HIDE DEF found
  <2>2. found \in SUBSET Int
    BY <2>1
  <2> QED
    BY <1>3, <2>2, MinIs
<1>5. least \in DOMAIN rows /\ rows[least].label = "open market assessment"
  BY <1>0
<1>6. rows[least].cells["I"] = None
  BY <1>5 DEF Unvalued
<1> HIDE DEF r, found
<1> QED
  BY <1>1, <1>2, <1>4, <1>6

LEMMA RenderedTyped ==
    ASSUME NEW rows, NEW i \in ValuationInput, NEW sheet, AsRendered(rows, i, sheet)
    PROVE  /\ Part(rows, 17 + Tenants(i) + Lines(i))
           /\ rows \in Seq(Row)
           /\ Tenants(i) \in Nat /\ Lines(i) \in Nat \ {0}
           /\ ParseWorkbook(rows) = Parsed(Reread(i), ReadDecimal(sheet), {})
           /\ CellOf(rows, "open market assessment", 1, "I") = sheet
           /\ sheet = None => Unvalued(rows)
<1> DEFINE n == Tenants(i)
           m == Lines(i)
           last == 17 + n + m
           L == LayoutOf(last + 1, n, m)
<1>1. n \in Nat /\ m \in Nat \ {0}
  BY PartsTyped
<1>2. Rendered(rows, i, sheet, n, m)
  BY DEF AsRendered
<1> HIDE DEF n, m
<1>3. Part(rows, last)
  BY <1>2, Zenon DEF Rendered
<1>4. Spread(rows, rows, last + 1, 17 + n + m)
  BY <1>3, AsItIs
<1>5. ParseWorkbook(rows) = Parsed(Reread(i), ReadDecimal(sheet), {})
  BY <1>1, <1>2, <1>4, SpreadParsed
<1>6. LaidOut(rows, i, sheet, L, TenantPlaces(last + 1, n), ParkingPlaces(last + 1, n, m))
  BY <1>1, <1>2, <1>4, SpreadLaidOut
<1>7. CellOf(rows, "open market assessment", 1, "I") = sheet
  <2>1. 1 \in 1..L.close
    <3>1. /\ L.close \in Nat /\ L.date \in Nat /\ L.tenants \in Nat /\ L.end \in Nat /\ L.parking \in Nat
          /\ 1 <= L.date /\ L.date < L.tenants /\ L.tenants < L.end /\ L.end < L.parking
          /\ L.parking + 2 < L.close
      BY <1>6 DEF LaidOut, Ordered
    <3> HIDE DEF L
    <3> QED
      BY <3>1
  <2> HIDE DEF L
  <2>2. Figures(rows, i, sheet, L, 1)
    BY <1>6, <2>1, FiguresRead
  <2> QED
    BY <2>2 DEF Figures
<1>8. rows \in Seq(Row) /\ DOMAIN rows = 1..last
  BY <1>3 DEF Part
<1>9. ASSUME sheet = None PROVE Unvalued(rows)
  <2>1. LabelsOf(rows, n, m)
    BY <1>1, <1>2, RenderedLabels
  <2>2. \A r \in 1..last : rows[r].label = "open market assessment" => r = 17 + n + m
    BY <2>1 DEF LabelsOf
  <2>3. rows[17 + n + m] = SheetRow("open market assessment", [I |-> sheet])
    BY <1>2, Zenon DEF Rendered
  <2> DEFINE row == SheetRow("open market assessment", [I |-> sheet])
  <2>4. row.cells["I"] = sheet
    BY OneCell
  <2> HIDE DEF row
  <2>5. rows[17 + n + m].cells["I"] = None
    <3>1. rows[17 + n + m] = row
      BY <2>3 DEF row
    <3> QED
      BY <1>9, <2>4, <3>1
  <2> QED
    BY <1>8, <2>2, <2>5 DEF Unvalued
<1> QED
  BY <1>1, <1>3, <1>5, <1>7, <1>8, <1>9 DEF n, m

\* A sheet that is calculated shows the value, and nothing else is different.
Valued(rows, v) ==
    [r \in DOMAIN rows |-> IF rows[r].label = "open market assessment"
                             THEN [rows[r] EXCEPT !.cells["I"] = v]
                             ELSE rows[r]]

LEMMA ValuedIsRendered ==
    ASSUME NEW rows, NEW i \in ValuationInput, AsRendered(rows, i, None), NEW v \in Int
    PROVE  AsRendered(Valued(rows, v), i, v) /\ Len(Valued(rows, v)) = Len(rows)
<1> DEFINE n == Tenants(i)
           m == Lines(i)
           last == 17 + n + m
           to == Valued(rows, v)
<1>1. n \in Nat /\ m \in Nat \ {0} /\ Part(rows, last)
  BY RenderedTyped
<1>2. Rendered(rows, i, None, n, m)
  BY DEF AsRendered
<1> HIDE DEF n, m
<1>3. rows \in Seq(Row) /\ Len(rows) = last /\ DOMAIN rows = 1..last /\ last \in Nat
  BY <1>1 DEF Part
<1>4. \A r \in 1..last : rows[r].label = "open market assessment" <=> r = 17 + n + m
  <2>1. LabelsOf(rows, n, m)
    BY <1>1, <1>2, RenderedLabels
  <2> QED
    BY <2>1 DEF LabelsOf
<1>5. /\ \A r \in 1..last : r # 17 + n + m => to[r] = rows[r]
      /\ to[17 + n + m] = [rows[17 + n + m] EXCEPT !.cells["I"] = v]
      /\ DOMAIN to = 1..last
  <2>1. 17 + n + m \in 1..last
    BY <1>1
  <2>2. ASSUME NEW r \in 1..last, r # 17 + n + m PROVE to[r] = rows[r]
    BY <1>3, <1>4, <2>2 DEF Valued
  <2>3. to[17 + n + m] = [rows[17 + n + m] EXCEPT !.cells["I"] = v]
    BY <1>3, <1>4, <2>1 DEF Valued
  <2>4. DOMAIN to = 1..last
    BY <1>3 DEF Valued
  <2> QED
    BY <2>2, <2>3, <2>4
<1>6. to[17 + n + m] = SheetRow("open market assessment", [I |-> v])
  <2> DEFINE a == [I |-> None]
             b == [I |-> v]
             empty == [x \in Columns |-> None]
             label == "open market assessment"
  <2>1. DOMAIN a = {"I"} /\ a["I"] = None /\ DOMAIN b = {"I"} /\ b["I"] = v
    OBVIOUS
  <2>2. rows[17 + n + m] = SheetRow("open market assessment", a)
    BY <1>2, Zenon DEF Rendered
  <2> HIDE DEF a, b
  <2>3. SheetRow(label, a) = [label |-> label, cells |-> empty]
    BY <2>1 DEF SheetRow
  <2>4. [x \in Columns |-> IF x \in DOMAIN b THEN b[x] ELSE None] = [empty EXCEPT !["I"] = v]
    BY <2>1 DEF Columns
  <2>5. SheetRow(label, b) = [label |-> label, cells |-> [empty EXCEPT !["I"] = v]]
    BY <2>4 DEF SheetRow
  <2>6. \A word, cells, row : row = [label |-> word, cells |-> cells] =>
           [row EXCEPT !.cells["I"] = v] = [label |-> word, cells |-> [cells EXCEPT !["I"] = v]]
    OBVIOUS
  <2>7. [SheetRow(label, a) EXCEPT !.cells["I"] = v] = SheetRow(label, b)
    <3> HIDE DEF empty, label
    <3>1. [SheetRow(label, a) EXCEPT !.cells["I"] = v]
            = [label |-> label, cells |-> [empty EXCEPT !["I"] = v]]
      BY <2>3, <2>6
    <3> QED
      BY <2>5, <3>1
  <2>8. to[17 + n + m] = [SheetRow(label, a) EXCEPT !.cells["I"] = v]
    BY <1>5, <2>2
  <2> QED
    BY <2>7, <2>8 DEF b
<1> HIDE DEF to
<1>7. Part(to, last)
  <2>1. SheetRow("open market assessment", [I |-> v]) \in Row
    <3>1. "open market assessment" \in Label /\ v \in Cell
      BY DEF Label, Cell
    <3> DEFINE b == [I |-> v]
    <3>0. DOMAIN b = {"I"} /\ b["I"] = v
      OBVIOUS
    <3> HIDE DEF b
    <3>2. \A x \in DOMAIN b : b[x] \in Cell
      BY <3>0, <3>1
    <3>3. SheetRow("open market assessment", b) \in Row
      BY <3>1, <3>2, SheetRowTyped
    <3> QED
      BY <3>3 DEF b
  <2>2. ASSUME NEW r \in 1..last PROVE to[r] \in Row
    <3>1. CASE r = 17 + n + m
      BY <1>6, <2>1, <3>1
    <3>2. CASE r # 17 + n + m
      <4>1. rows[r] \in Row
        BY <1>3
      <4> QED
        BY <1>5, <3>2, <4>1
    <3> QED
      BY <3>1, <3>2
  <2>3. to = [r \in 1..last |-> to[r]]
    BY <1>5 DEF to, Valued
  <2>4. to \in Seq(Row) /\ Len(to) = last
    BY <1>3, <2>2, <2>3
  <2> QED
    BY <1>3, <2>4 DEF Part
<1>8. /\ \A r \in 1..3 : to[r] = rows[r]
      /\ \A k \in 1..n : to[3 + k] = rows[3 + k]
      /\ to[4 + n] = rows[4 + n] /\ to[5 + n] = rows[5 + n] /\ to[6 + n] = rows[6 + n]
      /\ to[7 + n] = rows[7 + n] /\ \A k \in 1..m : to[7 + n + k] = rows[7 + n + k]
  <2>1. ASSUME NEW r \in 1..last, r # 17 + n + m PROVE to[r] = rows[r]
    BY <1>5, <2>1
  <2>2. ASSUME NEW k \in 1..n PROVE to[3 + k] = rows[3 + k]
    <3>1. 3 + k \in 1..last /\ 3 + k # 17 + n + m
      BY <1>1
    <3> QED
      BY <2>1, <3>1
  <2>3. ASSUME NEW k \in 1..m PROVE to[7 + n + k] = rows[7 + n + k]
    <3>1. 7 + n + k \in 1..last /\ 7 + n + k # 17 + n + m
      BY <1>1
    <3> QED
      BY <2>1, <3>1
  <2>4. ASSUME NEW r \in 1..3 PROVE to[r] = rows[r]
    <3>1. r \in 1..last /\ r # 17 + n + m
      BY <1>1
    <3> QED
      BY <2>1, <3>1
  <2>5. /\ 4 + n \in 1..last /\ 4 + n # 17 + n + m /\ 5 + n \in 1..last /\ 5 + n # 17 + n + m
        /\ 6 + n \in 1..last /\ 6 + n # 17 + n + m /\ 7 + n \in 1..last /\ 7 + n # 17 + n + m
    BY <1>1
  <2> QED
    BY <2>1, <2>2, <2>3, <2>4, <2>5
<1>9. /\ to[8 + n + m] = rows[8 + n + m] /\ to[9 + n + m] = rows[9 + n + m]
      /\ to[10 + n + m] = rows[10 + n + m] /\ to[11 + n + m] = rows[11 + n + m]
      /\ to[12 + n + m] = rows[12 + n + m] /\ to[13 + n + m] = rows[13 + n + m]
      /\ to[14 + n + m] = rows[14 + n + m] /\ to[15 + n + m] = rows[15 + n + m]
      /\ to[16 + n + m] = rows[16 + n + m]
  <2>1. ASSUME NEW x \in 8..16 PROVE to[x + n + m] = rows[x + n + m]
    <3>1. x + n + m \in 1..last /\ x + n + m # 17 + n + m
      BY <1>1
    <3> QED
      BY <1>5, <3>1
  <2>2. /\ 8 \in 8..16 /\ 9 \in 8..16 /\ 10 \in 8..16 /\ 11 \in 8..16 /\ 12 \in 8..16 /\ 13 \in 8..16
        /\ 14 \in 8..16 /\ 15 \in 8..16 /\ 16 \in 8..16
    OBVIOUS
  <2> QED
    BY <2>1, <2>2
<1>10. 1 \in 1..3 /\ 2 \in 1..3 /\ 3 \in 1..3
  OBVIOUS
<1>11. Rendered(to, i, v, n, m)
  <2>1. /\ n = Tenants(i) /\ m = Lines(i)
        /\ rows[1] = SheetRow("building name", [B |-> Text])
        /\ rows[2] = SheetRow("date", [E |-> i.date])
        /\ rows[3] = SheetRow("tenants", [x \in Columns |-> Text])
        /\ \A k \in 1..n : rows[3 + k] = ExactRow(i.tenants[k])
        /\ rows[4 + n] = SheetRow("sub total", NoCells) /\ rows[5 + n] = Blank
        /\ rows[6 + n] = SheetRow("parking", [F |-> Text, G |-> Text]) /\ rows[7 + n] = Blank
        /\ \A k \in 1..m : rows[7 + n + k] = IF i.parking = << >> THEN Blank
                                             ELSE ExactBays(i.parking[k])
    BY <1>2, ZenonT(30) DEF Rendered
  <2>2. /\ rows[8 + n + m] = SheetRow("sub total", NoCells)
        /\ rows[9 + n + m] = SheetRow("other", NoCells) /\ rows[10 + n + m] = SheetRow("other", NoCells)
        /\ rows[11 + n + m] = SheetRow("operating expenses", [E |-> Text, F |-> Text, G |-> Text])
        /\ rows[12 + n + m] = SheetRow("sub total", [E |-> i.opex])
        /\ rows[13 + n + m] = SheetRow("vacancy allowance", [H |-> i.vacancy])
        /\ rows[14 + n + m] = SheetRow("other", NoCells) /\ rows[15 + n + m] = SheetRow("other", NoCells)
        /\ rows[16 + n + m] = SheetRow("capitalised", [H |-> i.cap])
    BY <1>2, ZenonT(30) DEF Rendered
  <2>3. /\ to[1] = SheetRow("building name", [B |-> Text])
        /\ to[2] = SheetRow("date", [E |-> i.date])
        /\ to[3] = SheetRow("tenants", [x \in Columns |-> Text])
        /\ \A k \in 1..n : to[3 + k] = ExactRow(i.tenants[k])
        /\ to[4 + n] = SheetRow("sub total", NoCells) /\ to[5 + n] = Blank
        /\ to[6 + n] = SheetRow("parking", [F |-> Text, G |-> Text]) /\ to[7 + n] = Blank
        /\ \A k \in 1..m : to[7 + n + k] = IF i.parking = << >> THEN Blank
                                           ELSE ExactBays(i.parking[k])
    <3>1. /\ to[1] = rows[1] /\ to[2] = rows[2] /\ to[3] = rows[3]
          /\ \A k \in 1..n : to[3 + k] = rows[3 + k]
          /\ \A k \in 1..m : to[7 + n + k] = rows[7 + n + k]
      BY <1>8, <1>10, Zenon
    <3> QED
      BY <1>8, <2>1, <3>1, ZenonT(30)
  <2>4. /\ to[8 + n + m] = SheetRow("sub total", NoCells)
        /\ to[9 + n + m] = SheetRow("other", NoCells) /\ to[10 + n + m] = SheetRow("other", NoCells)
        /\ to[11 + n + m] = SheetRow("operating expenses", [E |-> Text, F |-> Text, G |-> Text])
        /\ to[12 + n + m] = SheetRow("sub total", [E |-> i.opex])
        /\ to[13 + n + m] = SheetRow("vacancy allowance", [H |-> i.vacancy])
        /\ to[14 + n + m] = SheetRow("other", NoCells) /\ to[15 + n + m] = SheetRow("other", NoCells)
        /\ to[16 + n + m] = SheetRow("capitalised", [H |-> i.cap])
    BY <1>9, <2>2, ZenonT(30)
  <2>5. Part(to, 17 + n + m)
    BY <1>7
  <2> QED
    BY <1>6, <2>1, <2>3, <2>4, <2>5, ZenonT(30) DEF Rendered
<1>12. Len(to) = Len(rows)
  BY <1>3, <1>7 DEF Part
<1> QED
  BY <1>11, <1>12 DEF AsRendered, to, n, m

\* What is known of a file that may still be edited: it shows no value.
LEMMA EditedFile ==
    ASSUME Stored, AsExported, book # None, ~Calculated(book.rows)
    PROVE  /\ inputs \in Exported /\ inputs \in ValuationInput
           /\ Floated(inputs) \in ValuationInput
           /\ book.rows \in Seq(Row) /\ Unvalued(book.rows)
           /\ book.digits \in {0, 3, 4}
           /\ book.edits = 0 => AsRendered(book.rows, Floated(inputs), None)
<1>1. /\ inputs \in Exported /\ inputs \in ValuationInput /\ Floated(inputs) \in ValuationInput
      /\ book.digits = Digits(inputs.rounding)
  BY BookAssumption, InputsAssumption, FloatedIsInput DEF Stored
<1>2. book.digits \in {0, 3, 4}
  <2>1. inputs.rounding \in Rounding
    BY <1>1, InputFields
  <2> QED
    BY <1>1, <2>1 DEF Digits, Rounding
<1>3. /\ book.rows \in Seq(Row)
      /\ book.edits = 0 => Calculation(book.rows, Floated(inputs), book.digits)
      /\ book.edits # 0 => Unvalued(book.rows)
  BY DEF AsExported
<1>4. ASSUME book.edits = 0 PROVE AsRendered(book.rows, Floated(inputs), None)
  <2>1. ASSUME NEW v \in Int, AsRendered(book.rows, Floated(inputs), v) PROVE FALSE
    <3>1. CellOf(book.rows, "open market assessment", 1, "I") = v
      BY <1>1, <2>1, RenderedTyped
    <3>2. v # None
      BY BookAssumption
    <3> QED
      BY <3>1, <3>2 DEF Calculated
  <2> QED
    BY <1>3, <1>4, <2>1 DEF Calculation
<1>5. Unvalued(book.rows)
  <2>1. CASE book.edits = 0
    BY <1>1, <1>4, <2>1, RenderedTyped
  <2>2. CASE book.edits # 0
    BY <1>3, <2>2
  <2> QED
    BY <2>1, <2>2
<1> QED
  BY <1>1, <1>2, <1>3, <1>4, <1>5

\* Without one of its rows a file is not longer, and each row it has it had.
LEMMA RowTaken ==
    ASSUME NEW rows \in Seq(Row), NEW r \in DOMAIN rows
    PROVE  /\ WithoutRow(rows, r) \in Seq(Row)
           /\ Len(WithoutRow(rows, r)) = Len(rows) - 1
           /\ \A q \in DOMAIN WithoutRow(rows, r) : \E x \in DOMAIN rows : WithoutRow(rows, r)[q] = rows[x]
<1> DEFINE last == Len(rows)
           s == SubSeq(rows, 1, r - 1)
           t == SubSeq(rows, r + 1, last)
<1>1. last \in Nat /\ r \in 1..last /\ DOMAIN rows = 1..last
  OBVIOUS
<1>2. Part(s, r - 1) /\ \A k \in 1..(r - 1) : s[k] = rows[k]
  BY <1>1 DEF Part
<1>3. Part(t, last - r) /\ \A k \in 1..(last - r) : t[k] = rows[r + k]
  BY <1>1 DEF Part
<1> HIDE DEF last, s, t
<1>4. JoinOf(s \o t, s, t, r - 1, last - r)
  BY <1>2, <1>3, JoinedParts
<1>5. WithoutRow(rows, r) = s \o t
  BY DEF WithoutRow, s, t, last
<1> DEFINE u == s \o t
<1>6. u \in Seq(Row) /\ Len(u) = last - 1
  <2>1. r - 1 + (last - r) = last - 1
    BY <1>1
  <2> QED
    BY <1>4, <2>1 DEF JoinOf, Part
<1>7. ASSUME NEW q \in DOMAIN u PROVE \E x \in DOMAIN rows : u[q] = rows[x]
  <2>1. q \in 1..(last - 1)
    BY <1>6
  <2>2. u[q] = IF q <= r - 1 THEN s[q] ELSE t[q - (r - 1)]
    <3>1. q \in 1..(r - 1 + (last - r))
      BY <1>1, <2>1
    <3> QED
      BY <1>4, <3>1 DEF JoinOf
  <2>3. CASE q <= r - 1
    <3>1. q \in 1..(r - 1) /\ q \in 1..last
      BY <1>1, <2>1, <2>3
    <3> QED
      BY <1>1, <1>2, <2>2, <2>3, <3>1
  <2>4. CASE ~(q <= r - 1)
    <3>1. q - (r - 1) \in 1..(last - r) /\ r + (q - (r - 1)) \in 1..last
      BY <1>1, <2>1, <2>4
    <3> QED
      BY <1>1, <1>3, <2>2, <2>4, <3>1
  <2> QED
    BY <2>3, <2>4
<1> QED
  BY <1>5, <1>6, <1>7 DEF last

\* The rows from r on moved down: none but the blank one is new.
LEMMA RowPut ==
    ASSUME NEW rows \in Seq(Row), NEW r \in DOMAIN rows
    PROVE  /\ WithBlankAt(rows, r) \in Seq(Row)
           /\ Len(WithBlankAt(rows, r)) = Len(rows) + 1
           /\ Unvalued(rows) => Unvalued(WithBlankAt(rows, r))
<1> DEFINE last == Len(rows)
           to == WithBlankAt(rows, r)
<1>1. Part(rows, last) /\ r \in 1..last /\ DOMAIN rows = 1..last
  BY DEF Part
<1> HIDE DEF last, to
<1>2. Spread(to, rows, r, last) /\ Len(to) = last + 1 /\ to \in Seq(Row)
  BY <1>1, BlankPut DEF to
<1>3. ASSUME Unvalued(rows), NEW q \in DOMAIN to, to[q].label = "open market assessment"
      PROVE  to[q].cells["I"] = None
  <2>1. /\ q \in 1..Len(to)
        /\ \A x \in 1..last : to[Below(r, x)] = rows[x]
        /\ to[q] = Blank \/ \E x \in 1..last : q = Below(r, x)
    BY <1>2, <1>3 DEF Spread
  <2>2. to[q] # Blank
    BY <1>3, BlankCells
  <2>3. PICK x \in 1..last : q = Below(r, x)
    BY <2>1, <2>2
  <2>4. to[q] = rows[x]
    BY <2>1, <2>3
  <2> QED
    BY <1>1, <1>3, <2>4 DEF Unvalued
<1>4. Unvalued(rows) => Unvalued(to)
  BY <1>3 DEF Unvalued
<1> QED
  BY <1>2, <1>4 DEF to, last

\* A cell the owner writes: never one that had to show the value.
\* A cell put into a sheet.
CellPut(rows, r, x, v) == [rows EXCEPT ![r].cells[x] = v]

LEMMA CellWritten ==
    ASSUME NEW rows \in Seq(Row), NEW r \in DOMAIN rows, NEW x \in Columns, NEW v \in Cell,
           x = "I" => rows[r].cells[x] # None
    PROVE  /\ CellPut(rows, r, x, v) \in Seq(Row)
           /\ Len(CellPut(rows, r, x, v)) = Len(rows)
           /\ Unvalued(rows) => Unvalued(CellPut(rows, r, x, v))
<1> DEFINE last == Len(rows)
           to == CellPut(rows, r, x, v)
<1>1. last \in Nat /\ DOMAIN rows = 1..last /\ r \in 1..last /\ \A q \in 1..last : rows[q] \in Row
  OBVIOUS
<1>2. /\ DOMAIN to = 1..last /\ \A q \in 1..last : q # r => to[q] = rows[q]
      /\ to[r] = [rows[r] EXCEPT !.cells[x] = v]
      /\ to = [q \in 1..last |-> to[q]]
  BY SMTT(30) DEF CellPut
<1>3. /\ to[r] \in Row /\ to[r].label = rows[r].label /\ to[r].cells[x] = v
      /\ \A y \in Columns : y # x => to[r].cells[y] = rows[r].cells[y]
  <2>2. \A row \in Row : /\ [row EXCEPT !.cells[x] = v] \in Row
                         /\ [row EXCEPT !.cells[x] = v].label = row.label
                         /\ [row EXCEPT !.cells[x] = v].cells[x] = v
                         /\ \A y \in Columns : y # x => [row EXCEPT !.cells[x] = v].cells[y] = row.cells[y]
    <3> SUFFICES ASSUME NEW row \in Row
                 PROVE  /\ [row EXCEPT !.cells[x] = v] \in Row
                        /\ [row EXCEPT !.cells[x] = v].label = row.label
                        /\ [row EXCEPT !.cells[x] = v].cells[x] = v
                        /\ \A y \in Columns :
                              y # x => [row EXCEPT !.cells[x] = v].cells[y] = row.cells[y]
      OBVIOUS
    <3>1. /\ row.label \in Label /\ row.cells \in [Columns -> Cell]
          /\ row = [label |-> row.label, cells |-> row.cells]
      BY DEF Row
    <3>2. [row.cells EXCEPT ![x] = v] \in [Columns -> Cell]
      BY <3>1
    <3>3. [row EXCEPT !.cells[x] = v] = [label |-> row.label, cells |-> [row.cells EXCEPT ![x] = v]]
      BY <3>1
    <3>4. [row EXCEPT !.cells[x] = v] \in Row
      BY <3>1, <3>2, <3>3 DEF Row
    <3> QED
      BY <3>1, <3>3, <3>4
  <2>3. rows[r] \in Row
    BY <1>1
  <2> HIDE DEF to
  <2> QED
    BY <1>2, <2>2, <2>3
<1> HIDE DEF to, last
<1>4. to \in Seq(Row) /\ Len(to) = last
  <2>1. ASSUME NEW q \in 1..last PROVE to[q] \in Row
    <3>1. CASE q = r
      BY <1>3, <3>1
    <3>2. CASE q # r
      BY <1>1, <1>2, <3>2
    <3> QED
      BY <3>1, <3>2
  <2> QED
    BY <1>1, <1>2, <2>1, SMTT(30)
<1>5. ASSUME Unvalued(rows), NEW q \in DOMAIN to, to[q].label = "open market assessment"
      PROVE  to[q].cells["I"] = None
  <2>1. q \in 1..last
    BY <1>2
  <2>2. CASE q # r
    BY <1>1, <1>2, <1>5, <2>1, <2>2 DEF Unvalued
  <2>3. CASE q = r
    <3>1. rows[r].cells["I"] = None
      BY <1>1, <1>3, <1>5, <2>3 DEF Unvalued
    <3>2. x # "I" /\ "I" \in Columns
      BY <3>1 DEF Columns
    <3> QED
      BY <1>3, <2>3, <3>1, <3>2
  <2> QED
    BY <2>2, <2>3
<1> QED
  BY <1>4, <1>5 DEF to, last, Unvalued

LEMMA EditsAreCells == \A v \in CellEdits : v \in Cell
BY WordsAssumption DEF Cell

\* The date moved to another column.
DateMoved(rows, r, x) ==
    [rows EXCEPT ![r].cells[x] = rows[r].cells["E"], ![r].cells["E"] = None]

LEMMA DateIsMoved ==
    ASSUME NEW rows \in Seq(Row), NEW r \in DOMAIN rows, NEW x \in {"B", "C", "D"}
    PROVE  /\ DateMoved(rows, r, x) \in Seq(Row) /\ Len(DateMoved(rows, r, x)) = Len(rows)
           /\ Unvalued(rows) => Unvalued(DateMoved(rows, r, x))
<1> DEFINE v == rows[r].cells["E"]
           mid == CellPut(rows, r, x, v)
<1>1. /\ v \in Cell /\ None \in Cell /\ "E" \in Columns /\ "E" # "I"
      /\ x \in Columns /\ x # "I"
  <2>1. rows[r] \in Row
    OBVIOUS
  <2> QED
    BY <2>1 DEF Row, Cell, Columns
<1>2. DateMoved(rows, r, x) = CellPut(mid, r, "E", None)
  BY DEF DateMoved, CellPut
<1> HIDE DEF v
<1>3. mid \in Seq(Row) /\ Len(mid) = Len(rows) /\ (Unvalued(rows) => Unvalued(mid))
  BY <1>1, CellWritten
<1> HIDE DEF mid
<1>4. r \in DOMAIN mid
  BY <1>3
<1>5. /\ CellPut(mid, r, "E", None) \in Seq(Row)
      /\ Len(CellPut(mid, r, "E", None)) = Len(mid)
      /\ Unvalued(mid) => Unvalued(CellPut(mid, r, "E", None))
  BY <1>1, <1>3, <1>4, CellWritten
<1> QED
  BY <1>2, <1>3, <1>5

\* Whatever was done to a file: as long as it was not edited, it is the one
\* that was rendered of the valuation at hand, calculated or not.
LEMMA AlwaysExported == BookSpec => []AsExported
<1>1. BookInit => AsExported
  BY DEF BookInit, AsExported
<1>2. Stored /\ AsExported /\ [BookNext]_bookVars => AsExported'
  <2> SUFFICES ASSUME Stored, AsExported, [BookNext]_bookVars PROVE AsExported'
    OBVIOUS
  <2>1. CASE UNCHANGED bookVars
    BY <2>1 DEF bookVars, AsExported
  <2>2. CASE \E i \in Inputs : Preview(i)
    BY <2>2 DEF Preview, AsExported
  <2>3. CASE Export
    <3> DEFINE i == Floated(inputs)
    <3>1. /\ inputs \in ValuationInput /\ inputs' = inputs
          /\ book'.rows = Render(inputs) /\ book'.edits = 0 /\ book'.digits = Digits(inputs.rounding)
      BY <2>3, BookAssumption, InputsAssumption DEF Export, Book
    <3>2. i \in ValuationInput /\ Render(inputs) = Exact(i) /\ Floated(inputs)' = i
      BY <3>1, FloatedIsInput, FloatedIsRendered
    <3> HIDE DEF i
    <3>3. AsRendered(Exact(i), i, None)
      BY <3>2, RenderIsRendered DEF AsRendered
    <3>4. Exact(i) \in Seq(Row)
      BY <3>2, <3>3, RenderedTyped
    <3> QED
      BY <3>1, <3>2, <3>3, <3>4 DEF AsExported, Calculation
  <2>4. ASSUME MayEdit, NEW rows, Edit(rows), rows \in Seq(Row), Unvalued(rows) PROVE AsExported'
    <3>1. book # None /\ book.edits \in Nat
      BY <2>4, BookAssumption DEF MayEdit, Stored
    <3>2. book'.rows = rows /\ book'.edits = book.edits + 1
      BY <2>4, <3>1 DEF Edit
    <3>3. book'.edits # 0
      BY <3>1, <3>2
    <3> QED
      BY <2>4, <3>2, <3>3 DEF AsExported
  <2>5. ASSUME MayEdit
        PROVE  book.rows \in Seq(Row) /\ Unvalued(book.rows)
    BY <2>5, EditedFile DEF MayEdit
  <2>6. ASSUME NEW r \in DOMAIN book.rows, InsertRow(r) PROVE AsExported'
    <3>1. MayEdit /\ Edit(WithBlankAt(book.rows, r))
      BY <2>6 DEF InsertRow
    <3> QED
      BY <2>4, <2>5, <3>1, RowPut
  <2>7. ASSUME NEW r \in DOMAIN book.rows, DeleteRow(r) PROVE AsExported'
    <3>1. MayEdit /\ Edit(WithoutRow(book.rows, r))
      BY <2>7 DEF DeleteRow
    <3>2. Unvalued(WithoutRow(book.rows, r))
      <4>1. \A q \in DOMAIN WithoutRow(book.rows, r) :
               \E x \in DOMAIN book.rows : WithoutRow(book.rows, r)[q] = book.rows[x]
        BY <2>5, <3>1, RowTaken
      <4>2. Unvalued(book.rows)
        BY <2>5, <3>1
      <4> QED
        BY <4>1, <4>2, ZenonT(30) DEF Unvalued
    <3> QED
      BY <2>4, <2>5, <3>1, <3>2, RowTaken
  <2>8. ASSUME NEW r \in DOMAIN book.rows, NEW x \in Columns, NEW v \in CellEdits, EditCell(r, x, v)
        PROVE  AsExported'
    <3>1. MayEdit /\ Edit(CellPut(book.rows, r, x, v)) /\ book.rows[r].cells[x] # None
      BY <2>8 DEF EditCell, CellPut
    <3> QED
      BY <2>4, <2>5, <3>1, CellWritten, EditsAreCells
  <2>11. ASSUME NEW r \in DOMAIN book.rows, NEW x \in {"B", "C", "D"}, MoveDate(r, x)
         PROVE  AsExported'
    <3>1. MayEdit /\ Edit(DateMoved(book.rows, r, x))
      BY <2>11 DEF MoveDate, DateMoved
    <3> QED
      BY <2>4, <2>5, <3>1, DateIsMoved
  <2>9. CASE Recalculate
    <3> DEFINE rows == book.rows
               i == Floated(inputs)
               v == SheetValue(rows, book.digits)
    <3>1. /\ book # None /\ book.edits = 0 /\ ~Calculated(book.rows) /\ inputs' = inputs
          /\ book' = [book EXCEPT !.rows = Valued(rows, v)]
      BY <2>9 DEF Recalculate, Valued
    <3>2. i \in ValuationInput /\ AsRendered(rows, i, None) /\ book.digits \in {0, 3, 4}
      BY <3>1, EditedFile
    <3>0. Floated(inputs)' = i
      BY <3>1
    <3> HIDE DEF i
    <3>3. v = SheetRounded(i, 10 ^ book.digits) /\ v \in Int
      <4>1. Rendered(rows, i, None, Tenants(i), Lines(i))
        BY <3>2 DEF AsRendered
      <4>2. Tenants(i) \in Nat /\ Lines(i) \in Nat \ {0}
        BY <3>2, PartsTyped
      <4> QED
        BY <3>2, <4>1, <4>2, SheetValueIs
    <3> HIDE DEF v
    <3>4. AsRendered(Valued(rows, v), i, v)
      BY <3>2, <3>3, ValuedIsRendered
    <3>5. Valued(rows, v) \in Seq(Row)
      BY <3>2, <3>4, RenderedTyped
    <3>6. /\ book'.rows = Valued(rows, v) /\ book'.digits = book.digits
          /\ book'.edits = book.edits
      BY <3>1
    <3> HIDE DEF rows
    <3>7. Calculation(Valued(rows, v), i, book.digits)
      BY <3>3, <3>4 DEF Calculation
    <3> QED
      BY <3>0, <3>1, <3>5, <3>6, <3>7 DEF AsExported
  <2>10. CASE Upload
    BY <2>10 DEF Upload, AsExported
  <2> QED
    BY <2>1, <2>2, <2>3, <2>6, <2>7, <2>8, <2>9, <2>10, <2>11 DEF BookNext
<1> QED
  BY <1>1, <1>2, AlwaysStored, PTL DEF BookSpec

-----------------------------------------------------------------------------
(* What is true of every file. *)

\* What an unedited file is read as, calculated or not.
LEMMA UneditedRead ==
    ASSUME Stored, AsExported, book # None, book.edits = 0
    PROVE  /\ inputs \in ValuationInput /\ Floated(inputs) \in ValuationInput
           /\ \E sheet : ParseWorkbook(book.rows) = Parsed(Kept(inputs), sheet, {})
<1>1. inputs \in ValuationInput /\ Floated(inputs) \in ValuationInput
  BY BookAssumption, InputsAssumption, FloatedIsInput DEF Stored
<1>2. PICK sheet : AsRendered(book.rows, Floated(inputs), sheet)
  BY DEF AsExported, Calculation
<1>3. ParseWorkbook(book.rows) = Parsed(Reread(Floated(inputs)), ReadDecimal(sheet), {})
  BY <1>1, <1>2, RenderedTyped
<1>4. Reread(Floated(inputs)) = Kept(inputs)
  BY <1>1, FloatedIsKept
<1> QED
  BY <1>1, <1>3, <1>4

\* For all exported valuations, sizes of their lists and numbers floating point
\* has: an export that is uploaded as it is, or calculated, gives the document
\* it was made of but for what the workbook does not hold.
THEOREM WorkbookKeepsFigures == BookSpec => []ExportKeepsFigures
<1>1. ASSUME Stored, AsExported PROVE ExportKeepsFigures
  <2> SUFFICES ASSUME report # None, book.edits = 0 PROVE report.inputs = Kept(inputs)
    BY DEF ExportKeepsFigures
  <2>1. book # None /\ report = Outcome(ParseWorkbook(book.rows))
    BY <1>1 DEF Stored
  <2>2. inputs \in ValuationInput
    BY <1>1, <2>1, UneditedRead
  <2>3. PICK sheet : ParseWorkbook(book.rows) = Parsed(Kept(inputs), sheet, {})
    BY <1>1, <2>1, UneditedRead
  <2>4. Kept(inputs) # None
    BY <2>2, KeptIsKept, BookAssumption
  <2> QED
    BY <2>1, <2>3, <2>4 DEF Outcome, Parsed
<1> QED
  BY <1>1, AlwaysStored, AlwaysExported, PTL

\* A blank row put anywhere into an unedited file, of any length, changes
\* nothing of what is read; no other step makes an unedited file longer.
THEOREM WorkbookBlankRowHarmless == BookSpec => BlankRowHarmless
<1>1. ASSUME Stored, AsExported, [BookNext]_bookVars,
             book # None, book' # None, book.edits = 0, Len(book'.rows) > Len(book.rows)
      PROVE  ParseWorkbook(book'.rows) = ParseWorkbook(book.rows)
  <2>1. /\ book.rows \in Seq(Row) /\ Len(book.rows) \in Nat
        /\ Floated(inputs) \in ValuationInput
    BY <1>1, UneditedRead DEF AsExported
  <2>2. book'.rows # book.rows
    BY <1>1, <2>1
  <2>3. CASE UNCHANGED book
    BY <2>2, <2>3
  <2>4. CASE Export
    BY <1>1, <2>4 DEF Export
  <2>5. ASSUME MayEdit, NEW rows, Edit(rows), Len(rows) <= Len(book.rows), Len(rows) \in Int
        PROVE  FALSE
    <3>1. book'.rows = rows
      BY <1>1, <2>5 DEF Edit
    <3> QED
      BY <1>1, <2>1, <2>5, <3>1
  <2>6. ASSUME NEW r \in DOMAIN book.rows, DeleteRow(r) PROVE FALSE
    <3>1. MayEdit /\ Edit(WithoutRow(book.rows, r))
      BY <2>6 DEF DeleteRow
    <3>2. Len(WithoutRow(book.rows, r)) = Len(book.rows) - 1
      BY <2>1, RowTaken
    <3>3. Len(book.rows) - 1 \in Int /\ Len(book.rows) - 1 <= Len(book.rows)
      BY <2>1
    <3> QED
      BY <2>5, <3>1, <3>2, <3>3
  <2>7. ASSUME NEW r \in DOMAIN book.rows, NEW x \in Columns, NEW v \in CellEdits, EditCell(r, x, v)
        PROVE  FALSE
    <3>1. MayEdit /\ Edit(CellPut(book.rows, r, x, v)) /\ book.rows[r].cells[x] # None
      BY <2>7 DEF EditCell, CellPut
    <3>2. Len(CellPut(book.rows, r, x, v)) = Len(book.rows)
      BY <2>1, <3>1, CellWritten, EditsAreCells
    <3> QED
      BY <2>1, <2>5, <3>1, <3>2
  <2>13. ASSUME NEW r \in DOMAIN book.rows, NEW x \in {"B", "C", "D"}, MoveDate(r, x)
         PROVE  FALSE
    <3>1. MayEdit /\ Edit(DateMoved(book.rows, r, x))
      BY <2>13 DEF MoveDate, DateMoved
    <3>2. Len(DateMoved(book.rows, r, x)) = Len(book.rows)
      BY <2>1, DateIsMoved
    <3> QED
      BY <2>1, <2>5, <3>1, <3>2
  <2>8. CASE Recalculate
    <3> DEFINE to == Valued(book.rows, SheetValue(book.rows, book.digits))
    <3>0. book' = [book EXCEPT !.rows = to]
      BY <2>8 DEF Recalculate, Valued
    <3> HIDE DEF to
    <3>1. book'.rows = to
      BY <3>0
    <3>2. Len(to) = Len(book.rows)
      <4>1. DOMAIN to = DOMAIN book.rows
        BY DEF to, Valued
      <4> QED
        BY <1>1, <2>1, <3>1, <4>1
    <3> QED
      BY <1>1, <2>1, <3>1, <3>2
  <2>9. ASSUME NEW r \in DOMAIN book.rows, InsertRow(r)
        PROVE  ParseWorkbook(book'.rows) = ParseWorkbook(book.rows)
    <3> DEFINE rows == book.rows
               i == Floated(inputs)
               n == Tenants(i)
               m == Lines(i)
    <3>1. book'.rows = WithBlankAt(rows, r) /\ ~Calculated(rows)
      BY <1>1, <2>9 DEF InsertRow, Edit, MayEdit
    <3>2. AsRendered(rows, i, None) /\ i \in ValuationInput
      BY <1>1, <2>1, <3>1, EditedFile
    <3>3. /\ Part(rows, 17 + n + m) /\ n \in Nat /\ m \in Nat \ {0}
          /\ ParseWorkbook(rows) = Parsed(Reread(i), ReadDecimal(None), {})
      BY <3>2, RenderedTyped
    <3>4. Rendered(rows, i, None, n, m)
      BY <3>2 DEF AsRendered
    <3> HIDE DEF rows, n, m, i
    <3>5. r \in 1..(17 + n + m)
      BY <2>9, <3>3 DEF Part, rows
    <3>6. Spread(WithBlankAt(rows, r), rows, r, 17 + n + m)
      BY <3>3, <3>5, BlankPut
    <3>7. ParseWorkbook(WithBlankAt(rows, r)) = Parsed(Reread(i), ReadDecimal(None), {})
      BY <3>2, <3>3, <3>4, <3>6, SpreadParsed
    <3> QED
      BY <3>1, <3>3, <3>7 DEF rows
  <2>10. CASE Upload
    BY <2>3, <2>10 DEF Upload
  <2>11. CASE \E i \in Inputs : Preview(i)
    BY <2>3, <2>11 DEF Preview
  <2>12. CASE UNCHANGED bookVars
    BY <2>3, <2>12 DEF bookVars
  <2> QED
    BY <1>1, <2>4, <2>6, <2>7, <2>8, <2>9, <2>10, <2>11, <2>12, <2>13 DEF BookNext
<1> QED
  BY <1>1, AlwaysStored, AlwaysExported, PTL DEF BookSpec, BlankRowHarmless

\* For all files however edited, whatever words say and floating point has: the
\* document read of one, rendered and read again, is the same but for what a
\* file does not keep, and from then on the same.
THEOREM WorkbookRoundTrip == BookSpec => []RoundTrip
<1>1. ASSUME NEW j \in ValuationInput
      PROVE  ParseWorkbook(Render(j)) = Parsed(Kept(j), None, {})
  <2> DEFINE i == Floated(j)
  <2>1. i \in ValuationInput /\ Render(j) = Exact(i) /\ Kept(j) = Reread(i)
    BY FloatedIsInput, FloatedIsRendered, FloatedIsKept
  <2> HIDE DEF i
  <2>2. AsRendered(Exact(i), i, None)
    BY <2>1, RenderIsRendered DEF AsRendered
  <2>3. ParseWorkbook(Exact(i)) = Parsed(Reread(i), ReadDecimal(None), {})
    BY <2>1, <2>2, RenderedTyped
  <2> QED
    BY <2>1, <2>3, NumbersRead
<1>2. ASSUME Stored PROVE RoundTrip
  <2> DEFINE p == ParseWorkbook(book.rows)
             j == report.inputs
             again == ParseWorkbook(Render(j))
  <2> SUFFICES ASSUME report # None, j # None
               PROVE  /\ again.inputs = Kept(j) /\ again.errors = {}
                      /\ ParseWorkbook(Render(again.inputs)) = again
    BY DEF RoundTrip
  <2>1. report = Outcome(p)
    BY <1>2 DEF Stored
  <2>2. p.inputs # None /\ j = p.inputs
    <3> HIDE DEF p
    <3> QED
      BY <2>1 DEF Outcome
  <2>3. j \in ValuationInput
    BY <2>2, ParsedDocument
  <2> HIDE DEF p, j
  <2>4. again = Parsed(Kept(j), None, {})
    BY <1>1, <2>3
  <2>5. again.inputs = Kept(j) /\ again.errors = {}
    BY <2>4 DEF Parsed
  <2> HIDE DEF again
  <2>6. Kept(j) \in ValuationInput /\ Kept(Kept(j)) = Kept(j)
    BY <2>3, KeptIsKept
  <2>7. ParseWorkbook(Render(again.inputs)) = Parsed(Kept(Kept(j)), None, {})
    BY <1>1, <2>5, <2>6
  <2> QED
    BY <2>4, <2>5, <2>6, <2>7
<1> QED
  BY <1>2, AlwaysStored, PTL

\* For all valuations, whatever their tenants, parking and rounding of sheets:
\* the value a spreadsheet program calculates in an exported file is the one
\* its upload is valued at, and, without escalations and digits that floating
\* point does not have, the exported one.
THEOREM WorkbookAuditInExcel == BookSpec => []AuditInExcel
<1>1. ASSUME Stored, AsExported PROVE AuditInExcel
  <2> DEFINE unescalated == \A t \in DOMAIN result.cycles : result.cycles[t] = 0
             i == Floated(inputs)
             cell == SheetRounded(i, 10000)
             value == [num |-> Finer * cell, den |-> 1]
             sheet == CellOf(book.rows, "open market assessment", 1, "I")
  <2> SUFFICES ASSUME report # None, Calculated(book.rows), inputs.rounding = "nearest_10000"
               PROVE  /\ report.diff # "recompute_mismatch"
                      /\ report.value.num = Finer * sheet
                      /\ (unescalated /\ KeepsDigits(inputs)) => report.value = result.value
    BY DEF AuditInExcel
  <2>1. /\ book # None /\ report = Outcome(ParseWorkbook(book.rows))
        /\ inputs \in ValuationInput /\ book.digits = 4 /\ book.rows \in Seq(Row)
        /\ result = Calculate(inputs)
    BY <1>1, BookAssumption, InputsAssumption DEF Stored, AsExported, Answered, Digits
  <2>2. i \in ValuationInput /\ Kept(inputs) = Reread(i) /\ Kept(inputs) # None
    BY <2>1, FloatedIsInput, FloatedIsKept, KeptIsKept, BookAssumption
  <2>3. book.edits = 0 /\ sheet # None
    BY <1>1, <2>1, UnvaluedNotCalculated DEF AsExported, Calculated
  <2>4. Calculation(book.rows, i, 4)
    BY <1>1, <2>1, <2>3 DEF AsExported
  <2>5. (unescalated /\ KeepsDigits(inputs)) => result.value = value
    <3> SUFFICES ASSUME unescalated, KeepsDigits(inputs) PROVE Calculate(inputs).value = value
      BY <2>1
    <3>1. \A k \in DOMAIN inputs.tenants : Cycles(inputs.tenants[k].next, inputs.date) = 0
      BY <2>1 DEF Calculate
    <3>2. Calculate(inputs).value = [num |-> Finer * SheetRounded(inputs, 10000), den |-> 1]
      BY <2>1, <3>1, ValueUnescalated
    <3> QED
      BY <2>1, <3>2, DigitsKept
  <2> HIDE DEF i, unescalated
  <2>6. ~AsRendered(book.rows, i, None)
    BY <2>2, <2>3, RenderedTyped
  <2>7. PICK v \in Int : AsRendered(book.rows, i, v) /\ v = SheetRounded(i, 10 ^ 4)
    BY <2>4, <2>6 DEF Calculation
  <2>8. v = cell /\ ReadDecimal(v) = v
    <3>1. 10 ^ 4 = 10000
      OBVIOUS
    <3> QED
      BY <2>7, <3>1, NumbersRead
  <2> HIDE DEF cell
  <2>9. ParseWorkbook(book.rows) = Parsed(Kept(inputs), v, {}) /\ sheet = v
    <3>1. /\ ParseWorkbook(book.rows) = Parsed(Reread(i), ReadDecimal(v), {})
          /\ sheet = v
      BY <2>2, <2>7, RenderedTyped
    <3> HIDE DEF sheet
    <3> QED
      BY <2>2, <2>8, <3>1
  <2>10. Calculate(Kept(inputs)).value = value
    BY <2>2, ValueOfKept DEF cell
  <2>11. report.value = value /\ report.diff = ComputeDiff(v, value)
    <3> DEFINE p == Parsed(Kept(inputs), v, {})
    <3>1. p.inputs = Kept(inputs) /\ p.sheet = v
      BY DEF Parsed
    <3>2. report = Outcome(p)
      BY <2>1, <2>9
    <3> HIDE DEF p, value
    <3> QED
      BY <2>2, <2>10, <3>1, <3>2 DEF Outcome
  <2>12. value.num = Finer * v
    BY <2>8
  <2> HIDE DEF value, sheet
  <2>13. ComputeDiff(v, value) # "recompute_mismatch"
    <3>1. value.num \div Finer = v
      BY <2>12, ScalePositive
    <3>2. Magnitude(value.num \div Finer - v) = 0
      BY <3>1 DEF Magnitude
    <3> QED
      BY <3>2 DEF ComputeDiff
  <2> QED
    BY <2>5, <2>9, <2>11, <2>12, <2>13
<1> QED
  BY <1>1, AlwaysStored, AlwaysExported, PTL

=============================================================================
