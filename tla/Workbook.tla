------------------------------ MODULE Workbook ------------------------------
(***************************************************************************)
(* The Excel workbook of a valuation: written by render.py for GET         *)
(* /snapshots/{id}/export.xlsx, edited by its owner, and read back by the  *)
(* label-driven parse.py when it is uploaded, as parse_worker does it.     *)
(*                                                                         *)
(* A sheet is a sequence of rows, a row the kind of label in its column A  *)
(* ("" for none of them) and the cells of the columns the parser reads: a  *)
(* number, in parts of Unit, a date or words.  A number is in a file only  *)
(* as near as floating point comes to it.  Of a formula a reader sees the  *)
(* value that was cached when a spreadsheet program last calculated it;    *)
(* the one formula whose value is read is the market value's.  Names,      *)
(* descriptions and bay types, which go through unchanged, are Text;       *)
(* number formats are left out.                                            *)
(***************************************************************************)
EXTENDS Valuation, FiniteSets, SequencesExt, FiniteSetsExt

CONSTANTS
    Exported,      \* the valuations that are exported (bound)
    CellEdits,     \* what an edit writes into a cell
    Words,         \* what a cell with words says
    Text,          \* words that are no number
    AsDecimal,     \* the number, or None, that _read_decimal makes of words
    AsPct,         \* and _read_pct, which knows "8%" but not "R 8"
    Doubles,       \* the numbers a float() stands for, as str() prints it
    MaxEdits       \* bound of the edits of one workbook

ASSUME BookAssumption ==
    /\ Exported \subseteq Inputs
    /\ None \notin Int /\ None \notin ValuationInput
    /\ MaxEdits \in Nat

ASSUME WordsAssumption ==
    /\ \A w \in Words : w \notin Int /\ w \notin Dates /\ w # None
    /\ \A v \in CellEdits : v = None \/ v \in Words \/ v \in Int
    /\ Text \in Words /\ AsDecimal[Text] = None /\ AsPct[Text] = None
    /\ \A w \in Words : (AsDecimal[w] = None \/ AsDecimal[w] \in Int)
                        /\ (AsPct[w] = None \/ AsPct[w] \in Int)

\* 0, 1 and the least part of 1 are floating-point numbers.
ASSUME DoublesAssumption == Doubles \subseteq Nat /\ {0, 1, Unit} \subseteq Doubles

VARIABLES
    book,      \* the workbook at hand, or None
    report     \* what the last upload of it was told, or None

bookVars == <<inputs, result, book, report>>

Columns == {"B", "C", "D", "E", "F", "G", "H", "I"}

SheetRow(label, cells) ==
    [label |-> label,
     cells |-> [x \in Columns |-> IF x \in DOMAIN cells THEN cells[x] ELSE None]]

NoCells == [x \in {} |-> None]
Blank == SheetRow("", NoCells)

\* The workbook: its rows, the digits its market value is rounded to, and the
\* number of times it was edited.
Book(rows, digits, edits) == [rows |-> rows, digits |-> digits, edits |-> edits]

-----------------------------------------------------------------------------
(* render_workbook. *)

Magnitude(n) == IF n < 0 THEN -n ELSE n

\* float(): one of the nearest numbers that floating point has.
Float(n) ==
    IF n \in Doubles THEN n
    ELSE CHOOSE m \in Doubles : \A q \in Doubles : Magnitude(m - n) <= Magnitude(q - n)

\* A tenant's row: the escalation's rate, but not its date; the rent of the
\* lease.  (Variant: the escalated rent.)
TenantRowToday(t) ==
    SheetRow("", [B |-> Text, C |-> Float(t.pct), E |-> t.expiry, F |-> Float(t.area),
              G |-> Float(EffectiveRent(t, inputs.date) \div Compound)])
TenantRow(t) ==
    SheetRow("", [B |-> Text, C |-> IF t.pct = 0 THEN None ELSE Float(t.pct),
              E |-> t.expiry, F |-> Float(t.area), G |-> Float(t.rent)])

\* A parking line's row: the bays are an int.
ParkingRow(p) ==
    SheetRow("", [E |-> Text, F |-> p.bays * Unit, G |-> Float(p.rate)])

\* The data start two rows below the label.  (Variant: right below it.)
ParkingBelowLabel == << >>
ParkingGap == <<Blank>>

Render(i) ==
    <<SheetRow("building name", [B |-> Text]), SheetRow("date", [E |-> i.date]),
      SheetRow("tenants", [x \in Columns |-> Text])>>
    \o [k \in DOMAIN i.tenants |-> TenantRow(i.tenants[k])]
    \o <<SheetRow("sub total", NoCells), Blank, SheetRow("parking", [F |-> Text, G |-> Text])>>
    \o ParkingGap
    \o (IF i.parking = << >> THEN <<Blank>>
        ELSE [k \in DOMAIN i.parking |-> ParkingRow(i.parking[k])])
    \o <<SheetRow("sub total", NoCells), SheetRow("other", NoCells), SheetRow("other", NoCells),
         SheetRow("operating expenses", [E |-> Text, F |-> Text, G |-> Text]),
         SheetRow("sub total", [E |-> Float(i.opex)]),
         SheetRow("vacancy allowance", [H |-> Float(i.vacancy)]),
         SheetRow("other", NoCells), SheetRow("other", NoCells),
         SheetRow("capitalised", [H |-> Float(i.cap)]),
         SheetRow("open market assessment", NoCells)>>

\* The second argument of the sheet's ROUND, negated.  (Variant: three digits
\* for all.)
DigitsAlike(rounding) == 3
Digits(rounding) ==
    CASE rounding = "nearest_10000" -> 4
      [] rounding = "nearest_1000" -> 3
      [] rounding = "none" -> 0

-----------------------------------------------------------------------------
(* parse_workbook. *)

\* The first row from start on that has the label, or 0.
FindLabelRow(rows, label, start) ==
    LET found == {r \in start..Len(rows) : rows[r].label = label}
    IN  IF found = {} THEN 0 ELSE Min(found)

\* _read_decimal and _read_pct, of a cell that holds no date.
ReadDecimal(cell) == IF cell \in Words THEN AsDecimal[cell] ELSE cell
ReadPct(cell) == IF cell \in Words THEN AsPct[cell] ELSE cell

\* int() of a Decimal: the whole number nearer to zero.
Truncated(n) == IF n >= 0 THEN n \div Unit ELSE -((-n) \div Unit)

\* A section that starts at row first ends at its subtotal or at the last of
\* two blank rows; 0 is a section that runs to the end of the sheet.
\* (Variant: at one blank row.)
SectionEndAtBlank(rows, first) ==
    LET ends == {r \in first..Len(rows) : rows[r].label = "sub total" \/ rows[r] = Blank}
    IN  IF ends = {} THEN 0 ELSE Min(ends)
SectionEnd(rows, first) ==
    LET ends == {r \in first..Len(rows) :
                   \/ rows[r].label = "sub total"
                   \/ r > first /\ rows[r] = Blank /\ rows[r - 1] = Blank}
    IN  IF ends = {} THEN 0 ELSE Min(ends)

\* The rows of that section, by their numbers.
SectionLines(rows, first) ==
    LET end == SectionEnd(rows, first)
    IN  IF first > Len(rows) THEN {}
        ELSE first..(IF end = 0 THEN Len(rows) ELSE end - 1)

\* The elements of seq at some of its positions, in order.
Place(lines, r) == Cardinality({q \in lines : q <= r})
Nth(lines, k) == CHOOSE r \in lines : Place(lines, r) = k
Chosen(seq, lines) == [k \in 1..Cardinality(lines) |-> seq[Nth(lines, k)]]

\* The row where the search goes on after a section: its end, or else its last
\* line, or else its label.
AfterSection(rows, label, first, lines) ==
    IF SectionEnd(rows, first) # 0 THEN SectionEnd(rows, first)
    ELSE Max({label} \cup {r \in lines : r >= first})

Figure(row, x) == ReadDecimal(row.cells[x])

TwoNumbers(row) == Figure(row, "F") # None /\ Figure(row, "G") # None

\* It is before int() that a number of bays is looked at.
IsTenantLine(row) == TwoNumbers(row) /\ Figure(row, "F") > 0
IsParkingLine(row) == TwoNumbers(row) /\ Figure(row, "F") # 0

\* The header of the tenants, or 0.
FindTenantHeader(rows) ==
    LET found == {r \in DOMAIN rows : rows[r].label = "tenants" /\ rows[r].cells["F"] = Text}
    IN  IF found = {} THEN 0 ELSE Min(found)

\* _read_tenants: what it read, and the row it got to.
TenantOf(row) ==
    LET pct == ReadPct(row.cells["C"])
    IN  [area |-> Figure(row, "F"), rent |-> Figure(row, "G"),
         pct |-> IF pct = None THEN 0 ELSE pct, next |-> None, expiry |-> None]

ReadTenants(rows) ==
    LET header == FindTenantHeader(rows)
        lines == Chosen(rows, {r \in SectionLines(rows, header + 1) : IsTenantLine(rows[r])})
    IN  [lines |-> [k \in DOMAIN lines |-> TenantOf(lines[k])],
         last  |-> AfterSection(rows, header, header + 1,
                               {r \in DOMAIN rows : IsTenantLine(rows[r])})]

\* _read_parking: the section is optional.
ParkingOf(row) == [bays |-> Truncated(Figure(row, "F")), rate |-> Figure(row, "G")]

ReadParking(rows, start) ==
    LET label == FindLabelRow(rows, "parking", start)
        lines == Chosen(rows, {r \in SectionLines(rows, label + 2) : IsParkingLine(rows[r])})
    IN  IF label = 0 THEN [lines |-> << >>, last |-> start]
        ELSE [lines |-> [k \in DOMAIN lines |-> ParkingOf(lines[k])],
              last  |-> AfterSection(rows, label, label + 2,
                                    {r \in DOMAIN rows : IsParkingLine(rows[r])})]

\* The cell in column x of the row with the label, or None.
CellOf(rows, label, start, x) ==
    LET r == FindLabelRow(rows, label, start)
    IN  IF r = 0 THEN None ELSE rows[r].cells[x]

\* _read_valuation_date: the first date in E, D, C and B.
ReadDate(rows) ==
    LET cell(k) == CellOf(rows, "date", 1, <<"E", "D", "C", "B">>[k])
        found == {k \in 1..4 : cell(k) \in Dates}
    IN  IF found = {} THEN None ELSE cell(Min(found))

\* _read_assumptions.  The expenses are on the next subtotal after their label.
ReadOpex(rows, start) ==
    LET label == FindLabelRow(rows, "operating expenses", start)
    IN  IF label = 0 THEN None ELSE ReadDecimal(CellOf(rows, "sub total", label + 1, "E"))

ReadVacancy(rows, start) == ReadPct(CellOf(rows, "vacancy allowance", start, "H"))
ReadCap(rows, start) == ReadPct(CellOf(rows, "capitalised", start, "H"))

\* The required sections that are reported as missing, by the fields they are
\* for; the one for expenses not where its subtotal is.
Missing(rows, start) ==
    {field \in {"valuation_date", "monthly_operating_expenses", "vacancy_allowance_pct",
                "cap_rate"} :
        CASE field = "valuation_date" -> ReadDate(rows) = None
          [] field = "monthly_operating_expenses" ->
               /\ ReadOpex(rows, start) = None
               /\ LET label == FindLabelRow(rows, "operating expenses", start)
                  IN  label = 0 \/ FindLabelRow(rows, "sub total", label + 1) # 0
          [] field = "vacancy_allowance_pct" -> FindLabelRow(rows, "vacancy allowance", start) = 0
          [] field = "cap_rate" -> ReadCap(rows, start) = None}

\* _build_inputs_partial: a document is made of what was found unless a part
\* is missing that has no default, and has to be one ValuationInput accepts.
Assembled(rows, tenants, parking, start) ==
    LET vacancy == ReadVacancy(rows, start)
    IN  [date |-> ReadDate(rows), tenants |-> tenants, parking |-> parking,
         opex |-> ReadOpex(rows, start), vacancy |-> IF vacancy = None THEN 0 ELSE vacancy,
         cap |-> ReadCap(rows, start), rounding |-> "nearest_10000"]

Complete(i) == i.date # None /\ i.tenants # << >> /\ i.opex # None /\ i.cap # None

\* The sheet's row 0, from which parking is looked for when there is no header
\* of tenants, makes openpyxl raise; parse_worker reports that as an error.
Parsed(inp, sheet, errors) == [inputs |-> inp, sheet |-> sheet, errors |-> errors]

ParseWorkbook(rows) ==
    LET tenants == ReadTenants(rows)
        parking == ReadParking(rows, tenants.last)
        start == parking.last
        inp == Assembled(rows, tenants.lines, parking.lines, start)
        sheet == ReadDecimal(CellOf(rows, "open market assessment", start, "I"))
        missing == Missing(rows, start)
    IN  IF FindTenantHeader(rows) = 0 THEN Parsed(None, None, {"unrecoverable_parse_error"})
        ELSE IF ~Complete(inp) THEN Parsed(None, sheet, missing)
        ELSE IF inp \notin ValuationInput THEN Parsed(None, sheet, missing \cup {"inputs"})
        ELSE Parsed(inp, sheet, missing)

\* _compute_diff: the warning about the sheet's own market value, which is
\* compared in parts of Unit.
ComputeDiff(sheet, value) ==
    IF sheet = None \/ sheet = 0 THEN "formula_missing_value"
    ELSE IF sheet > 0 /\ 1000 * Magnitude(value.num \div Finer - sheet) > sheet
      THEN "recompute_mismatch"
    ELSE "none"

\* What _process_one writes to the item.
Outcome(p) ==
    IF p.inputs = None
      THEN [status |-> "error", inputs |-> None, value |-> None, diff |-> "none",
            errors |-> p.errors]
      ELSE LET value == Calculate(p.inputs).value
           IN  [status |-> "ok", inputs |-> p.inputs, value |-> value,
                diff |-> ComputeDiff(p.sheet, value), errors |-> {}]

-----------------------------------------------------------------------------
\* POST /calculate, before anything is exported.
Preview(i) ==
    /\ book = None
    /\ PreviewCalculate(i)
    /\ UNCHANGED <<book, report>>

\* GET /snapshots/{id}/export.xlsx of a snapshot with these inputs.
Export ==
    /\ book = None
    /\ inputs \in Exported
    /\ book' = Book(Render(inputs), Digits(inputs.rounding), 0)
    /\ UNCHANGED <<inputs, result, report>>

\* The rows from r on move down, or row r is taken out.
WithBlankAt(rows, r) == SubSeq(rows, 1, r - 1) \o <<Blank>> \o SubSeq(rows, r, Len(rows))
WithoutRow(rows, r) == SubSeq(rows, 1, r - 1) \o SubSeq(rows, r + 1, Len(rows))

Calculated(rows) == CellOf(rows, "open market assessment", 1, "I") # None

\* The owner edits the file with a program that does not calculate it.
Edit(rows) == book' = [book EXCEPT !.rows = rows, !.edits = @ + 1]

MayEdit ==
    /\ book # None
    /\ report = None
    /\ ~Calculated(book.rows)
    /\ book.edits < MaxEdits
    /\ UNCHANGED <<inputs, result, report>>

InsertRow(r) == MayEdit /\ Edit(WithBlankAt(book.rows, r))
DeleteRow(r) == MayEdit /\ Edit(WithoutRow(book.rows, r))
EditCell(r, x, v) ==
    /\ MayEdit
    /\ x = "E" \/ book.rows[r].label = "date" => v \in Words \cup {None}
    /\ book.rows[r].cells[x] \notin {None, v}
    /\ Edit([book.rows EXCEPT ![r].cells[x] = v])

\* The date moves to another column.
MoveDate(r, x) ==
    /\ MayEdit
    /\ book.rows[r].label = "date"
    /\ book.rows[r].cells["E"] # None /\ book.rows[r].cells[x] = None
    /\ Edit([book.rows EXCEPT ![r].cells[x] = book.rows[r].cells["E"], ![r].cells["E"] = None])

\* The value of the sheet's formulas.
SheetValue(rows, digits) ==
    LET income == 12 * SumFunction([r \in DOMAIN rows |->
                         IF TwoNumbers(rows[r]) THEN rows[r].cells["F"] * rows[r].cells["G"]
                                                ELSE 0])
        net == income * (Unit - ReadVacancy(rows, 1)) - 12 * ReadOpex(rows, 1) * Unit * Unit
    IN  Unit * 10 ^ digits * HalfUp(net, ReadCap(rows, 1) * 10 ^ digits * Unit * Unit)

\* Or it is opened in Excel, calculated and saved.
Recalculate ==
    /\ book # None
    /\ report = None
    /\ book.edits = 0
    /\ ~Calculated(book.rows)
    /\ book' = [book EXCEPT !.rows =
          [r \in DOMAIN @ |-> IF @[r].label = "open market assessment"
                                THEN [@[r] EXCEPT !.cells["I"] = SheetValue(book.rows, book.digits)]
                                ELSE @[r]]]
    /\ UNCHANGED <<inputs, result, report>>

\* The file is uploaded, parsed and valued.
Upload ==
    /\ book # None
    /\ report = None
    /\ report' = Outcome(ParseWorkbook(book.rows))
    /\ UNCHANGED <<inputs, result, book>>

BookInit == Init /\ book = None /\ report = None

BookNext ==
    \/ \E i \in Inputs : Preview(i)
    \/ Export
    \/ book # None /\ \E r \in DOMAIN book.rows :
          \/ InsertRow(r)
          \/ DeleteRow(r)
          \/ \E x \in Columns, v \in CellEdits : EditCell(r, x, v)
          \/ \E x \in {"B", "C", "D"} : MoveDate(r, x)
    \/ Recalculate
    \/ Upload

BookSpec == BookInit /\ [][BookNext]_bookVars

-----------------------------------------------------------------------------
(***************************************************************************)
(* Properties.                                                             *)
(***************************************************************************)

\* A file that is accepted gives a document ValuationInput accepts, whatever
\* was done to the file.
BookTypeOK ==
    /\ TypeOK
    /\ book # None => book.digits \in {0, 3, 4} /\ book.edits \in 0..MaxEdits
    /\ report # None =>
          /\ report.status \in {"ok", "error"}
          /\ IF report.status = "ok"
                THEN report.inputs \in ValuationInput /\ report.value \in Fraction
                ELSE report.inputs = None

\* What a file keeps of a valuation: not the dates of leases and escalations,
\* the rounding, or parking without bays, nor the digits that floating point
\* does not have.
WithBays(parking) == {k \in DOMAIN parking : parking[k].bays # 0}

KeptTenant(t) ==
    [area |-> Float(t.area), rent |-> Float(t.rent), pct |-> Float(t.pct),
     next |-> None, expiry |-> None]
KeptParking(p) == [p EXCEPT !.rate = Float(@)]

Kept(i) ==
    LET parking == Chosen(i.parking, WithBays(i.parking))
    IN  [date |-> i.date,
         tenants |-> [k \in DOMAIN i.tenants |-> KeptTenant(i.tenants[k])],
         parking |-> [k \in DOMAIN parking |-> KeptParking(parking[k])],
         opex |-> Float(i.opex), vacancy |-> Float(i.vacancy), cap |-> Float(i.cap),
         rounding |-> "nearest_10000"]

\* An exported valuation can be uploaded again as it is, and nothing but that
\* is lost: every label the parser looks for is where the renderer wrote it.
ExportKeepsFigures ==
    (report # None /\ book.edits = 0) => report.inputs = Kept(inputs)

\* "parse -> calculate -> render -> parse -> calculate" (test_roundtrip.py), for
\* every document the parser ever made of a file, also of one whose sections
\* ran into each other or whose figures were words.  It gives the same inputs
\* but for what a file does not keep, such as the line of the half bay that
\* int() made 0 of; and doing it once more changes nothing.
RoundTrip ==
    (report # None /\ report.inputs # None) =>
        LET again == ParseWorkbook(Render(report.inputs))
        IN  /\ again.inputs = Kept(report.inputs) /\ again.errors = {}
            /\ ParseWorkbook(Render(again.inputs)) = again

\* A file of a valuation rounded to 10000 that was calculated in Excel shows
\* what its upload is valued at, losses included, so that no mismatch is
\* reported; and that is the exported value where no rent had escalated and
\* floating point has all the figures.
KeepsDigits(i) ==
    /\ {i.opex, i.vacancy, i.cap} \subseteq Doubles
    /\ \A k \in DOMAIN i.tenants : {i.tenants[k].area, i.tenants[k].rent} \subseteq Doubles
    /\ \A k \in DOMAIN i.parking : i.parking[k].rate \in Doubles

AuditInExcel ==
    (report # None /\ Calculated(book.rows) /\ inputs.rounding = "nearest_10000") =>
        /\ report.diff # "recompute_mismatch"
        /\ report.value.num = Finer * CellOf(book.rows, "open market assessment", 1, "I")
        /\ ((\A t \in DOMAIN result.cycles : result.cycles[t] = 0) /\ KeepsDigits(inputs))
             => report.value = result.value

\* "The parser tolerates the layout drift": a blank row put anywhere into an
\* exported file changes nothing of what is read.
BlankRowHarmless ==
    [][(/\ book # None /\ book' # None
        /\ book.edits = 0 /\ Len(book'.rows) > Len(book.rows)) =>
            ParseWorkbook(book'.rows) = ParseWorkbook(book.rows)]_bookVars

-----------------------------------------------------------------------------
\* "Tenants, Opex, Vacancy, or Cap rate section absent -- item cannot be
\* parsed" (the design document): a file with a required section missing is
\* an error.  A file without its vacancy row is not: it is valued as fully
\* let, and what the parser reported is dropped.
RequiredSectionsPresent ==
    (report # None /\ report.status = "ok") => ParseWorkbook(book.rows).errors = {}
=============================================================================
