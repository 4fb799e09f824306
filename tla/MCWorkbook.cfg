\* Previews, and exported workbooks that are edited twice and uploaded.
CONSTANTS
    Inputs <- MCBookInputs
    Dates <- MCDates
    None = None
    Unit = 5
    MaxCycles = 3
    Exported <- MCExported
    CellEdits = {None, Rand, Percent, 2}
    Words <- MCWords
    Text = Text
    Rand = Rand
    Percent = Percent
    AsDecimal <- MCAsDecimal
    AsPct <- MCAsPct
    Doubles <- MCDoubles
    MaxEdits = 2
SPECIFICATION BookSpec
INVARIANTS BookTypeOK CyclesAreAnniversaries ValueIsNearest OpexBandIsOfIncome ExportKeepsFigures RoundTrip AuditInExcel
PROPERTIES BetterIsNoCheaper BlankRowHarmless
\* A workbook that was uploaded is done with.
CHECK_DEADLOCK FALSE
