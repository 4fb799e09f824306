\* A row of an exported workbook is deleted before it is uploaded.
CONSTANTS
    Inputs <- MCExported
    Dates <- MCDates
    None = None
    Unit = 5
    MaxCycles = 3
    Exported <- MCExported
    CellEdits = {None}
    Words <- MCWords
    Text = Text
    Rand = Rand
    Percent = Percent
    AsDecimal <- MCAsDecimal
    AsPct <- MCAsPct
    Doubles <- MCDoubles
    MaxEdits = 1
SPECIFICATION BookSpec
INVARIANT RequiredSectionsPresent
CHECK_DEADLOCK FALSE
