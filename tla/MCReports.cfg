\* A summary while two writers publish for two properties.
CONSTANTS
    p1 = p1
    p2 = p2
    e1 = e1
    e2 = e2
    older = older
    newer = newer
    Properties = {p1, p2}
    Entities = {e1, e2}
    EntityOf <- MCEntityOf
    Types = {t1, t2}
    Documents = {older, newer}
    DateOf <- MCDateOf
    YearOf <- MCYearOf
    ValueOf <- MCValueOf
    Writers = {w1, w2}
    Readers = {r1}
    TopLimit = 1
    MaxSnapshots = 2
    None = None
SPECIFICATION Spec
INVARIANTS TypeOK SummaryAddsUp CurrentFigure
PROPERTY NeverVanishes
SYMMETRY ReportsSymmetry
