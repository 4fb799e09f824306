\* Two writers and two deleters on two properties, under fairness.
CONSTANTS
    Properties = {p1, p2}
    Inputs = {v1}
    Sources = {manual}
    Writers = {w1, w2}
    Deleters = {d1, d2}
    MaxSnapshots = 3
SPECIFICATION FairSpec
INVARIANTS TypeOK NewestIsActive OneActivePerWriter DeletedOnce LockExclusive
PROPERTIES LedgerSpec RequestsEnd
\* The run stops when every property is deleted or MaxSnapshots is reached.
CHECK_DEADLOCK FALSE
