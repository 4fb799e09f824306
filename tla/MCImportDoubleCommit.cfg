\* Two commits of one workbook overlap.
CONSTANTS
    Properties = {p1}
    Inputs = {v1}
    Refused = {}
    Files = {f1}
    Names <- MCOneName
    MaxName = 2
    Manual = manual
    Valuers = {}
    Deleters = {}
    Reviewers = {}
    Cancellers = {}
    Committers = {k1, k2}
    MaxSnapshots = 2
    None = None
SPECIFICATION Spec
INVARIANT OneSnapshotPerItem
\* The run stops when the batch is done with and no client acts.
CHECK_DEADLOCK FALSE
