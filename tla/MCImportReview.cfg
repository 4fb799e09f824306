\* One workbook is parsed, reviewed and cancelled while two commits overlap.
CONSTANTS
    Properties = {p1}
    Inputs = {v1}
    Refused = {x1}
    Files = {f1}
    Names <- MCOneName
    MaxName = 2
    Manual = manual
    Valuers = {}
    Deleters = {}
    Reviewers = {r1}
    Cancellers = {c1}
    Committers = {k1, k2}
    MaxSnapshots = 2
    None = None
SPECIFICATION Spec
INVARIANTS TypeOK ReviewWaitsForParse ReviewHasEveryItem AcceptedIsReady Provenance OneSnapshotPerCommitter
SYMMETRY PipelineSymmetry
\* The run stops when the batch is done with and no client acts.
CHECK_DEADLOCK FALSE
