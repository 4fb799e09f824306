\* A batch is cancelled while its commit runs.
CONSTANTS
    Properties = {p1}
    Inputs = {v1}
    Refused = {}
    Files = {f1}
    Names <- MCOneName
    MaxName = 2
    Manual = manual
    Valuers = {}
    Deleters = {}
    Reviewers = {}
    Cancellers = {c1}
    Committers = {k1}
    MaxSnapshots = 2
    None = None
SPECIFICATION FairSpec
PROPERTY TerminalIsFinal
\* The run stops when the batch is done with and no client acts.
CHECK_DEADLOCK FALSE
