\* A commit of two workbooks meets a valuer and a deleter, nobody cancels.
CONSTANTS
    Properties = {p1}
    Inputs = {v1}
    Refused = {x1}
    Files = {f1, f2}
    Names <- MCNames
    MaxName = 2
    Manual = manual
    Valuers = {u1}
    Deleters = {d1}
    Reviewers = {}
    Cancellers = {}
    Committers = {k1}
    MaxSnapshots = 3
    None = None
SPECIFICATION FairSpec
INVARIANT SourcesUntilCommitted
PROPERTIES StoreSpec BatchAdvances ParsingEnds ImportRequestsEnd
\* The run stops when the batch is done with and no client acts.
CHECK_DEADLOCK FALSE
