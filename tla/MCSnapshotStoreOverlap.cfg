\* Two writers overlap on one property.
CONSTANTS
    Properties = {p1}
    Inputs = {v1}
    Sources = {manual}
    Writers = {w1, w2}
    Deleters = {}
    MaxSnapshots = 3
SPECIFICATION Spec
INVARIANT OnlyLatestActive
CHECK_DEADLOCK FALSE
