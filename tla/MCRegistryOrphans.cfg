\* An entity is deleted while a property is created for it.
CONSTANTS
    Entities = {e1}
    Properties = {p1}
    Fields = {name}
    Values = {a}
    Clients = {c1, c2}
    None = None
    MaxLog = 4
SPECIFICATION Spec
INVARIANT NoOrphans
CHECK_DEADLOCK FALSE
