\* Two clients create, patch and delete an entity and its property.
CONSTANTS
    Entities = {e1}
    Properties = {p1}
    Fields = {name, notes}
    Values = {a, b}
    Clients = {c1, c2}
    None = None
    MaxLog = 4
SPECIFICATION Spec
INVARIANTS TypeOK AuditTellsRows BeforeWasTrue DeletedIsFinal
PROPERTY NoLostUpdate
SYMMETRY RegistrySymmetry
\* The run stops when the log has MaxLog rows and no request is open.
CHECK_DEADLOCK FALSE
