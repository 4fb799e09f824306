\* Three clients and two connections: commits and uploads can hold them all.
CONSTANTS
    Clients = {c1, c2, c3}
    Users = {u1}
    Conns = {k1, k2}
    MaxItems = 2
    None = None
SPECIFICATION FairSpec
INVARIANTS TypeOK GridlockTakesAllConnections
PROPERTY RequestsEnd
