SPECIFICATION Spec
CONSTANTS
    Tasks = {t1, t2, t3}
    Requests = {r1, r2}
    MaxConnections = 1
    MaxQueries = 1
    MaxEdits = 1
    NONE = none
INVARIANTS
    PublishedPoolOpen
    CloseQuiesces
    ServedTextIsDocument
PROPERTIES
    PoolsReleased
    CloseReturns
