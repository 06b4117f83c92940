SPECIFICATION Spec
CONSTANTS
    Clients = {c1, c2}
    Malformed = {c2}
    Connections = {k1, k2}
    none = none
    MaxFrames = 2
INVARIANTS
    TypeOK
    HandedOverIsWritten
    InConnectionOrder
PROPERTIES
    DestructorReturns
CHECK_DEADLOCK FALSE
