SPECIFICATION Spec
CONSTANTS
    HeaderUnits = 2
    RequestUnits = 1
    ResponseUnits <- MCResponseUnits
    Capacity = 4
    MaxCalls = 1
    MaxConnects = 1
CHECK_DEADLOCK FALSE
INVARIANTS
    PiecesAreAwaited
