SPECIFICATION FairSpec
CONSTANTS
    HeaderUnits = 2
    RequestUnits = 1
    ResponseUnits <- MCResponseUnits
    Capacity = 4
    MaxCalls = 3
    MaxConnects = 2
INVARIANTS
    TypeOK
    CleanSessionIsExact
PROPERTIES
    CallReturns
\* The caller may stop calling.
CHECK_DEADLOCK FALSE
