SPECIFICATION Spec
CONSTANTS
    HeaderUnits = 2
    RequestUnits = 1
    ResponseUnits <- MCResponseUnits
    Capacity = 4
    MaxCalls = 2
    MaxConnects = 1
CHECK_DEADLOCK FALSE
INVARIANTS
    AnswerIsForThisCall
