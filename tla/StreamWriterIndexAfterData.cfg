SPECIFICATION Spec
CONSTANTS
    RecordSizes <- MCRecordSizes
    Sizes <- MCSizes
    Seconds <- MCSeconds
    MaxSuffix = 2
    MaxRequests = 2
    MaxFaults = 0
    MaxOffset = 110
    BufferFills = FALSE
INVARIANT
    IndexAfterData
\* Every request was submitted.
CHECK_DEADLOCK FALSE
