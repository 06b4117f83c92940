SPECIFICATION Spec
CONSTANTS
    RecordSizes <- MCRecordSizes
    Sizes <- MCSizes
    Seconds <- MCSeconds
    MaxSuffix = 2
    MaxRequests = 4
    MaxFaults = 1
    MaxOffset = 110
    BufferFills = TRUE
INVARIANTS
    TypeOK
    ReadRightOrError
    FlushedRecordsSurvive
    OffsetTracksFile
\* Every request was submitted.
CHECK_DEADLOCK FALSE
