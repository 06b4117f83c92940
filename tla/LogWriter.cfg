SPECIFICATION FairSpec
CONSTANTS
    p1 = p1
    p2 = p2
    r1 = r1
    r2 = r2
    Producers <- MCProducers
    Requests <- MCRequests
    MaxAdds = 5
INVARIANTS
    TypeOK
    FifoNoLoss
    DrainedWhenStopped
    NoLostWakeup
    NothingStranded
PROPERTIES
    ImplementsChannel
    EveryAcceptedIsWritten
    StopReturns
\* std::terminate() ends the process, so a behaviour may stop.
CHECK_DEADLOCK FALSE
