SPECIFICATION FairSpec
CONSTANTS
    k1 = k1
    k2 = k2
    f = f
    Connections <- MCConnections
    Frames <- MCFrames
    MaxStarts = 3
    MaxUnread = 2
INVARIANTS
    TypeOK
    NoCallbackAfterStop
    ListedIsOpen
    NoOrphanClients
PROPERTIES
    RestartIsClean
    StopReturns
    FrameIsHandled
