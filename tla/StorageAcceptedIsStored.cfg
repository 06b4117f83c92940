SPECIFICATION Spec
CONSTANTS
    can = can
    gps = gps
    Days <- MCDays
    Channels <- MCChannels
    FixedChannels <- MCFixed
    Sizes <- MCSizes
    max_size = 240
    Leftovers = {0, 61, 77}
    ForeignBytes = 30
    MaxWrites = 9
INVARIANT
    AcceptedIsStored
\* Every call of write() was made.
CHECK_DEADLOCK FALSE
