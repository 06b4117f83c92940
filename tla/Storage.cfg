SPECIFICATION FairSpec
CONSTANTS
    can = can
    gps = gps
    Days <- MCDays
    Channels <- MCChannels
    FixedChannels <- MCFixed
    Sizes <- MCSizesWithHuge
    max_size = 200
    Leftovers = {0, 61, 77}
    ForeignBytes = 30
    MaxWrites = 3
INVARIANTS
    TypeOK
    BudgetNeverWraps
    OvershootBounded
    RecordInItsDay
PROPERTIES
    ImplementsRetention
    StartupFinishes
    WriteReturns
\* Every call of write() was made.
CHECK_DEADLOCK FALSE
