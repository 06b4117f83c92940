SPECIFICATION Spec
CONSTANTS
    Files = {"a1", "b1", "a2"}
    DayOf <- MCDayOf
    ChannelOf <- MCChannelOf
    FixedFiles = {"b1", "a2"}
    LongNamed = {}
    Times = {5, 6, 7, 8}
    MaxTime = 9
    Unlimited = 9
    DayLength = 4
    MaxRecords = 2
    MaxTotal = 3
    MaxChanges = 2
    SecondLength = 2
    LastSecond = 4
    Plans <- MCPlans
INVARIANTS
    TypeOK
    DiscoveryComplete
    FetchExact
    ExportExact
    OutputBySecond
CHECK_DEADLOCK FALSE
