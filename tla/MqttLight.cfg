SPECIFICATION FairSpec
CONSTANTS
    low = low
    high = high
    NoState = NoState
    Garbage = Garbage
    Levels <- MCLevels
    DefaultLight <- MCDefault
    StaleCommand <- MCStale
    HaCommands <- MCCommands
    FoundStates <- MCFound
    MaxQueue = 2
INVARIANTS
    TypeOK
    BrokerFollowsLight
    LastWordHolds
PROPERTIES
    OutageQueuesNothing
    Converges
CHECK_DEADLOCK TRUE
