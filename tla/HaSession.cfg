SPECIFICATION FairSpec
CONSTANTS
    Requests <- MCRequests
    MaxPending = 2
    BackoffMin = 1
    BackoffMax = 3
    AuthRetry = 9
    MaxPingId = 3
    MaxEvents = 1
INVARIANTS
    TypeOK
    NothingLost
    AnswersMatch
    IdsIncrease
    EveryWaitIsBounded
PROPERTIES
    RetriesArePaced
    KeepsContract
    DeadLinkDropped
    KeepsTrying
    CallsAreTaken
CHECK_DEADLOCK TRUE
