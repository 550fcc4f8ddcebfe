SPECIFICATION FairSpec
CONSTANTS
    Configured <- MCConfigured
    GiveUpAfter = 2
    Values = {w1, w2}
    None = None
    MaxQueue = 2
PROPERTY
    MissingUsesSensor
CHECK_DEADLOCK TRUE
