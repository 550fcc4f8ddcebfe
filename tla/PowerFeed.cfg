SPECIFICATION FairSpec
CONSTANTS
    Configured <- MCConfigured
    GiveUpAfter = 2
    Values = {w1, w2}
    None = None
    MaxQueue = 2
INVARIANTS
    TypeOK
    FallbackShowsSensors
PROPERTIES
    DeviceFigureStays
    FallsBack
    ComesBack
CHECK_DEADLOCK TRUE
