SPECIFICATION FairSpec
CONSTANTS
    HasDpms = TRUE
    Failing <- MCNoFailure
    SavedLevels = {200}
    Requests = {200}
    WakeBrightness = 160
    ReadableThreshold = 100
    DpmsDelay = 1
    FreezeTime = 4
    FadeTime = 2
    MaxStall = 1
    NoText = t1
    Texts = {t1}
    SlowFingers = FALSE
    EchoOff = FALSE
    FoundDark = TRUE
PROPERTY
    OffCutsSignal
CHECK_DEADLOCK TRUE
