SPECIFICATION Spec
CONSTANTS
    HasDpms = TRUE
    Failing <- MCOffFails
    SavedLevels <- MCSavedLevels
    Requests <- MCRequests
    WakeBrightness = 160
    ReadableThreshold = 100
    DpmsDelay = 1
    FreezeTime = 4
    FadeTime = 2
    MaxStall = 1
    NoText = t1
    Texts = {t1, t2}
    SlowFingers = FALSE
    EchoOff = TRUE
    FoundDark = TRUE
INVARIANTS
    TypeOK
    NoDrawOnDark
    DarkIsGuarded
    ScreenFollowsLight
    ContentIsCurrent
    AwakeIsLit
PROPERTIES
    CutComesAfterBlack
CHECK_DEADLOCK TRUE
