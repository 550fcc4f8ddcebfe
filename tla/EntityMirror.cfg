SPECIFICATION FairSpec
CONSTANTS
    state = state
    speed = speed
    mode = mode
    v1 = v1
    v2 = v2
    NoValue = NoValue
    Gone = Gone
    Subscribed = {light, fan}
    Fields <- MCFields
    Values = {v1, v2}
    Bodies <- MCBodies
    Blank <- MCBlank
    MaxQueue = 1
INVARIANTS
    TypeOK
    NothingMissed
    ShownIsWhole
PROPERTIES
    ViewConverges
CHECK_DEADLOCK TRUE
