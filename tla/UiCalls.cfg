SPECIFICATION FairSpec
CONSTANTS
    ceiling = ceiling
    monitor = monitor
    dim = dim
    full = full
    ceilingToggle = ceilingToggle
    NoPreset = NoPreset
    MaxRequest = 4
    MaxEvents = 2
    Entities <- MCEntities
    Requests <- MCRequests
    Presets <- MCPresets
    Toggles <- MCToggles
    EntityOf <- MCEntityOf
    CallsOf <- MCCallsOf
INVARIANTS
    TypeOK
    OneToastPerCall
    PendingIsShown
    DashboardTellsTruth
PROPERTIES
    SilentEndIsExplained
    MarkersClear
CHECK_DEADLOCK TRUE
