SPECIFICATION Spec
CONSTANTS
    c1 = c1
    c2 = c2
    n1 = n1
    n2 = n2
    Callers = {c1, c2}
    Sounds <- MCSounds
    SpeakerQueue = 2
    MaxCommands = 4
    LedQueue = 2
    MaxOverlays = 2
    MaxPaints = 1
    Strips = 2
    Screens <- MCScreens
    LogTexts = {"x"}
    ScreenQueue = 1
    LogQueue = 1
    LogLines = 2
    MaxRects = 2
    Sessions <- MCSessions
    StablePolls = 5
    Lag = 2
    MaxTouches = 2
    MaxEvents = 2
    Zones = 3
    IdleReturnMax = 80
    Ssids = {n1, n2}
    MaxProfiles = 2
    Fixes <- MCFixes
    ScanLists <- MCScanLists
    PerPage = 1
    MaxInput = 2
    Times = 2
INVARIANTS
    PartsTypeOK
    OutputsFollow
    PanelShowsNewest
    TextIsKept
    HoldIsNoTap
    SettingsKeepTheirWord
    SetupActsOnTheShown
    ShownIsTrue
CHECK_DEADLOCK FALSE
