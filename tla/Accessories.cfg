SPECIFICATION Spec
CONSTANTS
    MaxEval = 2
    Double = 2
    Long = 3
    Hold = 5
    Sleep = 7
    MaxRefused = 1
    Travel = 2
    DoorMargins = {0, 1}
    DoorInputs = 3
    Full = 4
    Corrections = {0, 1}
    CoverMargins = {0, 1}
    CoverInputs = 3
    Setups = {"pings", "roaming"}
    Retry = 2
    LongTime = 3
    PingMax = 1
    RoamPeriod = 1
    MaxTasks = 2
    MaxUser = 1
INVARIANTS
    TypeOK
    PressesAccounted
    DoorWatched
    CoverTimed
    Watched
PROPERTIES
    EdgesSeen
    DoorSettles
    CoverStops
    Reconnects
CHECK_DEADLOCK FALSE
