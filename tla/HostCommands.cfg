SPECIFICATION Spec
CONSTANTS
    s1 = s1
    s2 = s2
    MaxSlots = 2
    Sensors = {s1, s2}
    Unnamed = {}
    Proximity = Proximity
    NoSensor = NoSensor
    Free = Free
    SavedNames <- NothingSaved
    Commands = {"CONNECT", "DISCONNECT", "CANCEL_CONNECT", "DEV_LIST"}
    MaxCmds = 3
    MaxPresses = 0
    MaxLosses = 0
INVARIANTS
    TypeOK
    ConnectingOwned
    SessionMatchesState
    RequestNotStranded
    HostSeesReady
PROPERTIES
    ReadyEndsInTeardown
