SPECIFICATION Spec
CONSTANTS
    s1 = s1
    s2 = s2
    MaxSlots = 2
    Sensors = {s1, s2}
    Unnamed = {s2}
    Proximity = Proximity
    NoSensor = NoSensor
    Free = Free
    SavedNames <- FirstSaved
    Commands = {"CONNECT", "CANCEL_CONNECT", "SET_PERIOD"}
    MaxCmds = 2
    MaxPresses = 0
    MaxLosses = 1
INVARIANTS
    ConnectingOwned
    SessionMatchesState
    ReadyDisarmed
    HuntHasTarget
    RequestNotStranded
PROPERTIES
    OffStaysOff
    AdoptionSettled
    LifecycleImplemented
