SPECIFICATION Spec
CONSTANTS
    s1 = s1
    s2 = s2
    MaxSlots = 2
    Sensors = {s1, s2}
    Unnamed = {}
    Proximity = Proximity
    NoSensor = NoSensor
    Free = Free
    SavedNames <- NothingSaved
    Commands = {"FORGET"}
    MaxCmds = 1
    MaxPresses = 1
    MaxLosses = 1
INVARIANTS
    NoDeadlock
    HostSeesReady
PROPERTIES
    ReadyEndsInTeardown
    OffStaysOff
    LifecycleImplemented
