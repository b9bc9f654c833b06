SPECIFICATION Spec
CONSTANTS
    s1 = s1
    s2 = s2
    MaxSlots = 3
    Sensors = {s1, s2}
    Unnamed = {}
    Proximity = Proximity
    NoSensor = NoSensor
    Free = Free
    SavedNames <- NothingSaved
    Commands = {"CONNECT", "CANCEL_CONNECT"}
    MaxCmds = 8
    MaxPresses = 0
    MaxLosses = 0
INVARIANTS
    QueueHasRoom
