SPECIFICATION Spec
CONSTANTS
    s1 = s1
    s2 = s2
    MaxSlots = 2
    Sensors = {s1, s2}
    Unnamed = {}
    Proximity = Proximity
    NoSensor = NoSensor
    Free = Free
    SavedNames <- BothSaved
    Commands = {"CONNECT"}
    MaxCmds = 2
    MaxPresses = 0
    MaxLosses = 2
INVARIANTS
    OneSensorOneSlot
