SPECIFICATION PromiseSpec
CONSTANTS
    s1 = s1
    s2 = s2
    MaxSlots = 2
    Sensors = {s1, s2}
    Unnamed = {}
    Proximity = Proximity
    NoSensor = NoSensor
    Free = Free
    SavedNames <- FirstSaved
    Commands = {"FORGET"}
    MaxCmds = 1
    MaxPresses = 0
    MaxLosses = 0
INVARIANTS
    ForgetHolds
