SPECIFICATION FairSpec
CONSTANTS
    s1 = s1
    s2 = s2
    MaxSlots = 1
    Sensors = {s1}
    Unnamed = {}
    Proximity = Proximity
    NoSensor = NoSensor
    Free = Free
    SavedNames <- FirstSaved
    Commands = {"CONNECT", "DISCONNECT"}
    MaxCmds = 2
    MaxPresses = 0
    MaxLosses = 1
PROPERTIES
    CommandsComplete
    LostLinkReleased
    HuntEnds
