\* Frames that are empty, short, exactly as long as the buffer and one byte
\* longer; one stray byte; an RX buffer that a stalled task lets overflow; a
\* clock that wraps around.
CONSTANTS
    Base = 2
    BufSize = 2
    ScratchSize = 2
    FifoSize = 4
    GapReset = 2
    ClockRange = 6
    MaxPause = 1
    MaxStall = 1
    MaxQuiet = 4
    MaxFrames = 3
    Sizes <- MCSizes
    MaxNoise = 1
SPECIFICATION Spec
INVARIANTS
    TypeOK
    NeverOverrun
    OwedFramesDelivered
PROPERTY DispatchIsWhole
