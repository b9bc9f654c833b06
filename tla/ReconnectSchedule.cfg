\* Two slots; gaps of 1 and, capped, 2 time units; a hunt of 4; a clock of 10.
CONSTANTS
    N = 2
    ClockRange = 10
    FirstRetry = 1
    Factor = 3
    MaxBackoff = 2
    GiveUpAfter = 4
    MaxPass = 1
    MaxAttempt = 1
SPECIFICATION Spec
CONSTRAINT OneOld
INVARIANTS
    TypeOK
    BackoffBounded
    OneSlotHeld
PROPERTIES
    GapKept
    GiveUpOnTime
