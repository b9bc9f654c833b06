\* Two slots and two sensors; resets and flash failures at any step, any number of
\* them; one slot at a time is in use.
CONSTANTS
    s1 = s1
    s2 = s2
    NoName = NoName
    N = 2
    Sensors <- MCSensors
SPECIFICATION Spec
SYMMETRY Symmetry
INVARIANTS
    TypeOK
    NamesAgree
    ForgottenStays
PROPERTY MigrationKeepsNames
CONSTRAINT OneInUse
