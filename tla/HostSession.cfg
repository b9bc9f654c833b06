\* Two slots, a queue of one; a host that boots late or restarts.
CONSTANTS
    N = 2
    Depth = 1
    MaxSamples = 2
    MaxRestarts = 1
    MaxCommands = 2
SPECIFICATION Spec
INVARIANTS
    TypeOK
    HostKnowsReady
    SamplesAccounted
PROPERTIES
    HandshakeFirst
    FieldsFirst
