SPECIFICATION Spec
CONSTANTS
    Subscribers = {s1, s2}
    Stalled = {s2}
    Capacity = 1
    MaxBlocks = 3
    None = None
INVARIANTS
    TypeOK
    LagExact
    NoLostWakeup
PROPERTIES
    WriterNeverBlocks
    CatchesUp
    ImplementsSubscriptions
CHECK_DEADLOCK FALSE
