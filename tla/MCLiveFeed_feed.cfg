SPECIFICATION Spec
CONSTANTS
    Tabs = {t1, t2}
    Stalled = {t2}
    MaxSessions = 2
    UpCapacity = 1
    QueueCapacity = 1
    Room = 1
    MaxReadings = 2
    MaxBlocks = 3
    Worlds <- MCWorlds
    None = None
INVARIANTS
    TypeOK
    GapsAreExplained
PROPERTIES
    NeverRewinds
    NewestGetsThrough
    AllComeBack
    UsesSubscriptions
CHECK_DEADLOCK FALSE
