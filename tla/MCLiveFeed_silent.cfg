SPECIFICATION SafeSpec
CONSTANTS
    Tabs = {t1}
    Stalled = {}
    MaxSessions = 2
    UpCapacity = 1
    QueueCapacity = 1
    Room = 1
    MaxReadings = 2
    MaxBlocks = 3
    Worlds <- MCWorlds
    None = None
INVARIANTS
    NothingMissedSilently
CHECK_DEADLOCK FALSE
