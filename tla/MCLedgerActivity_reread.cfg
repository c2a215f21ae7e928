SPECIFICATION SafeSpec
CONSTANTS
    Requests = {r1}
    Devices = {d1}
    Sensors = {temp}
    Urls = {u1}
    Events <- MCReadings
    HistoryLimit = 2
    MaxTime = 2
    MaxBlocks = 3
    MaxIndex = 9
    MaxResets = 0
    None = None
INVARIANTS
    ReReadingIsHarmless
CHECK_DEADLOCK FALSE
