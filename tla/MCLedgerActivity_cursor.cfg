SPECIFICATION Spec
CONSTANTS
    Requests = {r1, r2}
    Devices = {d1}
    Sensors = {temp}
    Urls = {u1}
    Events <- MCEvents
    HistoryLimit = 2
    MaxTime = 2
    MaxBlocks = 3
    MaxIndex = 9
    MaxResets = 1
    None = None
INVARIANTS
    TypeOK
    NeverPastTheEnd
    NothingSkipped
    HistoryIsRight
PROPERTIES
    CursorComesBack
CHECK_DEADLOCK FALSE
