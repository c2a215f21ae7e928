SPECIFICATION SafeHistory
CONSTANTS
    Requests = {r1, r2}
    Timestamps = {t1}
    Capacity = 1
    Faults = {"crash"}
    NoRequest = NoRequest
    NoBlock = NoBlock
INVARIANTS
    AcknowledgedSurvivesRestart
