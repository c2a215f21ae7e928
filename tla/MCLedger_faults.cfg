SPECIFICATION HistorySpec
CONSTANTS
    Requests = {r1, r2, r3}
    Timestamps = {t1}
    Capacity = 1
    Faults = {"crash", "full", "alloc"}
    NoRequest = NoRequest
    NoBlock = NoBlock
INVARIANTS
    TypeOK
    NothingServedUnpersisted
    AcknowledgedIsDurable
    AcknowledgedIndicesDistinct
    SoundUnlessStarved
    FeedFollowsUnlessStarved
    ShutdownServesAccepted
PROPERTIES
    EveryPostAnswered
    ShutdownProceeds
    UsesBoundedQueue
    ImplementsDurableLog
