SPECIFICATION Spec
CONSTANTS
    Producers = {p1, p2, p3}
    Consumers = {w1}
    Items = {i1, i2}
    Capacity = 2
    NoItem = NoItem
    Closer = main
INVARIANTS
    TypeOK
    NoLostWakeup
PROPERTIES
    ImplementsBoundedQueue
