SPECIFICATION Spec
INVARIANTS
    NoDanglingServer
    NothingLeftBehind
PROPERTIES
    StopTakesEffect
