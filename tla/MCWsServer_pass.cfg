SPECIFICATION Spec
CONSTANTS
    Clients = {c1}
    MaxBacklog = 2
    Behaviours <- MCWorlds
    None = None
INVARIANTS
    TypeOK
    PumpIsOwned
    NothingLeaks
    ServerSurvivesStop
PROPERTIES
    DisconnectDeregisters
    StopReturns
CHECK_DEADLOCK FALSE
