SPECIFICATION SafeSpec
CONSTANTS
    Clients = {c1}
    MaxBacklog = 1
    Behaviours <- MCVanish
    None = None
INVARIANTS
    ServerSurvivesClients
CHECK_DEADLOCK FALSE
