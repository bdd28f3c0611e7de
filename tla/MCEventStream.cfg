CONSTANTS
    TurnIds = {a, b}
    Capacity = 2
    MaxInteractions = 1
    MaxTurns = 3
    MaxArrivals = 3
SPECIFICATION FairSpec
INVARIANTS QueueBounded NoLostWakeup NothingOfRevokedTurns
PROPERTIES Delivers BlockedEmitReturns
CHECK_DEADLOCK FALSE
