CONSTANTS
    a = a
    b = b
    c1 = c1
    c2 = c2
    w1 = w1
    r1 = r1
    r2 = r2
    Ids <- MCIds
    Ratings <- MCRatings
    Clients <- MCClients
    Workers <- MCWorkers
    Assignments <- OwnOrSharedIds
    MATCH_SIZE = 2
    MaxPlayers = 3
SPECIFICATION Spec
SYMMETRY PoolSymmetry
CHECK_DEADLOCK FALSE
INVARIANTS
    IndexSound
    GaugeExact
    QueuedAreWaiting
PROPERTY ImplementsQueue
