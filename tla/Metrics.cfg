CONSTANTS
    w1 = w1
    w2 = w2
    c1 = c1
    Reaper = Reaper
    Workers <- MCWorkers
    Clients <- MCClients
    Matches <- MCMatches
    MATCH_SIZE = 2
    MATCH_HISTORY_LIMIT = 1
    MaxEnqueued = 4
    MaxFailures = 1
    MaxPanics = 1
SPECIFICATION Spec
SYMMETRY WorkerSymmetry
CHECK_DEADLOCK FALSE
INVARIANTS
    GaugeLag
    TotalsBalance
    CountedAreListed
