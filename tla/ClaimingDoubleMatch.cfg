CONSTANTS
    w1 = w1
    w2 = w2
    Players <- TwoPlayers
    Workers <- MCWorkers
    MATCH_SIZE = 2
    StaleTimeout = 1
    AttemptLimit = 2
    MaxCrashes = 0
    MaxTime = 4
SPECIFICATION Spec
INVARIANT NoDoubleMatch
