CONSTANTS
    c1 = c1
    Workers = {1, 2}
    Clients <- OneClient
    MATCH_SIZE = 2
    MaxWaiting = 2
    MaxPanics = 1
SPECIFICATION FairSpec
CHECK_DEADLOCK FALSE
INVARIANTS
    NoLostWakeup
    AtMostOneLateAttempt
    FinalMetricsComplete
PROPERTIES
    MatchableAreMatched
    ShutdownCompletes
