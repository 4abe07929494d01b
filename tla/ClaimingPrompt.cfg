CONSTANTS
    w1 = w1
    w2 = w2
    Players <- ThreePlayers
    Workers <- MCWorkers
    MATCH_SIZE = 2
    StaleTimeout = 1
    AttemptLimit = 1
    MaxCrashes = 1
    MaxTime = 4
SPECIFICATION Spec
SYMMETRY WorkerSymmetry
INVARIANTS
    ClaimInv
    NoDoubleMatch
    ClaimsExclusive
    PublishedAreMatched
PROPERTIES
    LegalTransitions
    ImplementsService
