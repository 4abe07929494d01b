CONSTANTS
    MATCH_SIZE = 6
    TEAM_SIZE = 3
    MAX_SKILL_RATING = 2
    U32_MAX = 15
SPECIFICATION Spec
CHECK_DEADLOCK FALSE
INVARIANTS
    Optimal
    LoopFindsFirstBest
