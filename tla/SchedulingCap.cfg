CONSTANTS
    MAX_SKILL_RATING = 3
    U32_MAX = 15
    Ids = {1, 2, 3, 4}
    Cases <- CapCases
    MATCH_SIZE = 2
    MAX_CANDIDATES_PER_SCAN = 2
    SEED_RETRY_LIMIT = 1
SPECIFICATION Spec
CHECK_DEADLOCK FALSE
PROPERTY NoStarvation
