CONSTANTS
    MAX_SKILL_RATING = 3
    U32_MAX = 7
    MaxMs = 5
    MaxDelta = 3
    Configs <- MCConfigs
    MaxWait = 6
SPECIFICATION Spec
CHECK_DEADLOCK FALSE
INVARIANTS
    SeedInWindow
    StarvationFloor
PROPERTY WindowNeverNarrows
