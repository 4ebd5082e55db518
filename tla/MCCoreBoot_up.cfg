SPECIFICATION FairSpec
CONSTANTS
    MasterKey = TRUE
    MaxRetries = 2
    Happens <- Everything
    MaxTroubles = 2
INVARIANTS StartedOnce
PROPERTIES ComesUp
CHECK_DEADLOCK FALSE
