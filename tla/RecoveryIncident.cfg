SPECIFICATION FairSpec
CONSTANTS
    a = a
    b = b
    c = c
    cron = cron
    hand = hand
    Incidents <- Condition
    Controllers <- Pair
    Detectors <- Detections
    MaxAttempts = 1
    CoordinatorMaxAttempts = 2
    ClaimTtl = 1
    MaxRuntime = 2
    ClearConfirm = 2
    Cooldown = 1
    MaxLook = 1
INVARIANTS TypeOK BudgetPerOutbreak
PROPERTIES ClearedMeansGone PersistentConditionDecided GoneConditionCloses
CHECK_DEADLOCK FALSE
