SPECIFICATION FairSchedulerSpec
CONSTANTS
    Issues <- One
    HighRisk <- None
    Deployable <- None
    MaxAttempts = 2
    Ttl = 5
    RetryBase = 1
    RetryMax = 2
    MaxTime = 12
    MaxVersion <- Plenty
    r1 = r1
    r2 = r2
    Runners = {r1}
    Moved = {r1}
    Narrowed = {}
    StaleRun = 2
    TurnLimit = 2
    ErrorsStop = TRUE
    Prompt = TRUE
    Handoffs <- PullRequest
    MaxCrashes = 1
    MaxErrors = 1
INVARIANTS OneLiveAgent BoundedRun WorksWhereClaimed
PROPERTIES EventuallyDecided
CHECK_DEADLOCK FALSE
