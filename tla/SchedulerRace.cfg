SPECIFICATION SchedulerSpec
CONSTANTS
    Issues <- One
    HighRisk <- None
    Deployable <- None
    MaxAttempts = 2
    Ttl = 3
    RetryBase = 1
    RetryMax = 2
    MaxTime = 1
    MaxVersion <- Plenty
    r1 = r1
    r2 = r2
    Runners = {r1, r2}
    Moved = {}
    Narrowed = {}
    StaleRun = 2
    TurnLimit = 2
    ErrorsStop = TRUE
    Prompt = FALSE
    Handoffs <- PullRequest
    MaxCrashes = 0
    MaxErrors = 0
PROPERTIES HealthyRunKept
CHECK_DEADLOCK FALSE
