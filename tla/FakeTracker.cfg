SPECIFICATION Spec
CONSTANTS
    a = a
    b = b
    Issues <- Pair
    HighRisk <- Single
    Deployable <- Single
    MaxAttempts = 2
    Ttl = 1
    RetryBase = 1
    RetryMax = 2
    MaxTime = 1
    MaxVersion <- Lives
INVARIANTS TypeOK WipOne
PROPERTY ImplementsBoundary
CHECK_DEADLOCK FALSE
