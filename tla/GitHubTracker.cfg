SPECIFICATION Spec
CONSTANTS
    a = a
    b = b
    x = x
    y = y
    Issues <- Two
    Runners <- Pair
    Scope <- FullScope
    HighRisk <- One
    Deployable <- One
    Delivered <- One
    Targets = {"pr-open", "review", "owner-gate", "merged", "blocked", "ready", "preservation-unknown"}
    Classes = {"runtime"}
    MaxAttempts = 2
    Ttl = 1
    RetryBase = 1
    RetryMax = 2
    Timely = TRUE
    MaxFaults = 1
    MaxTime = 1
    MaxVersion = 7
SYMMETRY RunnerSymmetry
CONSTRAINT Bounds
INVARIANTS WipOneUnlessUnwound GateBeforeMerge
PROPERTY LedgerImplementsBoundary
CHECK_DEADLOCK FALSE
