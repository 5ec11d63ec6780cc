SPECIFICATION Spec
CONSTANTS
    x = x
    y = y
    stop = stop
    Runners <- Pair
    Directives <- One
    MaxAttempts = 2
    MaxCrashes = 1
    MaxFaults = 1
    MaxReopens = 1
CONSTRAINT Bounds
SYMMETRY RunnerSymmetry
INVARIANTS PromptedOnce AcknowledgedStays
PROPERTIES ClaimLostForCause
CHECK_DEADLOCK FALSE
