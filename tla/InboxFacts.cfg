SPECIFICATION Spec
CONSTANTS
    a = a
    b = b
    blocker = blocker
    Sessions <- Pair
    First <- a
    Reports <- Blocker
    Waking <- Blocker
    DigestLimit = 1
    Orderly = FALSE
    MaxRevision = 2
    MaxGeneration = 2
    MaxCrashes = 1
INVARIANTS TypeOK NothingInLimbo
PROPERTIES AckedWasShown AckIsFinal
CHECK_DEADLOCK FALSE
