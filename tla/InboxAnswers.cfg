SPECIFICATION FairSpec
CONSTANTS
    a = a
    b = b
    blocker = blocker
    Sessions <- Pair
    First <- a
    Reports <- Blocker
    Waking <- Blocker
    DigestLimit = 1
    Orderly = TRUE
    MaxRevision = 1
    MaxGeneration = 2
    MaxCrashes = 1
PROPERTIES EveryWakingReportHandled
CHECK_DEADLOCK FALSE
