SPECIFICATION Spec
CONSTANTS
    MaxRewakes = 1
    MaxProbes = 2
    MaxGen = 2
    Kinds <- BothKinds
    RevsOf <- Revisions
    FaultsOf <- Failures
    ResetsOf <- OwnerResets
PROPERTIES BlockedIsDurable
CHECK_DEADLOCK FALSE
