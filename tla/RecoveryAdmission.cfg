SPECIFICATION FairSpec
CONSTANTS
    MaxRewakes = 1
    MaxProbes = 2
    MaxGen = 2
    Kinds <- BothKinds
    RevsOf <- Revisions
    FaultsOf <- Failures
    ResetsOf <- OwnerResets
INVARIANTS TypeOK ConsumedCovers OneOutstanding RecoveredOnce
PROPERTIES ConditionEscalates
CHECK_DEADLOCK FALSE
