SPECIFICATION Spec
CONSTANTS
    a = a
    b = b
    k = k
    l = l
    Projects <- TwoProjects
    Sessions <- TwoSessions
    Lanes <- TwoLanes
    Identity <- Distinct
    Relabels = TRUE
    MaxGeneration = 3
    MaxCalls = 1
SYMMETRY Symmetry
CONSTRAINT Bounds
INVARIANTS TypeOK OneProjectPerSession
PROPERTIES GenerationFencesOwner TakeoverJustified LanesLostForCause
CHECK_DEADLOCK FALSE
