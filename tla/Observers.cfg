SPECIFICATION FairCleanSpec
CONSTANTS
    MaxGen = 2
    Cases <- Bindings
INVARIANT TerminalMeansEnded
PROPERTIES SettledByOutcome LegacyObserversFollow SilentLaneIsNoticed ClearCompletes RemovedUnused ReapedHadEnded
CHECK_DEADLOCK FALSE
