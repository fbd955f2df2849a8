SPECIFICATION FairSpec
CONSTANTS
    MaxUid = 1
    MaxRuns = 2
    MaxCrashes = 1
    MaxFaults = 1
    MaxLag = 2
CHECK_DEADLOCK FALSE
INVARIANTS
    TypeOK
PROPERTIES
    PromiseKept
    FinalizeAfterExit
    TerminalAfterExit
    StopEndsRun
    DeletedObjectGoes
