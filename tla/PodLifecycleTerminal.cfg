SPECIFICATION Spec
CONSTANTS
    MaxUid = 1
    MaxRuns = 1
    MaxCrashes = 0
    MaxFaults = 0
    MaxLag = 2
CHECK_DEADLOCK FALSE
PROPERTY TerminalStays
