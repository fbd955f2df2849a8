SPECIFICATION Spec
CONSTANTS
    Paths <- MCPaths
    NameLen <- MCNameLen
    Dot = 2
    DotDot = 3
    MaxName = 20
    Sizes = {0, 64, 65}
    BlockSize = 64
    MaxEntries = 3
INVARIANTS DataInPlace DirsSearchable ReadsBack LinkCounts
CHECK_DEADLOCK FALSE
