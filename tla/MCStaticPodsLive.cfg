SPECIFICATION FairSpec
CONSTANTS
    NFiles = 1
    Contents = {"A", "B"}
    podName <- MCPodName
    vipOf <- MCVipOf
    Leftover = {"A"}
    MaxEdits = 1
    MaxUserDeletes = 1
    MaxFaults = 1
INVARIANT UntouchedKeepsRunning
PROPERTIES ManifestConverges 
