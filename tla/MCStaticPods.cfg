SPECIFICATION Spec
CONSTANTS
    NFiles = 2
    Contents = {"A", "B"}
    podName <- MCPodName
    vipOf <- MCVipOf
    Leftover = {}
    MaxEdits = 1
    MaxUserDeletes = 0
    MaxFaults = 0
INVARIANTS TypeOK VIPResolvesToRunning GrantedVIPKept 
