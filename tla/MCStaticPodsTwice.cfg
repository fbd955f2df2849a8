SPECIFICATION Spec
CONSTANTS
    NFiles = 1
    Contents = {"A", "B"}
    podName <- MCPodName
    vipOf <- MCVipOf
    Leftover = {}
    MaxEdits = 2
    MaxUserDeletes = 0
    MaxFaults = 0
INVARIANT OneVMPerPod
