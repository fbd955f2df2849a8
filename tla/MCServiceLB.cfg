SPECIFICATION FairSpec
CONSTANTS
    Services = {s1}
    Statics = {s1}
    Addrs = {a1, a2}
    Flows = {f1, f2}
    targetPort <- MCTargetPort
    MarkMod = 3
    MaxQueue = 2
    TTLReady = 1
    TTLStatic = 1
    TTLEmpty = 1
    Deadline = 1
    RRMod = 2
    MaxChanges = 2
    MaxNftFaults = 1
INVARIANTS MarksResolve PinnedFlowsCurrent
PROPERTIES NewFlowsFresh 
