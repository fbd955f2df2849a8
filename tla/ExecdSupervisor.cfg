SPECIFICATION FairSpec
CONSTANTS
    NInit = 1
    NMain = 1
    ExitCodes = {0, 1}
    Requests = {r1}
    MaxRestarts = 1
INVARIANTS
    InitOrder
    LateStartBound
    KillHitsTermedIncarnation
    PodDoneAtReturn
    FinalStatusAgrees
PROPERTIES
    TerminatedIsFinal
    RestartFollowsPolicy
    TermedProcessEnds
    
