SPECIFICATION FairSpec
CONSTANTS
    Pods = {"p", "q"}
    Builds = {"b1", "b2"}
    Parts = 2
    Inodes = {1, 2, 3}
    MaxPushes = 1
    MaxFaults = 2
    MaxCrashes = 1
INVARIANTS TornNeedsOverlap ConfigOfImage
PROPERTIES PodGetsImage
