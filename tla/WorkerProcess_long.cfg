SPECIFICATION FairSpec
CONSTANTS
    ChanSize = 5
    MaxFranchises = 4
    Requests = {r1}
PROPERTIES WorkerStops
CHECK_DEADLOCK FALSE
