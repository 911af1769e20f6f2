SPECIFICATION FairSpec
CONSTANTS
    ChanSize = 5
    MaxFranchises = 4
    Requests = {r1}
INVARIANTS NeverStuck OutcomeIsLast LeavesNothingBehind ShutdownCostsNoRetry
PROPERTIES ExecutionsEnd StopsIfMessagesFit ProcessExits
CHECK_DEADLOCK FALSE
