SPECIFICATION FairSpec
CONSTANTS
    Ips = {a, b}
    Cap = 4
    Cost = 2
    Expire = 4
    CleanupInterval = 2
    MaxWindow = 6
INVARIANTS WindowBound
PROPERTIES ImplementsTokenBucket QuietIsForgotten
