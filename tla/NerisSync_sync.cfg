SPECIFICATION SyncFairSpec
CONSTANTS
    Workers = {w1}
    MaxVersion = 1
    Acceptable = {0, 1}
    MaxRequests = 2
    MaxRetries = 0
    MaxFaults = 1
    MaxMissing = 2
    MaxMoves = 1
    None = None
PROPERTIES
    StatusConverges
    UnlockStaysPossible
CHECK_DEADLOCK FALSE
