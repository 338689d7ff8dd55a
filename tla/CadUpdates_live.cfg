SPECIFICATION FairSpec
CONSTANTS
    Members = {m1}
    Reachable = {m1}
    Eligible = {m1}
    MaxAttempts = 2
    MaxChanges = 1
    MaxLostStamps = 0
    Deliveries = {"call", "correction"}
    Messages = {"call", "correction"}
    Tokens = {"call", "correction"}
    Notifiers = {n1}
    MaxWrites = 3
    MaxInvokes = 3
    MaxFaults = 1
    ContentOf <- TheContent
    TokenOf <- TheToken
    TextOf <- TheText
    TimeOf <- TheTime
PROPERTIES
    EveryUpdateReachesItsCrew
CHECK_DEADLOCK FALSE
