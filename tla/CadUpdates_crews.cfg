SPECIFICATION Spec
CONSTANTS
    Members = {m1, m2}
    Reachable = {m1, m2}
    Eligible = {m1, m2}
    MaxAttempts = 2
    MaxChanges = 0
    MaxLostStamps = 1
    Deliveries = {"call", "correction"}
    Messages = {"call", "correction"}
    Tokens = {"call", "correction"}
    Notifiers = {n1}
    MaxWrites = 3
    MaxInvokes = 2
    MaxFaults = 2
    ContentOf <- TheContent
    TokenOf <- TheToken
    TextOf <- TheText
    TimeOf <- TheTime
INVARIANTS
    OwedPushIsPending
    NobodyLeftStale
    SuccessMeansComplete
PROPERTIES
    StampWaitsForPages
SYMMETRY MemberSymmetry
CHECK_DEADLOCK FALSE
