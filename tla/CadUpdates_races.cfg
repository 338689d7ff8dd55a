SPECIFICATION Spec
CONSTANTS
    Members = {}
    Reachable = {}
    Eligible = {}
    MaxAttempts = 1
    MaxChanges = 0
    MaxLostStamps = 0
    Deliveries = {"call", "correction", "remark", "repeat", "call again"}
    Messages = {"call", "correction", "remark", "repeat"}
    Tokens = {"call", "correction", "remark", "repeat", "call again"}
    Notifiers = {}
    MaxWrites = 3
    MaxInvokes = 3
    MaxFaults = 0
    ContentOf <- TheContent
    TokenOf <- TheToken
    TextOf <- TheText
    TimeOf <- TheTime
INVARIANTS
    CallShowsItsLatestMessage
    AnsweredMessageIsAccepted
CHECK_DEADLOCK FALSE
