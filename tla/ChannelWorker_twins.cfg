SPECIFICATION Spec
CONSTANTS
    Messages = {orig, twin}
    Devices = {d1, d2}
    Timeout = 3
    Visibility = 6
    Stale = 4
    ClaimDelay = 1
    MaxReceives = 2
    MaxSends = 2
    MaxFaults = 1
    MaxTime = 9
SYMMETRY Interchangeable
INVARIANTS
    OneSender
    DuplicatesArePaidFor
    NoSilentLoss
PROPERTIES
    SentStaysSent
CHECK_DEADLOCK FALSE
