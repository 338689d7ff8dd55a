SPECIFICATION Spec
CONSTANTS
    a1 = a1
    b1 = b1
    Members = {a1, b1}
    NoOne = NoOne
    MaxAnswers = 2
    MaxPosts = 2
    MaxFailures = 1
    Calls = {}
    MaxAttempts = 2
    MaxLeaves = 0
    MaxFaults = 1
    MaxSignOuts = 1
    MaxUnread = 1
    Callee <- TheCallee
INVARIANTS
    ConfirmedOnce
    OutcomeIsTrue
    RecordedAsItsAuthor
    ToldTheTruth
    NewestAnswerIsKept
PROPERTIES
    RosterNeverGoesBack
CHECK_DEADLOCK FALSE
