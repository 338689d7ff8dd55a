SPECIFICATION FairSpec
CONSTANTS
    a1 = a1
    b1 = b1
    Members = {a1}
    NoOne = NoOne
    MaxAnswers = 1
    MaxPosts = 2
    MaxFailures = 1
    Calls = {c1, c2}
    MaxAttempts = 2
    MaxLeaves = 1
    MaxFaults = 1
    MaxSignOuts = 0
    MaxUnread = 0
    Callee <- TheCallee
PROPERTIES
    AnswerSettles
    UnansweredIsCalled
CHECK_DEADLOCK FALSE
