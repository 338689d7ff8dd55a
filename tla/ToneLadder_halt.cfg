SPECIFICATION FairSpec
CONSTANTS
    Members = {m1, m2}
    Officers = {m1}
    Timers2 = {}
    Timers3 = {t3}
    Advances = {adv}
    Halts = {h}
    Triggers = {}
    MinResponders = 1
    MaxAttempts = 2
    MaxHaltReads = 2
    MaxAnswers = 1
INVARIANTS
    TypeOK
    FiredToneReachedEveryone
    StartedFireIsFinished
    PendingPromptsHaveAnOwnerUnlessHalted
    DueAidIsRequested
    DueAidReachesOfficers
    LadderAgreesWithGuards
PROPERTIES
    KeepsPromise
    EveryToneIsDecided
CHECK_DEADLOCK FALSE
