SPECIFICATION Spec
CONSTANTS
    Members = {m1}
    Officers = {m1}
    Timers2 = {t2}
    Timers3 = {t3}
    Advances = {adv}
    Halts = {}
    Triggers = {trig}
    MinResponders = 1
    MaxAttempts = 1
    MaxHaltReads = 2
    MaxAnswers = 1
INVARIANTS
    OfficerIsToldTheTruth
    FiredOnce
CHECK_DEADLOCK FALSE
