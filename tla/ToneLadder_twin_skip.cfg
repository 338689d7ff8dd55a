SPECIFICATION Spec
CONSTANTS
    Members = {m1}
    Officers = {}
    Timers2 = {t2, t2b}
    Timers3 = {}
    Advances = {}
    Halts = {}
    Triggers = {}
    MinResponders = 1
    MaxAttempts = 2
    MaxHaltReads = 2
    MaxAnswers = 1
INVARIANTS
    StartedFireIsFinished
SYMMETRY TwinSymmetry
CHECK_DEADLOCK FALSE
