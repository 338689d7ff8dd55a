SPECIFICATION Spec
CONSTANTS
    Workers = {w1, w2}
    MaxVersion = 2
    Acceptable = {0, 2}
    MaxRequests = 3
    MaxRetries = 1
    MaxFaults = 1
    None = None
INVARIANTS
    OnlyReviewedContentLeaves
    RejectedForItsContent
    LostCreateIsRemembered
SYMMETRY WorkerSymmetry
CHECK_DEADLOCK FALSE
