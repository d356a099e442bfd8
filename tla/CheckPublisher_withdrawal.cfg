SPECIFICATION Spec
CONSTANTS
    Heads = {1}
    MaxBase = 2
    MaxRuns = 4
    NeedsReview = NeedsReview
INVARIANTS
    RemovedLabelRevokes
CHECK_DEADLOCK FALSE
