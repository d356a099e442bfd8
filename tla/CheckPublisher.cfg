SPECIFICATION Spec
CONSTANTS
    Heads = {1, 2}
    MaxBase = 2
    MaxRuns = 4
    NeedsReview = NeedsReview
INVARIANTS
    OneCheckPerHead
    VerdictsShowTheirHead
    SettledVerdictIsCurrent
    WithdrawnStaysWithdrawn
CHECK_DEADLOCK FALSE
