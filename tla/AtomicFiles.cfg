SPECIFICATION Spec
CONSTANTS
    Creators = {p1, p2}
    Updaters = {p2, p3}
    Foreign = Foreign
    NoFile = NoFile
    MaxMishaps = 2
    MaxAside = 4
INVARIANTS
    WholeRecord
    NothingLost
    OneOutcome
    FailedUpdateReversible
    RollbackComplete
PROPERTY EveryCallEnds
CHECK_DEADLOCK FALSE
