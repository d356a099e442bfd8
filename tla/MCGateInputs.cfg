SPECIFICATION Spec
CONSTANTS
    Criteria = {c1, c2}
    MustHave = {c1}
    Files = {a, b, c, d}
    a = a
    b = b
    c = c
    d = d
    NoRuntime = NoRuntime
    NoProvenance = NoProvenance
    Revision = {r1, r2}
    Histories <- SmallHistories
    PageSize = 2
    MaxFiles = 3
    MaxCommits = 1
    MaxPatchBytes = 1
    MaxTotalDiffBytes = 3
    MaxRequests = 10
    MaxPages = 4
    MaxItems = 5
    ChecksShown = 1
    MaxMoves = 2
    MaxWorsenings = 1
VIEW GateView
INVARIANTS
    ListsExplainVerdict
    SnapshotIsOneRevision
    ReadyShowsEverything
PROPERTIES
    FailsClosed
CHECK_DEADLOCK FALSE
