SPECIFICATION Spec
CONSTANTS
    c1 = c1
    c2 = c2
    Criteria = {c1, c2}
    Cases = {"t"}
    Suites <- MCSuites
    Artifacts = {"junit"}
    Notes = {"n"}
    Heads = {"h1", "h2"}
    Inventory <- MCInventory
    Content <- MCContent
    MaxImports = 2
    MaxCorrections = 2
    MaxActive = 2
    MaxReferences = 3
    MaxRefEvents = 2
    None = None
    Browsers = {"w"}
    Shells = {"cli"}
    Sources = {"s1"}
    Decisions = {"accepted"}
    Review = "r"
    ReviewedHead = "h1"
    Ruleset = "v2"
    Retrieved <- MCRetrieved
    MaxCandidates = 1
    Baselines <- MCBaselines
    MaxRevisions = 2
    MaxConfirmations = 2
    MaxEntries = 3
INVARIANTS
    UnlistedDecisionsStand
PROPERTIES
    CorrectionsSeeWhatTheyReplace
    LedgerOnlyGrows
    NothingOnContradictedSource
CHECK_DEADLOCK FALSE
VIEW EvidenceView
