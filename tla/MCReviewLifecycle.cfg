SPECIFICATION Spec
CONSTANTS
    Criteria = {c1}
    MustHave = {c1}
    Files = {f1}
    NoRuntime = NoRuntime
    NoProvenance = NoProvenance
    NoBundle = NoBundle
    Final = Final
    MaxEvents = 3
    MaxScope = 2
    MaxRecords = 4
    MaxRuntime = 1
    Reviewers = {alice}
    AllFacts <- FactsComplete
    MaxRevisions = 2
    Decisions = {"accepted"}
    Outcomes = {"partial"}
INVARIANTS
    ReadyIsEarned
    OneRecordPerVerification
    AcceptanceCoversFiles
    TypeOK
    Revalidates
    RevisionStartsUndecided
PROPERTIES
    OnlyDecisionsComplete
    AuditTrail
    ManualVerificationStands
CHECK_DEADLOCK FALSE
