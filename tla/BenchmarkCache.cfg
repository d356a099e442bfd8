SPECIFICATION Spec
CONSTANTS
    Proc = {p, q}
    SourceObj = {statement}
    Row = {row}
    HeadFile = {headfile}
    Jobs = {"sources", "evidence", "annotate", "save"}
    MaxInode = 12
    MaxCalls = 2
    MaxMishaps = 3
SYMMETRY Symmetry
INVARIANTS
    AckedSurvives
PROPERTIES
    DefiniteFailureChangesNothing
    PairOrPrior
CHECK_DEADLOCK FALSE
