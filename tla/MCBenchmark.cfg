SPECIFICATION ChainSpec
CONSTANTS
    Shell = {p, q}
    Version = {v1, v2}
    Criterion = {a, b}
    MustHave = {a}
    NeedsTest = {b}
    Line = {"implementation", "test"}
    Absent = Absent
    MaxCommands = 6
    MaxEdits = 3
SYMMETRY ChainSymmetry
PROPERTIES
    OneChain
    AcceptedInputsAreScored
CHECK_DEADLOCK FALSE
