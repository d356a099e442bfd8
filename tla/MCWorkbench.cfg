SPECIFICATION Spec
CONSTANTS
    Sessions = {a, b}
    Events = {e1, e2}
    Drafts = {"input"}
    Failures = FALSE
    Missing = Missing
    Unreadable = {"unreadable"}
SYMMETRY Symmetry
PROPERTIES
    RecordsKept
    DeletedStaysDeleted
