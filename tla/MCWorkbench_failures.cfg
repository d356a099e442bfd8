SPECIFICATION FairSpec
CONSTANTS
    Sessions = {a}
    Events = {e1, e2, e3}
    Drafts = {"input", "scope", "note"}
    Failures = TRUE
    Missing = Missing
    Unreadable = {"unreadable"}
PROPERTIES
    UnsavedWorkKept
    PassEnds
