SPECIFICATION FairSpec
CONSTANTS
    Sessions = {a}
    Events = {e1, e2}
    Drafts = {}
    Failures = FALSE
    Missing = Missing
    Unreadable = {"unreadable"}
PROPERTIES
    DeletedReviewStaysAvailable
