SPECIFICATION FairSpec
CONSTANTS
    Ids = {1, 2}
    Events = {e1, e2}
    Clients = {a, b}
    Operations = {"read", "mutate", "save", "analyze", "import", "delete", "load"}
    Missing = Missing
    Free = Free
    Unbound = Unbound
    Unread = {"unread"}
INVARIANTS
    LoadedIsCurrent
PROPERTIES
    NoEventLost
    DeletesWhatWasPreviewed
    CallsReturn
CHECK_DEADLOCK FALSE
