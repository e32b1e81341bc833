\* A queue of one entry and the failure behind it is enough to overflow.
SPECIFICATION BridgeSpec
CONSTANTS
    Configs = {a, b}
    Initial = a
    Sources = {}
    Errors = {err}
    Panicked = Panicked
    Snapshot = Snapshot
    Nothing = Nothing
    MaxQueued = 2
    DroppedCap = 1
    MaxReceivers = 2
INVARIANTS
    ReceiversAreCurrent
PROPERTIES
    ReceiversCatchUp
    LastReceiverReleases
CHECK_DEADLOCK FALSE
