\* A subscriber that does not poll while the queue overflows.
SPECIFICATION Spec
CONSTANTS
    Configs = {a, b}
    Initial = a
    Sources = {src}
    Errors = {err}
    Panicked = Panicked
    Snapshot = Snapshot
    Nothing = Nothing
    MaxQueued = 3
    DroppedCap = 2
INVARIANTS
    FirstItemIsSnapshot
