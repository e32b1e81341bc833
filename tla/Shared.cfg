\* Two configurations, one failure, one store that can degrade; the queue
\* holds three entries, so that a stalled subscriber overflows it.
SPECIFICATION Spec
CONSTANTS
    Configs = {a, b}
    Initial = a
    Sources = {src}
    Errors = {err}
    Panicked = Panicked
    Snapshot = Snapshot
    Nothing = Nothing
    MaxQueued = 3
    DroppedCap = 2
INVARIANTS
    QueueIsBounded
    NoLostWakeup
    OwedOrCurrent
    ChangeFollowsFailure
    EndIsAnnounced
    PanicIsDark
PROPERTIES
    ImplementsLevelStream
    CatchesUp
    EndArrives
