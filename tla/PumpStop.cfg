\* A platform thread that has ended before the pump is started.
SPECIFICATION PumpSpec
CONSTANTS
    Configs = {a, b}
    Initial = a
    Sources = {}
    Errors = {}
    Panicked = Panicked
    Snapshot = Snapshot
    Nothing = Nothing
    MaxQueued = 1
    DroppedCap = 1
    Threads = {t1}
    Main = t1
    PumpThread = pumpThread
    NoOne = NoOne
    MaxPosted = 2
PROPERTIES
    StopIsTold
CHECK_DEADLOCK FALSE
