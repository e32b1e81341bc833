\* Two threads stop the watch; a change, a panic and the stop fill the stream.
SPECIFICATION PumpSpec
CONSTANTS
    Configs = {a, b}
    Initial = a
    Sources = {}
    Errors = {}
    Panicked = Panicked
    Snapshot = Snapshot
    Nothing = Nothing
    MaxQueued = 1
    DroppedCap = 1
    Threads = {t1, t2}
    Main = t1
    PumpThread = pumpThread
    NoOne = NoOne
    MaxPosted = 2
PROPERTIES
    NothingAfterClose
    DeliversTheStream
    CloseReturns
CHECK_DEADLOCK FALSE
