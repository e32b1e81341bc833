CONSTANTS
    Calls = {c1, c2}
    Hosts = {h1}
    Timed = {c1, c2, h1}
    Threads = {1, 2, 3}
    Limit = 2
    Foreign = Foreign
    Nothing = Nothing
SPECIFICATION Spec
INVARIANTS
    SlotsAreCounted
    NoSleepBesideAFreeSlot
    JobsFindAThread
PROPERTY
    EvaluationsReturn
