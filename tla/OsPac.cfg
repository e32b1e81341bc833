CONSTANTS
    Requests = {r1, r2}
    Threads = {t1, t2}
    MaxEntries = 2
    Nobody = Nobody
SPECIFICATION Spec
INVARIANTS
    CallbacksAreSafe
    DirectIsEarned
