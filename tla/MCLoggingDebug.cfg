SPECIFICATION Spec
CONSTANTS
    Threads = {t1, t2}
INVARIANTS
    DebugOnlyOnRequest
