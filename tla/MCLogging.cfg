SPECIFICATION FairSpec
CONSTANTS
    Threads = {t1, t2, t3}
INVARIANTS
    DebugFollowsRequest
    NothingSilenced
    NoSelfConflict
PROPERTIES
    NoneShutOut
