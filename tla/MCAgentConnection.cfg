SPECIFICATION FairSpec
CONSTANTS
    Timeout = 5
    Milli = 3
    MaxSize = 3
    BufCap = 2
    MaxCalls = 2
    MaxClock = 12
INVARIANTS
    OnlyOnConnection
    NoEarlyTimeout
    WithinDeadline
PROPERTIES
    Terminates
