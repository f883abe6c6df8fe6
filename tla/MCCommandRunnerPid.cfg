SPECIFICATION Spec
CONSTANTS
    Child = child
    Descendants = {d1}
    MaxOutput = 1
    Chunk = 1
    PipeCap = 2
    Milli = 1
    IdlePoll = 1
    MaxPoll = 1
    Timeout = 1
    MaxClock = 2
INVARIANTS
    OnlyOwnGroupKilled
