SPECIFICATION Spec
CONSTANTS
    Child = child
    Descendants = {d1}
    MaxOutput = 0
    Chunk = 1
    PipeCap = 1
    Milli = 2
    IdlePoll = 1
    MaxPoll = 2
    Timeout = 4
    MaxClock = 6
INVARIANTS
    DeadlineHolds
    ExitNoticed
