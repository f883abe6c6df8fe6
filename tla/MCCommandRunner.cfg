SPECIFICATION FairSpec
CONSTANTS
    Child = child
    Descendants = {d1}
    MaxOutput = 1
    Chunk = 1
    PipeCap = 1
    Milli = 1
    IdlePoll = 1
    MaxPoll = 1
    Timeout = 1
    MaxClock = 1
INVARIANTS
    ReapedOnReturn
    CompleteOutput
    LimitIsExact
    GroupKilled
    HelperConfined
    StrictHelperIsAlone
PROPERTIES
    ImplementsContract
    Terminates
