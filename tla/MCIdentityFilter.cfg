SPECIFICATION Spec
CONSTANTS
    Keys = {k1, k2}
    MaxEntries = 1
    MaxLines = 2
INVARIANTS
    StrictNeverBroadens
    FailuresTolerated
    RolesKeptApart
    EntryLimitExact
