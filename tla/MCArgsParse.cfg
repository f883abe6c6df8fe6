SPECIFICATION Spec
CONSTANTS
    Users <- MCUsers
    Menu <- MCMenu
    MaxOptions = 3
INVARIANTS
    OneFilePerUser
    HelperPathFixed
    TrustOutsideHome
    StrictOnlyRefuses
    StrictAnywhere
