SPECIFICATION FairSpec
CONSTANTS
    Keys = {k1}
    Users <- MCUsers
    Configurations <- MCConfigurations
INVARIANTS
    ShortcutMeant
    StrictHelperNotRoot
    HelperRunsAs
PROPERTIES
    ImplementsGate
    StrictAnswered
