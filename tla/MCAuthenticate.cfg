SPECIFICATION FairSpec
CONSTANTS
    Keys <- MCKeys
    TrustedKeys = {"soft", "token"}
    TrustedCas = {"ca"}
    SkKeys = {"token"}
    NativeKeys = {"soft", "ca"}
    Identities <- MCIdentities
    Principal = "alice"
    Times <- MCTimes
    MaxIdentities = 2
    MaxRequests = 2
    MaxMinted = 1
INVARIANTS
    AuthenticationSound
    StrictUserVerified
    NothingSkipped
    CertificateInPeriod
PROPERTIES
    ImplementsExchange
    Terminates
