SPECIFICATION SafeSpec
CONSTANTS
    Handlers = {h1, h2}
    Urls <- MCUrls
    LocalDomain <- MCLocalDomain
    IpHosts = {}
    OddHosts = {}
    PrivateHosts = {}
    BlockedHosts = {}
    Undotted <- MCUndotted
    Debug = FALSE
    AllowHttpUrls = FALSE
    AllowLocalIp = FALSE
    ExpiresAfter = 0
    Actors <- MCActors
    Resolved <- MCResolved
    Persists <- MCPersists
    KeyId <- MCKeyId
    Bodies <- MCBodies
    Targets = {"inbox"}
    Styles <- MCStyles
    RefetchAfter = 0
    MaxTime = 1
    MaxKeys = 2
    Faults = {"body", "repeat"}
    Undated = {}
    MaxRequests = 1
INVARIANTS
    TypeOK
    VerifiedWasSigned
    AcceptedWhileFresh
    RefusedForCause
    StaleKeyExplained
SYMMETRY Symmetry
VIEW View
CHECK_DEADLOCK FALSE
