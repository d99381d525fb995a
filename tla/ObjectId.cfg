SPECIFICATION SafeSpec
CONSTANTS
    Callers = {c1, c2}
    HttpFetchLimit = 1
    Urls <- MCUrls
    LocalDomain <- MCLocalDomain
    IpHosts = {}
    OddHosts = {}
    PrivateHosts = {}
    BlockedHosts = {}
    Undotted <- MCUndotted
    Debug = FALSE
    AllowHttpUrls = FALSE
    AllowLocalIp = FALSE
INVARIANTS
    TypeOK
    RequestsAccounted
    RecursionPaidFor
CHECK_DEADLOCK FALSE
