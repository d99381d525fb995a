SPECIFICATION SafeSpec
CONSTANTS
    Callers = {c1}
    HttpFetchLimit = 2
    Urls <- MCUrls
    LocalDomain <- MCLocalDomain
    IpHosts = {}
    OddHosts = {}
    PrivateHosts = {}
    BlockedHosts = {}
    Undotted <- MCUndotted
    Debug = FALSE
    AllowHttpUrls = FALSE
    AllowLocalIp = FALSE
INVARIANT TombstoneDeletes
CHECK_DEADLOCK FALSE
