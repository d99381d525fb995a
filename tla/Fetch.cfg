SPECIFICATION FetchSpec
CONSTANTS
    Callers = {c1}
    HttpFetchLimit = 4
    Urls <- MCUrls
    LocalDomain <- MCLocalDomain
    IpHosts = {"address"}
    OddHosts = {"odd_name"}
    PrivateHosts = {"private"}
    BlockedHosts = {"blocked"}
    Undotted <- MCUndotted
    Debug = FALSE
    AllowHttpUrls = FALSE
    AllowLocalIp = FALSE
INVARIANTS
    OnlyVerifiedRemote
    DomainLeftByRedirectOnly
    NotModifiedIsAboutAsked
PROPERTY FetchReturns
CHECK_DEADLOCK FALSE
