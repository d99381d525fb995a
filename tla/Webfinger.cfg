SPECIFICATION WebfingerSpec
CONSTANTS
    Callers = {c1}
    HttpFetchLimit = 3
    Urls <- MCUrls
    LocalDomain <- MCLocalDomain
    IpHosts = {}
    OddHosts = {}
    PrivateHosts = {}
    BlockedHosts = {}
    Undotted <- MCUndotted
    Debug = FALSE
    AllowHttpUrls = FALSE
    AllowLocalIp = FALSE
    Domains <- MCDomains
    LinkLists <- MCLinkLists
    DebugAssertions = TRUE
INVARIANTS
    LinksTriedInOrder
PROPERTIES
    StoreKept
    ResolveReturns
CHECK_DEADLOCK FALSE
