SPECIFICATION Spec
CONSTANTS
    Callers = {c1, c2}
    Urls <- MCUrls
    LocalDomain <- MCLocalDomain
    IpHosts = {"10.0.0.1"}
    OddHosts = {}
    PrivateHosts = {}
    BlockedHosts = {}
    Undotted <- MCUndotted
    AllowHttpUrls = FALSE
    AllowLocalIp = FALSE
    Senders <- MCSenders
    InboxLists <- MCInboxLists
    MaxAttempts = 1
    MaxKeys = 1
INVARIANTS
    TypeOK
    TasksDeliverable
    HandedOverExactly
    WaitersAreServed
PROPERTIES
    CallSettles
CHECK_DEADLOCK FALSE
