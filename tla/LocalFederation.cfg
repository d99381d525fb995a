SPECIFICATION Spec
CONSTANTS
    Servers <- MCServers
    Calls <- MCCalls
    CallOf <- MCCallOf
    After <- MCAfter
    MaxUsers = 3
INVARIANTS
    FollowersAccounted
    PostsReachFollowersOnce
PROPERTIES
    CallsReturn
CHECK_DEADLOCK FALSE
