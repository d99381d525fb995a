SPECIFICATION Spec
CONSTANTS
    Authors <- MCAuthors
    Posts <- MCPosts
    PostOf <- MCPostOf
    Identifiers <- MCIdentifiers
    MaxAttempts = 3
INVARIANTS
    RepliesAccounted
PROPERTIES
    DeliveryAnswered
CHECK_DEADLOCK FALSE
