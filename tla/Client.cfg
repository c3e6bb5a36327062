CONSTANTS
    Roles = {"rpc", "lease", "callback", "observer"}
    Capacity = 1
    MaxRecursion = 1
    MaxCalls = 3
    MaxPosts = 3
    MaxSkip = 1
SPECIFICATION Spec
INVARIANTS StreamInSync GrantsAgree
PROPERTY DeltaFollows
CHECK_DEADLOCK FALSE
