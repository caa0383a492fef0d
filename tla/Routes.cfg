CONSTANTS
    Owner = Owner
    k1 = k1
    k2 = k2
    v0 = v0
    v1 = v1
    Intents <- MCIntents
    Policies <- MCPolicies
    Keys <- MCKeys
    InitialPolicy = v0
    InitialKey = k1
    HeartbeatInterval = 1
    SigningWindow = 2
    MaxPolls = 1
    MaxPosts = 2
    MaxTime = 1
    MaxDirect = 1
    MaxKills = 1
CHECK_DEADLOCK FALSE
SPECIFICATION Spec
INVARIANTS TypeOK FailuresAreTraceable AttemptsAreContiguous SignatureVouchedOnce
PROPERTIES PostsSettle
