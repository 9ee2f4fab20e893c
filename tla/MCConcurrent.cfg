CONSTANTS
    Primitive <- MCPrimitive
    Target <- MCTarget
    IRHash <- MCIRHash
    Manifests <- OneManifest
    Effects <- MixedEffects
    Policy <- MCPolicy
    Registered <- MCRegistered
    ForeignTokens <- MCForeignTokens
    SignKey = "key"
    TTL = 0
    EnableEnvelope = TRUE
    EnableAutomaton = TRUE
    EnableCapability = TRUE
    MaxReceipts = 3
    MaxTokens = 3
    MaxTime = 1
    MaxCallTime = 0
    t1 = t1
    t2 = t2
    Thread <- MCThread
SPECIFICATION ConcurrentSpec
CHECK_DEADLOCK FALSE
SYMMETRY ThreadSymmetry
INVARIANTS
    ConcurrentTypeOK
    LinksAreFresh
    StepsAreFresh
