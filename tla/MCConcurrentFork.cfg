CONSTANTS
    Primitive <- MCPrimitive
    Target <- MCTarget
    IRHash <- MCIRHash
    Manifests <- OneManifest
    Effects <- TwoEffects
    Policy <- MCPolicy
    Registered <- MCRegistered
    ForeignTokens <- MCForeignTokens
    SignKey = "key"
    TTL = 1
    EnableEnvelope = TRUE
    EnableAutomaton = TRUE
    EnableCapability = TRUE
    MaxReceipts = 2
    MaxTokens = 2
    MaxTime = 0
    MaxCallTime = 0
    t1 = t1
    t2 = t2
    Thread <- MCThread
SPECIFICATION ConcurrentSpec
CHECK_DEADLOCK FALSE
INVARIANTS
    ChainIsSequential
