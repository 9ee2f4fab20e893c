CONSTANTS
    Primitive <- MCPrimitive
    Target <- MCTarget
    IRHash <- MCIRHash
    Manifests <- MCManifests
    Effects <- TwoEffects
    Policy <- MCPolicy
    Registered <- MCRegistered
    ForeignTokens <- MCForeignTokens
    SignKey = "key"
    TTL = 1
    EnableEnvelope = TRUE
    EnableAutomaton = TRUE
    EnableCapability = TRUE
    MaxReceipts = 2
    MaxTokens = 2
    MaxTime = 2
    MaxCallTime = 1
SPECIFICATION Spec
INVARIANTS
    TokenSingleUse
    AuthorityBound
PROPERTIES
    ImplementsMonitor
