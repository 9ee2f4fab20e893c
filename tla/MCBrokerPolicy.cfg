CONSTANTS
    Primitive <- MCPrimitive
    Target <- MCTarget
    IRHash <- MCIRHash
    Manifests <- OneManifest
    Effects <- MCEffects
    Policy <- MCPolicy
    Registered <- MCRegistered
    ForeignTokens <- MCForeignTokens
    SignKey = "key"
    TTL = 1
    EnableEnvelope = TRUE
    EnableAutomaton = TRUE
    EnableCapability = TRUE
    MaxReceipts = 3
    MaxTokens = 2
    MaxTime = 0
    MaxCallTime = 0
SPECIFICATION Spec
INVARIANTS
    TypeOK
    AuditCommitsToHistory
    StateMatchesAudit
PROPERTIES
    DenyIsInert
    ImplementsMonitor
