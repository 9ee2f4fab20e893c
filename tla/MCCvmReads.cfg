CONSTANTS
    Primitive <- MCPrimitive
    Target <- MCTarget
    IRHash <- MCIRHash
    Manifests <- MCManifests
    Effects <- MCEffects
    Policy <- MCPolicy
    Registered <- MCRegistered
    ForeignTokens <- NoTokens
    SignKey = "key"
    TTL = 1
    EnableEnvelope = TRUE
    EnableAutomaton = TRUE
    EnableCapability = TRUE
    MaxReceipts = 2
    MaxTokens = 2
    MaxTime = 0
    MaxCallTime = 0
    Cells <- KvCells
    Worker <- OneWorker
    EnableStatic = TRUE
    EnableIfc = TRUE
    EnableKernel = TRUE
    MaxCells = 1
    w1 = w1
    w2 = w2
SPECIFICATION CvmSpec
CHECK_DEADLOCK FALSE
INVARIANTS
    ReadsAreAdmitted
