CONSTANTS
    Primitive <- MCPrimitive
    Target <- MCTarget
    IRHash <- MCIRHash
    Manifests <- MCManifests
    Effects <- MCEffects
    Policy <- MCPolicy
    Registered <- MCRegistered
    ForeignTokens <- NoTokens
    SignKey = "key"
    TTL = 1
    EnableEnvelope = TRUE
    EnableAutomaton = TRUE
    EnableCapability = TRUE
    MaxReceipts = 4
    MaxTokens = 4
    MaxTime = 0
    MaxCallTime = 0
    Cells <- RaceCells
    Worker <- TwoWorkers
    EnableStatic = TRUE
    EnableIfc = TRUE
    EnableKernel = TRUE
    MaxCells = 2
    w1 = w1
    w2 = w2
SPECIFICATION CvmSpec
CHECK_DEADLOCK FALSE
INVARIANTS
    EffectsAreAdmitted
    AcceptedIsClean
PROPERTIES
    CellsAreAnswered
