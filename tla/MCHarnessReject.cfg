CONSTANTS
    Primitive <- MCPrimitive
    Target <- MCTarget
    IRHash <- MCIRHash
    Manifests <- MCManifests
    Policy <- MCPolicy
    Registered <- MCRegistered
    Worker <- OneWorker
    Systems <- MCSystems
    Cases <- MCCases
    Entries <- NoEntries
    MaxCases = 2
    MaxReceipts = 6
    MaxTokens = 6
    MaxTime = 1
    MaxCallTime = 1
    w1 = w1
SPECIFICATION HarnessSpec
CHECK_DEADLOCK FALSE
INVARIANTS
    RejectedByFrontEnd
