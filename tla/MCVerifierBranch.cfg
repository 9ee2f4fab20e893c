CONSTANTS
    Primitive <- MCPrimitive
    Target <- MCTarget
    IRHash <- MCIRHash
    VarName <- MCVarName
    HighSource = {"crm"}
    Gas = 16
    MaxBound = 1024
    Strings <- MCStrings
    Programs <- BranchPrograms
    parse <- MCparse
    Dunder <- MCDunder
SPECIFICATION VerifierSpec
CHECK_DEADLOCK FALSE
INVARIANTS
    LowIsIndependent
