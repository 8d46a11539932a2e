\* Four calls that change the vault and retrieve from it overlap.
CONSTANTS
    c1 = c1
    c2 = c2
    c3 = c3
    c4 = c4
    d1 = d1
    d2 = d2
    None = None
    Calls <- FourCalls
    Inputs <- AllInputs
    Ids <- Documents
    Tags <- Sectors
    MaxResults = 10
    Threshold = 75
SPECIFICATION Spec
SYMMETRY Symmetry
INVARIANTS
    LogReplays
    LevelFits
    ResultsFit
CHECK_DEADLOCK FALSE
