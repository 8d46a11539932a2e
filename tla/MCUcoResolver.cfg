\* Two lookups that load the files together, in every small world; files and queries may fail.
CONSTANTS
    Cip = cip
    n1 = n1
    n2 = n2
    n3 = n3
    s1 = s1
    s2 = s2
    l1 = l1
    l2 = l2
    NoAnswer = NoAnswer
    CrosswalkWeight = 85
    InferredWeight = 60
    Naics <- Industries
    Soc <- Occupations
    Lookups <- TwoLookups
    Worlds <- AllWorlds
    Faults = TRUE
SPECIFICATION ResolverSpec
SYMMETRY Symmetry
INVARIANTS
    AnswersComplete
    DirectFirst
CHECK_DEADLOCK FALSE
