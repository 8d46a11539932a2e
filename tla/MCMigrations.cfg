\* Two jobs overlap or follow each other, over a file with a COMMIT of its own and one without.
CONSTANTS
    j1 = j1
    j2 = j2
    None = None
    Jobs <- TwoJobs
    MaxRetries = 1
    NumFiles = 2
    SelfCommitting <- FirstFile
    MaxFaults = 2

SPECIFICATION Spec
INVARIANTS
    NoPoolLost
    RepeatsExplained
PROPERTIES
    ImplementsHistory
    JobsEnd
CHECK_DEADLOCK FALSE
