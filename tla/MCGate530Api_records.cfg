CONSTANTS
    r1 = r1
    r2 = r2
    r3 = r3
    Undefined = Undefined
    None = None
    Conditions <- AllConditions
    DefaultRules <- BuildEngine
    Ids <- AllIds
    Uuids <- UuidForm
    Ips <- OneIp
    Reqs <- Requests3
    Inputs <- MixedInputs
    MaxConnections = 2
    RateMax = 3
    AdminRateMax = 3
    Window = 1
    AdminWindow = 1
    DbFaults = TRUE
    Disconnects = FALSE
    Signals = FALSE
    MaxTime = 1
    MaxBoot = 1
SPECIFICATION Spec
SYMMETRY RequestSymmetry
INVARIANTS
    DenyRuleInForce
    EvaluationRecorded
    AuditFollowsEvidence
    ReadYourWrites
CHECK_DEADLOCK FALSE
