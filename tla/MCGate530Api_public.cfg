CONSTANTS
    r1 = r1
    r2 = r2
    r3 = r3
    Undefined = Undefined
    None = None
    Conditions <- AllConditions
    DefaultRules <- BuildEngine
    Ids <- AllIds
    Uuids <- UuidForm
    Ips <- OneIp
    Reqs <- Requests2
    Inputs <- PublicInputs
    MaxConnections = 1
    RateMax = 3
    AdminRateMax = 3
    Window = 1
    AdminWindow = 1
    DbFaults = FALSE
    Disconnects = FALSE
    Signals = FALSE
    MaxTime = 0
    MaxBoot = 1
SPECIFICATION Spec
INVARIANTS
    PublicAllowed
CHECK_DEADLOCK FALSE
