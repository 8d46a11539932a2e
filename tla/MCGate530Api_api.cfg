CONSTANTS
    r1 = r1
    r2 = r2
    r3 = r3
    Undefined = Undefined
    None = None
    Conditions <- AllConditions
    DefaultRules <- BuildEngine
    Ids <- AllIds
    Uuids <- UuidForm
    Ips <- OneIp
    Reqs <- Requests2
    Inputs <- EveryKind
    MaxConnections = 1
    RateMax = 1
    AdminRateMax = 1
    Window = 1
    AdminWindow = 1
    DbFaults = TRUE
    Disconnects = TRUE
    Signals = TRUE
    MaxTime = 0
    MaxBoot = 2
SPECIFICATION FairSpec
INVARIANTS
    TypeOK
    PoolBalanced
    MetricsBalanced
PROPERTIES
    ShutdownCutsNobodyOff
    RulesChangedByAdmin
    ImplementsLedger
    EveryRequestAnswered
    ShutdownCompletes
CHECK_DEADLOCK FALSE
