SPECIFICATION FairSpec
CONSTANTS
    r1 = r1
    r2 = r2
    r3 = r3
    None = None
    Reqs <- Requests2
    Inputs <- AllInputs
    ReqIds <- TwoIds
    Tenants <- OneTenant
    Sectors <- TwoSectors
    Intents <- OneIntent
    RuleIds <- OneRule
    Ips <- OneIp
    Tokens <- OneToken
    CacheTtl = 2
    BatchSize = 2
    FailClosed = TRUE
    DefaultEffect = "allow"
    EvidenceFaults = TRUE
    MaxTime = 2
    RateMax = 1
    AdminRateMax = 1
    Window = 1
    AdminWindow = 1
INVARIANT PassedEveryLayer
PROPERTY ImplementsTrail
PROPERTY AcceptedIsPublished
CHECK_DEADLOCK FALSE
