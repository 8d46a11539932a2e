SPECIFICATION Spec
CONSTANTS
    r1 = r1
    r2 = r2
    r3 = r3
    None = None
    Reqs <- Requests3
    Inputs <- PolicyInputs
    ReqIds <- TwoIds
    Tenants <- OneTenant
    Sectors <- TwoSectors
    Intents <- OneIntent
    RuleIds <- OneRule
    Ips <- OneIp
    Tokens <- OneToken
    CacheTtl = 2
    BatchSize = 2
    FailClosed = TRUE
    DefaultEffect = "allow"
    EvidenceFaults = TRUE
    MaxTime = 3
    RateMax = 3
    AdminRateMax = 3
    Window = 1
    AdminWindow = 1
SYMMETRY RequestSymmetry
INVARIANT PoliciesRecent
INVARIANT EveryAnswerAudited
CHECK_DEADLOCK FALSE
