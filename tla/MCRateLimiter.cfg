CONSTANTS
    Ips = {ip1}
    RateMax = 2
    AdminRateMax = 1
    Window = 2
    AdminWindow = 2
    MaxTime = 6
    MaxRequests = 7
SPECIFICATION Spec
INVARIANTS
    AdmissionsBounded
    NobodyLockedOut
CHECK_DEADLOCK FALSE
