SPECIFICATION GatewaySpec
CONSTANTS
    s = s
    w = w
    n = n
    None = None
    Keys = {s, w, n}
    Evidence <- MCEvidence
    Rpcs <- MCRpcs
    FirstIdentities <- MCFirstIdentities
    Views <- MCViews
    Policy <- MCPolicy
    MaxTime = 2
    MaxIdentities = 3
    MinValidity = 1
    MaxValidity = 2
    MinAckValidity = 1
    MaxAckValidity = 2
    MaxUint256 = 3
    Lifetime = 1
    MinLifetime = 1
    MaxLifetime = 2
    MaxSensitiveCalls = 2
    MaxRequests = 3
    MaxRevision = 1
INVARIANTS
    SentIsBacked
    EvidenceUsedOnce
    AdmittedHasRoom
CHECK_DEADLOCK FALSE
