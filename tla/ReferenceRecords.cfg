SPECIFICATION MCSpec
CONSTANTS
    s = s
    w = w
    n = n
    h1 = h1
    h2 = h2
    h3 = h3
    c1 = c1
    c2 = c2
    o1 = o1
    o2 = o2
    None = None
    Invalid = Invalid
    MaxTime = 2
    MinAckValidity = 1
    MaxAckValidity = 2
    Keys = {s, w, n}
    Evidence <- MCEvidence
    MaxIdentities = 3
    MinValidity = 1
    MaxValidity = 2
    Handles = {h1, h2, h3}
    Authorizations <- MCAuthorizations
    Effects = {"e"}
    MaxAuthorizations = 2
    Captures = {c1, c2}
    Expectations <- MCExpectations
    Observations <- MCObservations
    MaxReports = 2
    MaxUint256 = 9
    Operators = {o1, o2}
    Policies <- MCPolicies
    FirstPolicy <- MCPolicy
    Intents <- MCIntents
    Simulations = {"pass"}
    LastRevision = 4
INVARIANTS
    VerifiedIsBacked
    SuccessionIsLinear
    EvidenceOncePerAuthorization
    VerdictIsUnambiguous
PROPERTY KillSwitchHolds
CHECK_DEADLOCK FALSE
