SPECIFICATION Spec
CONSTANTS
    Stores = {s1, s2}
    Calls = {k1, k2}
    Capabilities = {c1}
    Authorizations = {a1}
    None = None
INVARIANTS
    RecordedMeansCompleted
