\* Two stores race for one capability with three concurrent calls.
SPECIFICATION Spec
CONSTANTS
    Stores = {s1, s2}
    Calls = {k1, k2, k3}
    Capabilities = {c1}
    Authorizations = {a1, a2}
    None = None
SYMMETRY Symmetry
INVARIANTS
    SingleClaim
    ClaimIsDurable
    CompletionIsDurable
    InspectionIsSound
PROPERTY ImplementsLedger
