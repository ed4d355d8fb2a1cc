SPECIFICATION Spec
CONSTANTS
    Calls = {k1, k2}
    Capabilities = {c1, c2, c3}
    Profiles = {p1}
    Actions = {x1, x2}
    Contexts = {u1, u2}
    MaxTime = 3
    MinLifetime = 1
    MaxLifetime = 2
    None = None
INVARIANTS
    SingleForward
    ForwardIsAuthorized
    ForwardsInTimeOrder
SYMMETRY Symmetry
