SPECIFICATION FaultySpec
CONSTANTS
    Stores = {s1}
    Calls = {k1, k2}
    Capabilities = {c1}
    Authorizations = {a1}
    None = None
PROPERTIES
    NeverRearmed
    CallsReturn
