SPECIFICATION Spec
CONSTANTS
    Requests = {r1, r2, r3}
    Views = {v1, v2}
    Hashes = {h1, h2}
    Command = command
    None = None
SYMMETRY Symmetry
VIEW View
INVARIANTS
    PendingIsLive
    AcknowledgedIsDurable
    ObservedIsRetained
    SuccessIsClean
PROPERTY AmbiguityIsFinal
