SPECIFICATION Spec
CONSTANTS
    Journals = {j1, j2, j3}
    Operations = {o1, o2}
    Hashes = {h1, h2}
    None = None
SYMMETRY Symmetry
INVARIANTS
    SingleWriter
    ConfirmedIsDurable
PROPERTY ImplementsRecord
