SPECIFICATION FairSpec
CONSTANTS
    Journals = {j1, j2}
    Operations = {o1, o2}
    Hashes = {h1, h2}
    None = None
PROPERTIES
    CloseEnds
