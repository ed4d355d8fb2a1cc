SPECIFICATION MCSpec
CONSTANTS
    NoReceipt = NoReceipt
    OtherReceipt = OtherReceipt
    MaxCorruptions = 1
    files = files
    otherFiles = otherFiles
    MaxCapabilities = 2
    LocalPolicies <- MCPolicies
    Instants = {0, 1}
    Verifiers = {files, otherFiles}
    Pinned = files
    admin = admin
    writer = writer
    Addresses = {admin, writer}
    BatchIds = {b1, b2}
    Commitments <- MCCommitments
    Unset = Unset
    ca = ca
    cb = cb
    cc = cc
    cd = cd
    Batches <- MCBatches
    p1 = p1
    p2 = p2
    Publishers = {p1, p2}
    old = old
    new = new
    Bases = {old, new}
    Nobody = Nobody
INVARIANTS
    CorruptionIsEvident
    StrictRefinesLegacy
    VerdictIsEarned
    AnchoredProofsHold
    FailureLeavesNoSuccess
SYMMETRY MCSymmetry
CHECK_DEADLOCK FALSE
