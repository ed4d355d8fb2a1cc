SPECIFICATION FairSessionSpec
CONSTANTS
    Requests = {"handshake", "deny", "allow", "next", "view", "arm", "dispatched", "result", "settle", "close"}
    Views = {v1, v2}
    Hashes = {h1}
    Command = command
    None = None
INVARIANTS
    WalletNeedsArm
    InvokedIsAccounted
    HashIsKept
    EventIsFinal
PROPERTIES
    AllowAnswered
    StopEnds
CHECK_DEADLOCK FALSE
