SPECIFICATION Spec
CONSTANTS
    Own = own
    Content = {own, k}
    Nodes = {k}
    Directions = {"outbound", "inbound"}
    Shunnable = {k}
    Writers = {w}
    MaxHeld = 2
    MinFree = 1
    Disk = 3
    Headroom = 0
    MaxHandOffs = 1
    MaxCandidates = 2
    Grace = 1
    RetryDelay = 0
    HandOffTimeout = 1
    CandidatesTimeout = 1
    ReclaimTimeout = 1
    ReclaimInterval = 1
    StatsLags = FALSE
    MaxInbox = 1
    MaxWaiting = 1
    Bounds <- SafetyBounds
INVARIANTS
    NeverStalls
    FullIsCurrent
    NeverUndercounts
PROPERTIES
    StoredLatelyStays
    KeepsSafely
    ConnectedKeysKept
