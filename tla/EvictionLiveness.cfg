SPECIFICATION FairSpec
CONSTANTS
    Own = own
    Content = {own, k, a}
    Nodes = {k}
    Directions = {"outbound"}
    Shunnable = {}
    Writers = {w}
    MaxHeld = 1
    MinFree = 0
    Disk = 3
    Headroom = 0
    MaxHandOffs = 1
    MaxCandidates = 2
    Grace = 0
    RetryDelay = 0
    HandOffTimeout = 1
    CandidatesTimeout = 1
    ReclaimTimeout = 1
    ReclaimInterval = 1
    StatsLags = FALSE
    MaxInbox = 1
    MaxWaiting = 1
    Bounds <- LivenessBounds
PROPERTIES
    StorageRecovers
