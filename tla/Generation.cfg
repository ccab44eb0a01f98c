SPECIFICATION Spec
INVARIANTS NothingFalse LedgerAddsUp QuietAgrees
CONSTANTS
    Identities = {1, 2, 3}
    Nodes = {1, 2, 3}
    Mining = {1, 2}
    NewKismet <- Issued
    Parts = 4
    AgeLimitFloor = 2
    AgeLimitFactor = 2
    StakesPerBlock = 4
    BaselineMultiple = 2
    BaselineGenerations = 4
    BaselineFall = 3
    WindowDivisor = 2
    CountedBits = 2
    Terms <- Payments
    EntriesPerHolder = 1
    MostEntries = 5
    Room = 1
    Distrusted <- Distrusting
    StakePercent <- Staking
    Combine = 1
    Starts <- Networks
CHECK_DEADLOCK FALSE
