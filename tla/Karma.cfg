SPECIFICATION Spec
CONSTANTS
    Generations <- World
    Previous <- Before
    Work <- Works
    Rank <- Ranks
    Claims <- Claim
    Keys <- Holds
    Witnesses <- Lists
    Correct = {"r", "a2", "a3", "b2", "b3", "c3", "own3", "d"}
    Misshapen = {"w"}
    Transactions = {1, 2, 11, 12}
    Peers = {"p"}
    CarryGenerations = 1
    Payments = {"one", "two"}
    Given = {11}
    Moments = {1, 2}
    Batch = 2
    Starts <- Scenarios
CHECK_DEADLOCK FALSE
INVARIANT Recovers
INVARIANT FoundLighterStays
INVARIANT TransactionsKept
INVARIANT PaidOnce
