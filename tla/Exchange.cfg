SPECIFICATION FairSpec
CONSTANTS
    n1 = n1
    n2 = n2
    me = me
    e1 = e1
    e2 = e2
    moved = moved
    c1 = c1
    c2 = c2
    q1 = q1
    Nodes = {n1, n2}
    Own = me
    BucketOf <- Apart
    PlaceOf <- Place
    MinOutgoing = 2
    MinNeighborhood = 0
    Endpoints = {e1, e2, moved}
    NodeAt <- Answering
    Dials = {theDial}
    RetryDelay = 1
    AwayRest = 2
    Starts <- AllStarts
    Content = {c1, c2}
    Rank <- Ranks
    HashOf <- Hash
    Queries = {q1}
    PrefixOf <- Prefix
    BestFor <- RanksFor
    DigitBits = 2
    PrefixLength = 1
    MinBits = 1
    MostNamed = 1
    Refresh = 1
    BroadcastWorkers = 1
    Relays = 1
    BroadcastHold = 1
    SearchWorkers = {s1, s2}
    PushWorkers = {p1}
    Passes = 2
    Pause = 1
    RetryAfters = {2}
    Hold = 1
    Depth = 2
INVARIANTS
    MixIsTended
    ConnectionsKept
    TasksKept
PROPERTIES
    EverythingEnds
CHECK_DEADLOCK FALSE
