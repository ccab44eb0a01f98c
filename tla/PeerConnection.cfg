SPECIFICATION LinkFairSpec
CONSTANTS
    r1 = r1
    r2 = r2
    r3 = r3
    pipelining = pipelining
    other = other
    Requests = {r1, r2, r3}
    Callers = {pipelining, other}
    Batch <- Batches
    Timeout = 1
    LinkStarts <- Scenarios
CHECK_DEADLOCK FALSE
INVARIANTS
    AnswersTrue
PROPERTIES
    ImplementsLine
    EveryEnds
