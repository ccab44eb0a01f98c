SPECIFICATION FairSpec
CONSTANTS
    dispatcher = dispatcher
    m1 = m1
    m2 = m2
    Modules <- TwoModules
    Dispatcher = dispatcher
    RestartDelay = 1
    MaxRestartDelay = 3
    StableAfter = 2
    ReadyTimeout = 1
    StopTimeout = 1
    MaxExits = 3
    MaxPublished = 1
CHECK_DEADLOCK FALSE
INVARIANTS
    Escalates
PROPERTIES
    StartsInOrder
    ComesToRest
