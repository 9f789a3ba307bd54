SPECIFICATION FairSpec
CONSTANTS
    Conn = {c1, c2}
    Id = {1, 2}
    Value = {"a", "b"}
    Asks <- SomeAsks
    PoolThreads = 1
INVARIANTS
    CacheCoherent
PROPERTIES
    ServesUsers
    Answered
    Ends
CHECK_DEADLOCK FALSE
