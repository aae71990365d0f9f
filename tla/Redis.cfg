\* Two sessions, two replicas' handlers, five handler runs.
CONSTANTS
    None = None
    Ids = {1, 2}
    Workers = {1, 2}
    SessionTTL = 2
    Minute = 1
    MaxCalls = 5
SPECIFICATION FairSpec
INVARIANTS
    RedisTypeOK
    ReadableThroughGrace
PROPERTIES
    GoneForGood
    EventuallyGone
CHECK_DEADLOCK FALSE
