\* Two connections race for the lease, the worker and the shutdown.
CONSTANTS
    Conns = {c1, c2}
    Nobody = Nobody
SPECIFICATION FairSpec
INVARIANTS
    TypeOK
    OneEngineUser
    ShutdownReachesHolder
    AnsweredForItself
    ShutdownNotLost
PROPERTIES
    ShutdownEnds
CHECK_DEADLOCK FALSE
