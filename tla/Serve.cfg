SPECIFICATION FairSpec
CONSTANTS
    None = None
    Nobody = Nobody
    Keys = {"k1", "k2", "k3"}
    Requests = {1, 2}
    Callers = {1, 2}
    Threads = {t}
    MaxAttempts = 3
    OfClient <- MCOfClient
    AsyncMiddleware = {"async own"}
    Configs <- MCConfigs
    Shapes <- MCShapes
CHECK_DEADLOCK FALSE
INVARIANTS
    TypeOK
    Authentic
    RunsOnFetchedState
    RotationSafe
    HooksPaired
    
    LogsNewCode
    SentOnce
PROPERTY
    EveryRequestEnds
