SPECIFICATION Spec
CONSTANTS
    t1 = t1
    t2 = t2
    l1 = l1
    l2 = l2
    s1 = s1
    s2 = s2
    h1 = h1
    Torn = Torn
    None = None
    MapMutex = MapMutex
    HandlerMutex = HandlerMutex
    PoolMutex = PoolMutex
    Threads <- TwoThreads
    LoggerNames = {"a", "b"}
    SinkNames = {"s"}
    Loggers <- TwoLoggers
    Sinks <- TwoSinks
    MaxObjects = 3
    Handlers <- OneHandler
SYMMETRY RegistrySymmetry
INVARIANTS
    HandlerPropagated
