SPECIFICATION Spec
CONSTANTS
    w1 = w1
    w2 = w2
    p1 = p1
    p2 = p2
    l1 = l1
    l2 = l2
    s1 = s1
    s2 = s2
    Dispatcher = Dispatcher
    Nobody = Nobody
    Workers <- TwoWorkers
    Producers <- TwoProducers
    Loggers <- TwoLoggers
    Sinks <- TwoSinks
    Messages <- ThreeMessages
    Author <- TwoAuthors
    Via <- TwoVia
    LoggerRejects <- NoPairs
    SinkRejects <- NoPairs
    FilterThrows <- NoPairs
    ModuleThrows <- NoPairs
    Links <- TwoLinks
    Reconfigured <- NoPairs
    Deletable <- NoPairs
SYMMETRY WorkerSymmetry
PROPERTIES
    WaitCoversOwnMessages
