SPECIFICATION Spec
CONSTANTS
    w1 = w1
    w2 = w2
    p1 = p1
    p2 = p2
    l1 = l1
    l2 = l2
    s1 = s1
    s2 = s2
    Dispatcher = Dispatcher
    Nobody = Nobody
    Workers <- TwoWorkers
    Producers <- TwoProducers
    Loggers <- TwoLoggers
    Sinks <- TwoSinks
    Messages <- FourMessages
    Author <- SharedAuthor
    Via <- SharedVia
    LoggerRejects <- NoPairs
    SinkRejects <- SharedRejects
    FilterThrows <- SharedFilterThrows
    ModuleThrows <- SharedModuleThrows
    Links <- SharedLinks
    Reconfigured <- NoPairs
    Deletable <- FirstLogger
SYMMETRY WorkerSymmetry
INVARIANTS
    TypeOK
    NoStranded
    IdleMeansDrained
    SinkKeepsRemaining
    LossContained
PROPERTIES
    ImplementsOrder
