SPECIFICATION FairSpec
CONSTANTS
    w1 = w1
    w2 = w2
    w3 = w3
    c1 = c1
    c2 = c2
    k1 = k1
    k2 = k2
    k3 = k3
    h1 = h1
    h2 = h2
    NoHandler = NoHandler
    NoTask = NoTask
    NoThread = NoThread
    Workers <- TwoWorkers
    Clients <- TwoClients
    Tasks <- TwoTasks
    FailingTasks <- OneFailing
    Handlers <- TwoHandlers
INVARIANTS
    TypeOK
    NoLostTask
    NoMissedIdle
PROPERTIES
    WaitCoversTasks
    HandlerUndisturbed
    ImplementsService
    TasksFinish
    WaitsReturn
    DestructorReturnsOnceSeen
