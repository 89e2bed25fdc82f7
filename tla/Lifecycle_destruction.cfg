SPECIFICATION FairSpec
CONSTANTS
    u1 = u1
    u2 = u2
    w1 = w1
    w2 = w2
    Manager = Manager
    Nobody = Nobody
    Users <- TwoUsers
    Workers <- TwoWorkers
    Messages <- ThreeMessages
    Author <- ThreeAuthors
CHECK_DEADLOCK FALSE
INVARIANTS
    TypeOK
    NoWorkerClosesPool
    WrittenBeforeDestruction
    LossReported
PROPERTIES
    WorkersEnd
