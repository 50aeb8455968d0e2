SPECIFICATION FairSpec
CONSTANTS
    u1 = u1
    u2 = u2
    k1 = k1
    NoUrl = NoUrl
    NoBroker = NoBroker
    Confs <- MCConfs
    QueueFactor = 1
    MaxProduced = 4
    MaxUpdates = 2
INVARIANTS
    TypeOK
    BatchInOrder
    BatchGoesWhereProduced
    NothingStranded
PROPERTIES
    LostOnlyWithoutClient
    ImplementsDelivery
    UpdateReturns
    AllSettled
CHECK_DEADLOCK FALSE
