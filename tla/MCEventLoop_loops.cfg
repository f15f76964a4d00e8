CONSTANTS
    g1 = g1
    g2 = g2
    g3 = g3
    Goroutines = {g1, g2, g3}
    Runs <- OwnBuffers
    Datagrams <- Mixture
    RecvTimeout = FALSE
    Faults = TRUE
    MaxSent = 3
    MaxCalls = 1
    MaxSignals = 1
    QueueCap = 2
SPECIFICATION Spec
INVARIANTS
    TypeOK
    DeliveredOnce
    NothingLost
    RefusalReported
