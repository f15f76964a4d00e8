CONSTANTS
    g1 = g1
    g2 = g2
    g3 = g3
    Goroutines = {g1}
    Runs <- OneLoop
    Datagrams <- Traffic
    RecvTimeout = FALSE
    Faults = FALSE
    MaxSent = 2
    MaxCalls = 0
    MaxSignals = 1
    QueueCap = 2
SPECIFICATION FairSpec
PROPERTIES
    StopsWhenTold
CHECK_DEADLOCK FALSE
