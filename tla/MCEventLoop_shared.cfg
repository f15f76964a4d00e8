CONSTANTS
    g1 = g1
    g2 = g2
    g3 = g3
    Goroutines = {g1, g2, g3}
    Runs <- SharedSocket
    Datagrams <- Events
    RecvTimeout = TRUE
    Faults = FALSE
    MaxSent = 1
    MaxCalls = 2
    MaxSignals = 2
    QueueCap = 2
SPECIFICATION FairSpec
PROPERTIES
    StopsWhenTold
    CallsReturn
CHECK_DEADLOCK FALSE
