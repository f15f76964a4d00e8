CONSTANTS
    r1 = r1
    r2 = r2
    Rules = {r1, r2}
    NoRule = NoRule
    LWRules = {r1}
    Unsendable = {r2}
    Values = {0, 1}
    SockPid = 7
    ReplyPid = 7
    ExistsErr <- EEXIST
    Refusals <- EPERM
    EventTypes <- NoEvents
    Operations <- Acknowledged
    Faults = FALSE
    OtherProcess = TRUE
    MaxSeq = 6
    QueueCap = 2
SPECIFICATION Spec
INVARIANTS
    SuccessMeansApplied
    QuietBetweenCalls
CHECK_DEADLOCK FALSE
