CONSTANTS
    r1 = r1
    r2 = r2
    Rules = {r1, r2}
    NoRule = NoRule
    LWRules = {}
    Unsendable = {}
    Values = {0, 1}
    SockPid = 7
    ReplyPid = 0
    ExistsErr <- EEXIST
    Refusals <- EPERM
    EventTypes <- NoEvents
    Operations <- DeleteThenSet
    Faults = FALSE
    OtherProcess = FALSE
    MaxSeq = 7
    QueueCap = 6
SPECIFICATION Spec
INVARIANTS
    SetRulesInForce
CHECK_DEADLOCK FALSE
