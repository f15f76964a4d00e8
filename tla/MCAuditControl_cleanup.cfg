CONSTANTS
    r1 = r1
    r2 = r2
    Rules = {r1, r2}
    NoRule = NoRule
    LWRules = {}
    Unsendable = {}
    Values = {0, 1}
    SockPid = 7
    ReplyPid = 0
    ExistsErr <- EEXIST
    Refusals <- EPERM
    EventTypes <- NoEvents
    Operations <- OnlyCleanup
    Faults = FALSE
    OtherProcess = FALSE
    MaxSeq = 5
    QueueCap = 3
SPECIFICATION Spec
INVARIANTS
    CleanupReportsFailures
CHECK_DEADLOCK FALSE
