CONSTANTS
    r1 = r1
    r2 = r2
    Rules = {r1, r2}
    NoRule = NoRule
    LWRules = {}
    Unsendable = {}
    Values = {0, 1}
    SockPid = 7
    ReplyPid = 0
    ExistsErr <- EEXIST
    Refusals <- EPERM
    EventTypes <- EventKinds
    Operations <- Mixed
    Faults = FALSE
    OtherProcess = FALSE
    MaxSeq = 5
    QueueCap = 2
SPECIFICATION FairSpec
INVARIANTS
    NoRefusalSwallowed
PROPERTIES
    CallsReturn
CHECK_DEADLOCK FALSE
