CONSTANTS
    r1 = r1
    r2 = r2
    Rules = {r1, r2}
    NoRule = NoRule
    LWRules = {}
    Unsendable = {}
    Values = {0, 1}
    SockPid = 7
    ReplyPid = 0
    ExistsErr <- EEXIST
    Refusals <- EPERM
    EventTypes <- EventKinds
    Operations <- Queries
    Faults = TRUE
    OtherProcess = TRUE
    MaxSeq = 5
    QueueCap = 3
SYMMETRY RuleSymmetry
SPECIFICATION Spec
INVARIANTS
    TypeOK
    ListIsSnapshot
    StatusIsHonest
    DeleteAllCoversListing
CHECK_DEADLOCK FALSE
