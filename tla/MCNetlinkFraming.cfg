CONSTANTS
    BufLen = 70
    TextLen = 1000
    Datagrams <- MCDatagrams
SPECIFICATION Spec
INVARIANTS
    TypeOK
    PanicsExactlyOffTheEnd
    PayloadIntact
    AllDelivered
CHECK_DEADLOCK FALSE
