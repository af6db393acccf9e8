SPECIFICATION Spec
CONSTANTS
    c1 = c1
    c2 = c2
    s1 = s1
    NoConn = NoConn
    Conns = {c1, c2}
    Senders = {s1}
    ThreadNum = 2
    TotalIDs = 1
    SendMax = 1
    MaxData = 0
CHECK_DEADLOCK FALSE
INVARIANTS DisconnectIsReported
