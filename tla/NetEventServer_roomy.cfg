SPECIFICATION RoomySpec
CONSTANTS
    c1 = c1
    c2 = c2
    c3 = c3
    c4 = c4
    NoConn = NoConn
    Conns = {c1, c2, c3, c4}
    Senders = {}
    ThreadNum = 2
    TotalIDs = 3
    SendMax = 4
    MaxData = 1
CHECK_DEADLOCK FALSE
SYMMETRY Symmetry
INVARIANTS NotifiedQueueNotEmpty ConnectedIsInTable OneClientPerLink DataFromOwnClient DisconnectIsReported FreshIdNotInUse
