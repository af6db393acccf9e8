SPECIFICATION FairSpec
CONSTANTS
    c1 = c1
    c2 = c2
    s1 = s1
    s2 = s2
    NoConn = NoConn
    Conns = {c1, c2}
    Senders = {s1, s2}
    ThreadNum = 2
    TotalIDs = 1
    SendMax = 1
    MaxData = 1
CHECK_DEADLOCK FALSE
INVARIANTS LinkIdsUnique SendsOnLiveChannel ClosesItsOwnChannel
PROPERTIES EveryClientServed HangUpFreesLink SendReturns
