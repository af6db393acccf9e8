SPECIFICATION FairSpec
CONSTANTS
    r1 = r1
    r2 = r2
    NoThread = NoThread
    Threads = {r1, r2}
    QueueMax = 3
    MaxPush = 5
INVARIANTS TypeOK NeverPastTheEnd
PROPERTIES ImplementsFifo EventuallyDelivered
