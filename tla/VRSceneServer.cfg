SPECIFICATION FairSpec
CONSTANTS
    c1 = c1
    c2 = c2
    NoSeat = NoSeat
    Clients = {c1, c2}
    External = {c1}
    Leavers = {c1}
    m_maxSize = 1
    SenderNum = 2
    BatchMax = 1
    MaxActs = 2
INVARIANTS BatchIsCurrent PresenceRightUnlessOvertaken
PROPERTIES SendReturns EventsHandled MoveReachesAll
CHECK_DEADLOCK FALSE
