SPECIFICATION FairSpec
CONSTANTS
    HeaderLen = 2
    MaxBody = 3
    UserInfoLen = 2
    ReadMax = 4
    BuffLen = 4
    SockMax = 7
    MaxPackages = 3
CHECK_DEADLOCK FALSE
INVARIANTS OutAsSent StaysInSync BufferBounded
PROPERTIES AllArrive
