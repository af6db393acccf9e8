SPECIFICATION FairSpec
CONSTANTS
    ThreadNum = 2
    SendMax = 1
    MaxStarts = 2
    MaxEvents = 2
INVARIANTS OnlyReceiversUseDeleted
PROPERTIES ListIsOfOneMoment StopReturns
CHECK_DEADLOCK FALSE
