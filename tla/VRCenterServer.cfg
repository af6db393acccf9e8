\* Three scene servers: a sends from its message loop, b from its timer; c may end.
SPECIFICATION FairSpec
CONSTANTS
    a = a
    b = b
    c = c
    Nothing = Nothing
    Scenes = {a, b, c}
    Apps = {a}
    Timers = {b}
    Leavers = {c}
    SendMax = 1
    SenderNum = 2
INVARIANTS OnceToEachOther WholeUnlessShared
PROPERTIES ReachesOthers
\* Once everybody has sent, nothing is left to do.
CHECK_DEADLOCK FALSE
