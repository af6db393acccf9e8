SPECIFICATION Spec
CONSTANTS
    a1 = a1
    u1 = u1
    u2 = u2
    NoSeat = NoSeat
    NoUser = NoUser
    Agents = {a1}
    Capsules = {u1, u2}
    AgentConns = 2
    CapsuleConns = 1
    Drops = TRUE
    MaxRestarts = 1
SYMMETRY Symmetry
CHECK_DEADLOCK FALSE
INVARIANTS SeatExclusiveUnlessLost RebuiltUnlessLost AgentKnowsUnlessRestarted
PROPERTIES NeverItsOwnHost
