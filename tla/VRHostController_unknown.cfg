SPECIFICATION Spec
CONSTANTS
    a1 = a1
    u1 = u1
    u2 = u2
    NoSeat = NoSeat
    NoUser = NoUser
    Agents = {a1}
    Capsules = {u1, u2}
    AgentConns = 1
    CapsuleConns = 1
    Drops = FALSE
    MaxRestarts = 0
CHECK_DEADLOCK FALSE
INVARIANTS HostIsVRHost
