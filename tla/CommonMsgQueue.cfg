SPECIFICATION Spec
CONSTANTS
    p1 = p1
    p2 = p2
    p3 = p3
    f1 = f1
    s1 = s1
    g1 = g1
    g2 = g2
    m1 = m1
    Putters = {p1, p2, p3}
    ForcePutters = {f1}
    Pollers = {s1}
    Getters = {g1, g2}
    Messages = {m1}
    m_maxSize = 2
INVARIANTS TypeOK NoLostPutWakeup NoLostGetWakeup
