CONSTANTS
    b1 = b1
    b2 = b2
    m1 = m1
    m2 = m2
    p1 = p1
    p2 = p2
    Bridges = {b1, b2}
    Macs = {m1, m2}
    Ports = {p1, p2}
    Events <- MCEvents
    Callers = {c1, c2}
    MaxEntries = 2
    MaxPackets = 2
    MaxAdmin = 4
SPECIFICATION Spec
INVARIANT FloodIfNotLearned
\* Events and life-cycle calls may stop coming, and their bounds stop them.
CHECK_DEADLOCK FALSE
