CONSTANTS
    c1 = c1
    c2 = c2
    g0 = g0
    g1 = g1
    g2 = g2
    site = site
    l1 = l1
    l2 = l2
    a = a
    s_1 = s_1
    s_2 = s_2
    r1 = r1
    r2 = r2
    nil = nil
SPECIFICATION Spec
CHECK_DEADLOCK FALSE
PROPERTIES
    CallsReturn
    WorkEnds
    NothingIsKept
