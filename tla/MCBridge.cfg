CONSTANTS
    x0 = x0
    x1 = x1
    x2 = x2
    g0 = g0
    g1 = g1
    g2 = g2
    site = site
    a = a
    b = b
    n1 = n1
    n2 = n2
    nil = nil
SPECIFICATION Spec
CHECK_DEADLOCK FALSE
SYMMETRY Symmetry
INVARIANTS
    JournalStreamsExact
    ServingIsCurrent
    KeyIsRecent
    CertificateIsUsable
    ReloadsSettle
    LeaseIsKept
    RoutingIsExact
PROPERTIES
    EarlyCloseHasCause
    RetiredIsFinal
