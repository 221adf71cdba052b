SPECIFICATION Spec
CONSTANTS
    p1 = p1
    p2 = p2
    p3 = p3
    d1 = d1
    d2 = d2
    Pid = {p1, p2, p3}
    NoPid = NoPid
    UserDNS = {d1, d2}
    ManagedDNS = ManagedDNS
    DisableTwice = FALSE
    Config <- AllFeatures
    Quota <- QuotaSafety
SYMMETRY Symmetry
INVARIANTS
    TypeOK
    WriteAhead
    
    StopLeavesNothing
    DNSNeverDangling
PROPERTIES
    Implements
