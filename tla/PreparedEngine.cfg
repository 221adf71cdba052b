SPECIFICATION Spec
CONSTANTS
    p1 = p1
    p2 = p2
    p3 = p3
    g1 = g1
    g2 = g2
    Pid = {p1, p2, p3}
    NoPid = NoPid
    Graph = {g1, g2}
    Quota <- QuotaHandoff
SYMMETRY Symmetry
INVARIANTS
    
    UsesWantedPolicy
PROPERTIES
    ReleasedWhenGone
