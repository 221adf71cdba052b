SPECIFICATION Spec
CONSTANTS
    c1 = c1
    c2 = c2
    n1 = n1
    n2 = n2
    Client = {c1, c2}
    Profile = {p1}
    Workspace = {w1}
    Managed = Managed
    Net = {n1, n2}
    Key = {k1}
    NoKey = NoKey
    Policy = {Empty, rules}
    Empty = Empty
    NoFile = NoFile
    Quota <- QuotaApply
SYMMETRY Symmetry
INVARIANTS
    ConfigBacked
    NoDrift
    FailureRestores
PROPERTIES
    Implements
