SPECIFICATION PolicySpec
CONSTANTS
    c1 = c1
    c2 = c2
    k1 = k1
    Conn = {c1, c2}
    Call = {k1}
    None = None
    Attempts = 2
    Allowance <- QuotaLease
PROPERTIES
    HeldEngineKept
    EngineReleased
    ServedAgain
CHECK_DEADLOCK FALSE
