SPECIFICATION Spec
CONSTANTS
    c1 = c1
    c2 = c2
    Conn = {c1, c2}
    None = None
    Quota <- QuotaLease
INVARIANTS
    MarkerCoversSleep
    LeaseKeepsAwake
PROPERTIES
    SleepRestored
CHECK_DEADLOCK FALSE
