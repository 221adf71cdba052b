SPECIFICATION Spec
CONSTANTS
    m1 = m1
    m2 = m2
    x1 = x1
    a1 = a1
    a2 = a2
    c1 = c1
    c2 = c2
    Machine = {m1, m2}
    Gateway = Gateway
    Address = {x1}
    Foreign = Foreign
    None = None
    Room = 1
    Lan = {a1}
    Self = Self
    LanConn = {c1}
    Shared = {c1}
    MaxBytes = 1
    Policy <- PolicyNames
    UserOf <- UserTable
    Devices <- DeviceTable
    Quota <- QuotaObservation
VIEW View
INVARIANTS
    UserIsOpener
    RepliesReturn
    ServedIsCurrent
    OwnersAreRight
    RatesOnce
CHECK_DEADLOCK FALSE
