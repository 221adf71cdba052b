CONSTANTS
    a = a
    b = b
    fast = fast
    slow = slow
    group = group
    s1 = s1
    s2 = s2
    Device = {a, b}
    Slot = {"default", "media", "calls", "never", "direct"}
    Node = {fast, slow, group}
    Udp = {fast}
    Site = {s1, s2}
    Lists <- MCLists
    DIRECT = DIRECT
    REJECT = REJECT
    PASS = PASS
    Tailnet = Tailnet
    ExitGroup = ExitGroup
    MacGlobal = MacGlobal
    MacTCP = MacTCP
    MacUDP = MacUDP
    none = none
    Documents <- MCDocuments
    Sources <- MCSources
    Nets <- MCNets
    FirstDocument = "mixed"
    FirstSource = "full"
    FirstNet = "takeover"
    Quota <- MCQuota
SPECIFICATION Spec
CHECK_DEADLOCK FALSE
INVARIANTS RoutedAsDocumented EgressIsChosen
PROPERTY SwitchAllOrNothing
