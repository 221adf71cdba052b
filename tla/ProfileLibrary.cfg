SPECIFICATION Spec
CONSTANTS
    Request = {r1, r2}
    Builtin = {"DIRECT", "REJECT"}
    Reserved = {"open-surge/tailscale", "open-surge/mac-global", "device/phone"}
    OwnedDNS = {"listen", "enable"}
    OverlayDNS = {"nameserver", "policy"}
    Contents <- MCContents
    Overlays <- MCOverlays
    Quotas <- MCQuotas
SYMMETRY Requests
INVARIANTS
    RecordedInputs
    OverlayResolved
    SourceKept
PROPERTIES
    SelectionStays
CHECK_DEADLOCK FALSE
