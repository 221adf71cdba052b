SPECIFICATION Spec
CONSTANT Quota <- QuotaWatch
INVARIANTS
    OneAttempt
    StopRespected
PROPERTIES
    ClosedByFreshSample
    FailureSurfaces
    RecoveryConfirmed
