-------------------------- MODULE MCGatewayLifecycle --------------------------
(* Small instances of GatewayLifecycle for TLC.                            *)
EXTENDS GatewayLifecycle, TLC

CONSTANTS p1, p2, p3, d1, d2

Features(ipv6, dns, proxy) == [ipv6 |-> ipv6, dns |-> dns, proxy |-> proxy]

\* Every feature on, and the plain gateway.
AllFeatures == {Features(TRUE, TRUE, TRUE)}
TwoConfigs == AllFeatures \cup {Features(FALSE, FALSE, FALSE)}

None == [k \in Bound |-> 0]

\* Any three disturbances, up to two failing commands and two edits of the
\* DNS setting among them, in any order.
QuotaSafety ==
    [None EXCEPT !.fault = 2, !.sync = 1, !.cancel = 1, !.crash = 1,
                 !.reboot = 1, !.user = 2, !.death = 1, !.total = 3]
QuotaLiveness ==
    [None EXCEPT !.fault = 2, !.crash = 1, !.reboot = 1, !.user = 1, !.total = 2]

Symmetry == Permutations({p1, p2, p3}) \cup Permutations({d1, d2})
=============================================================================
