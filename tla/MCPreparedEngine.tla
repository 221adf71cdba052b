--------------------------- MODULE MCPreparedEngine ---------------------------
(* Small instances of PreparedEngine for TLC.                              *)
EXTENDS PreparedEngine, TLC

CONSTANTS p1, p2, p3, g1, g2

QuotaHandoff ==
    [fault |-> 2, crash |-> 1, gateway_crash |-> 1, reboot |-> 1, death |-> 1]

Symmetry == Permutations({p1, p2, p3}) \cup Permutations({g1, g2})
=============================================================================
