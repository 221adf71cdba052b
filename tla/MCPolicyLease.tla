---------------------------- MODULE MCPolicyLease ----------------------------
(* A small instance of PolicyLease for TLC.                                *)
EXTENDS PolicyLease, TLC

CONSTANTS c1, c2, k1

QuotaLease == [fault |-> 1, late |-> 1, service |-> 1, helper |-> 1, transition |-> 1]
=============================================================================
