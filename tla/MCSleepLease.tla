----------------------------- MODULE MCSleepLease -----------------------------
(* A small instance of SleepLease for TLC.                                 *)
EXTENDS SleepLease

CONSTANTS c1, c2

QuotaLease ==
    [enable |-> 3, fault |-> 2, applied |-> 1, service |-> 1, helper |-> 1, other |-> 1]
=============================================================================
