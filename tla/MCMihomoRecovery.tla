-------------------------- MODULE MCMihomoRecovery ---------------------------
(* Small instances of MihomoRecovery for TLC.                              *)
EXTENDS MihomoRecovery

QuotaWatch ==
    [death |-> 2, request |-> 2, cli |-> 1, unknown |-> 1, fault |-> 1, store |-> 1,
     total |-> 4]
=============================================================================
