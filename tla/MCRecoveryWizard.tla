-------------------------- MODULE MCRecoveryWizard ---------------------------
(* Small instances of RecoveryWizard for TLC.                              *)
EXTENDS RecoveryWizard, TLC

CONSTANT web

QuotaFlow ==
    [prepare |-> 2, start |-> 2, reload |-> 1, fault |-> 2, kept |-> 1, store |-> 1, lost |-> 1,
     crash |-> 2]
=============================================================================
