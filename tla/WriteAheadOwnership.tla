------------------------- MODULE WriteAheadOwnership -------------------------
(***************************************************************************)
(* What the lifecycle manager promises about host settings that outlive    *)
(* its process: a setting is altered only while a durable record claims    *)
(* it, and a claim is dropped only when the setting is back. The record    *)
(* and the host are two devices that no step writes together, so whoever   *)
(* reads the record after a crash at any point can restore the host.       *)
(***************************************************************************)

CONSTANT Resource

VARIABLES
    claims,   \* the settings the durable record says the gateway owns
    altered   \* the settings that are not what the user wants

vars == <<claims, altered>>

Init == claims = {} /\ altered = {}

\* Write the record: it claims at least what is altered.
Record == \E C \in SUBSET Resource :
    altered \subseteq C /\ claims' = C /\ UNCHANGED altered

\* Alter or restore settings the record claims.
Touch == \E A \in SUBSET claims :
    altered' = A /\ UNCHANGED claims

Next == Record \/ Touch

Spec == Init /\ [][Next]_vars
=============================================================================
