---------------------------- MODULE MCConfigApply -----------------------------
(* A small instance of ConfigApply for TLC: every pair of edits by two     *)
(* clients, and a third, with at most one of each kind of mishap.          *)
EXTENDS ConfigApply, TLC

CONSTANTS c1, c2, n1, n2

QuotaApply ==
    [ask |-> 3, read |-> 1, cli |-> 1, fault |-> 1, restore |-> 1, restart |-> 1,
     crash |-> 1]

Symmetry == Permutations({c1, c2}) \cup Permutations({n1, n2})
=============================================================================
