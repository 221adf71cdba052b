-------------------------- MODULE AtomicConfiguration --------------------------
(***************************************************************************)
(* What the configuration actions promise to the clients that edit: a      *)
(* document changes as a whole, by one edit at a time, and only on top of  *)
(* the revision its author has seen. Views may be stale or wrong at any    *)
(* time; an edit that was interrupted has happened or has not.             *)
(***************************************************************************)
CONSTANTS Client, Content
VARIABLES
    desired,  \* [document -> content]
    seen      \* [client -> [document -> content]]

vars == <<desired, seen>>
Document == DOMAIN desired

Init == /\ desired \in [{"config", "policy"} -> Content]
        /\ seen = [c \in Client |-> desired]

Look(c, d) == \E v \in Content :
    /\ seen' = [seen EXCEPT ![c][d] = v]
    /\ UNCHANGED desired

Commit(c, d) == \E v \in Content :
    /\ seen[c][d] = desired[d]
    /\ desired' = [desired EXCEPT ![d] = v]
    /\ UNCHANGED seen

Next == \E c \in Client, d \in Document : Look(c, d) \/ Commit(c, d)

Spec == Init /\ [][Next]_vars
=============================================================================
