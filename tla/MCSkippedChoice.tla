--------------------------- MODULE MCSkippedChoice ---------------------------
(***************************************************************************)
(* DeviceRouting with a history of the selectors an engine has left out.   *)
(***************************************************************************)
EXTENDS MCDeviceRouting

VARIABLE skipped   \* selectors left out by an engine that knew their last choice

\* Documents and choices change, nothing fails.
ForgetQuota == [MCQuota EXCEPT !.edit = 2, !.late = 0, !.switch = 0, !.die = 0, !.net = 0, !.all = 4]

LeftOut ==
    IF engine = NoEngine THEN {}
    ELSE {g \in ChosenHere(Configured) \cap DOMAIN engine.res.selections :
            g \notin DOMAIN selected /\ engine.res.selections[g] = cache[g]}

\* Another choice ends what is remembered of the one before.
ChosenAnew == {g \in DOMAIN cache : cache'[g] # cache[g]}

SkippedSpec ==
    /\ Init /\ skipped = {}
    /\ [][Next /\ skipped' = (skipped \cup LeftOut) \ ChosenAnew]_<<vars, skipped>>

\* A selector that was left out because its choice had gone keeps that choice for
\* the starts that follow, which are never without any choice for it and do not
\* offer the first candidate in its place
\* (docs/agent-wiki/sources/decisions/device-policy-overlays.md:130-131).
ChoiceRemembered ==
    engine.owner = "gateway" =>
        \A g \in (skipped \cap ChosenHere(Configured) \cap DOMAIN selected) \ guessed :
            g \notin DOMAIN engine.res.selections => selected[g] = cache[g]
=============================================================================
