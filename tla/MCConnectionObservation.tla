----------------------- MODULE MCConnectionObservation -----------------------
(* A small instance of ConnectionObservation for TLC.                      *)
EXTENDS ConnectionObservation, TLC

CONSTANTS m1, m2, x1, a1, a2, c1, c2

Device(id, mac, ip, on) == [id |-> id, mac |-> mac, ip |-> ip, on |-> on, upstream |-> FALSE]

\* A device gets another machine, or one that is registered by its address
\* alone gets its address; one is registered for an address outside the LAN.
DeviceTable ==
    [P1 |-> {Device("D", m1, a1, TRUE), Device("F", m2, a2, FALSE)},
     P2 |-> {Device("D", m2, a1, TRUE)},
     P3 |-> {Device("E", None, a1, TRUE), Device("D", m1, a2, FALSE)}]
PolicyNames == DOMAIN DeviceTable

UserTable ==
    [p \in PolicyNames |-> [m \in Machine |->
        LET named == {d \in DeviceTable[p] : d.on /\ d.mac = m}
        IN  IF named = {} THEN None ELSE (CHOOSE d \in named : TRUE).id]]

QuotaObservation ==
    [edit |-> 1, stop |-> 1, restart |-> 1, lease |-> 1, death |-> 1, fault |-> 1,
     late |-> 1, refresh |-> 1, open |-> 2, frame |-> 3, view |-> 3, total |-> 3]

\* Versions only grow, so a key matters only as long as it is that of the files.
\* An observation whose key is an old one still takes its sample; its answer, like
\* one in the cache with an old key, is never served and tells no states apart.
ObsView == IF obs.key = KeyOf(version) THEN [obs EXCEPT !.key = "current"]
           ELSE [obs EXCEPT !.key = None, !.leases = None]
CacheView == IF Servable THEN [cache EXCEPT !.key = "current"] ELSE NoCache
\* The last answer's sample is compared with none; a refresh that closes has matched.
SamplerView == IF obs.at = "idle" /\ left.view = 0 THEN None ELSE sampler
RefreshView == IF refresh.at = "close" THEN [refresh EXCEPT !.scope = None, !.ip = None] ELSE refresh
LeftView == IF left.total = 0 THEN [view |-> left.view] ELSE left
View == <<packetVars, desired, leases, lanVars, ObsView, CacheView, SamplerView, shown, RefreshView, LeftView>>
=============================================================================
