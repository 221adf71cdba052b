------------------------ MODULE ConnectionObservation ------------------------
(***************************************************************************)
(* Whose traffic the engine carries, and how fast (internal/controlapi/    *)
(* connections.go, device_traffic.go, gateway_local.go and                 *)
(* connection_refresh.go), beside the packet path that names the IPv6      *)
(* sessions.                                                               *)
(*                                                                         *)
(* The control service joins the leases, the policy the engine runs with   *)
(* and one snapshot of the engine's connections, each read at its own      *)
(* time, to rows that own the connections. The answer is kept and served   *)
(* for a second while the digests of the files agree. Rates are the        *)
(* difference to the counters of the last sample. A refresh closes the     *)
(* connections of the Mac, of a device or of a policy group one by one.    *)
(*                                                                         *)
(* Bounds: each connection of a LAN machine or of the Mac has an           *)
(* identifier that is used once, and counts MaxBytes at most; file         *)
(* versions and disturbances are bounded by Quota.                         *)
(***************************************************************************)
EXTENDS PacketPath, FiniteSets

CONSTANTS
    Lan,       \* IPv4 addresses of the LAN
    Self,      \* the address of the Mac's TUN interface
    LanConn,   \* identifiers of connections that do not use the packet path
    Shared,    \* those of them that pass the policy group a refresh names
    Devices,   \* the registered devices of each policy
    MaxBytes,
    Quota

\* All but observations share a total.
Shares == {"edit", "stop", "restart", "lease", "death", "fault", "late", "refresh", "open", "frame"}
Event == Shares \cup {"view", "total"}

\* IPv4 addresses and identifiers of a policy are unique (ValidatePolicySet),
\* and the engine gets the devices of the LAN (ActivePolicySetForLAN).
ASSUME ObservationAssumption ==
    /\ Self \notin Lan /\ None \notin Lan /\ MaxBytes \in Nat
    /\ \A p \in Policy : \A d, e \in Devices[p] :
          d.id # None /\ (d.ip = e.ip \/ d.id = e.id => d = e)
    /\ \A p \in Policy : \A d \in Devices[p] : d.on => d.ip \in Lan
    /\ \A p \in Policy, m \in Machine :
          UserOf[p][m] # None <=> \E d \in Devices[p] : d.on /\ d.mac = m
    /\ \A p \in Policy : \A d \in Devices[p] :
          d.on /\ d.mac # None => UserOf[p][d.mac] = d.id
    /\ Quota \in [Event -> Nat]

VARIABLES
    desired,   \* the device policy file
    leases,    \* the lease file: the address of each machine
    version,   \* how often each file has changed: what digests tell apart
    lan,       \* connections that do not use the packet path
    moved,     \* bytes each of them has carried
    obs,       \* the observation that has the cache's mutex
    cache,     \* connectionObservation: the answer and its key
    sampler,   \* trafficSampler: the counters of the last sample, or None
    shown,     \* bytes of each connection that answers gave out as rates
    refresh,   \* the refresh under way
    left       \* disturbances that may still happen

lanVars == <<lan, moved>>
files == <<desired, leases, version>>
viewVars == <<obs, cache, sampler, shown>>
obsVars == <<files, lanVars, viewVars, refresh, left>>
vars == <<packetVars, obsVars>>

-----------------------------------------------------------------------------
New == [is |-> "new", src |-> None, opener |-> None]
Over == [is |-> "over", src |-> None, opener |-> None]
NoObs == [at |-> "idle", key |-> None, leases |-> None, snap |-> {}, failed |-> FALSE, tun |-> FALSE]
NoCache == [key |-> None, policy |-> None, leases |-> None, rows |-> {}, owned |-> {}]
NoRefresh == [at |-> "idle", scope |-> None, ip |-> None, ids |-> {}, closed |-> FALSE]

\* The gateway has just been started, with the policy of the file.
Init ==
    /\ phase = "on" /\ policy \in Policy
    /\ engine = TRUE /\ identities = Nobody /\ peer = TRUE
    /\ sessions = Nobody /\ inbound = << >>
    /\ broker = TRUE /\ neighbors = Nobody /\ outbound = << >>
    /\ desired = policy
    /\ leases \in [Machine -> Lan \cup {None}]  \* of an earlier run
    /\ version = [config |-> 0, state |-> 0, leases |-> 0]
    /\ lan = [c \in LanConn |-> New] /\ moved = [c \in LanConn |-> 0]
    /\ obs = NoObs /\ cache = NoCache /\ sampler = None
    /\ shown = [c \in LanConn |-> 0] /\ refresh = NoRefresh
    /\ left = Quota

Spend(kind) ==
    /\ left[kind] > 0 /\ (kind \in Shares => left.total > 0)
    /\ left' = [left EXCEPT ![kind] = @ - 1,
                            !.total = IF kind \in Shares THEN @ - 1 ELSE @]
Changed(file) == version' = [version EXCEPT ![file] = @ + 1]

-----------------------------------------------------------------------------
(* Who owns a connection.                                                  *)

\* One connection of GET /connections. Its opener is the model's.
Connection(id, via, src, user, opener, bytes) ==
    [id |-> id, via |-> via, src |-> src, user |-> user, opener |-> opener, bytes |-> bytes]

Snapshot ==
    {Connection(c, "tun", lan[c].src, None, lan[c].opener, moved[c]) :
        c \in {d \in LanConn : lan[d].is = "open"}}
    \cup
    {Connection(a, "packet", a, sessions[a].user, sessions[a].opener, 0) :
        a \in {b \in Address : sessions[b] # None /\ sessions[b].open}}

\* hasDownstreamInboundIdentity: the listener marks all that comes through it.
Downstream(c) == c.via = "packet"
\* gatewayLocalIdentity.matches: by the addresses the engine's TUN reports.
IsLocal(c, tun) == ~Downstream(c) /\ tun /\ c.src = Self

\* loadAppliedDevicePolicyBundle: there is one while the state file exists.
AppliedBundle == IF phase = "off" THEN {} ELSE Devices[policy]
\* loadAppliedTrafficPolicy: only those the engine was started with.
AppliedDevices == {d \in AppliedBundle : d.on}

Holders(ls, ip) == {m \in Machine : ls[m] = ip}

\* Mutant: an address is enough to be a registered device.
AnyHolder(ls, d) == Cardinality(Holders(ls, d.ip)) < 2

\* A registered device has its address, unless somebody else leases it.
HasAddress(ls, d) ==
    \/ Holders(ls, d.ip) = {}
    \/ \E m \in Machine : Holders(ls, d.ip) = {m} /\ d.mac \in {None, m}

DeviceAt(ls, ds, ip) == {d \in ds : d.ip = ip /\ HasAddress(ls, d)}
Row(ip, mac, devices) ==
    [ip |-> ip, mac |-> mac, id |-> IF devices = {} THEN None ELSE (CHOOSE d \in devices : TRUE).id]

\* The rows of leases, of registered devices without one, and of addresses
\* that were only seen as a source.
LeaseRows(ls, ds) ==
    {Row(ls[m], m, DeviceAt(ls, ds, ls[m])) : m \in {n \in Machine : ls[n] # None}}
StaticRows(ls, ds) ==
    {Row(d.ip, d.mac, {d}) : d \in {e \in ds : Holders(ls, e.ip) = {}}}
SeenRows(known, snap, tun) ==
    {Row(ip, None, {}) : ip \in {c.src : c \in {b \in snap : ~IsLocal(b, tun) /\ ~Downstream(b)}}
                                \cap (Lan \ {r.ip : r \in known})}
Rows(ls, ds, snap, tun) ==
    LET known == LeaseRows(ls, ds) \cup StaticRows(ls, ds)
    IN  known \cup SeenRows(known, snap, tun)

\* trafficDeviceKey.
Key(r) ==
    IF r.id # None THEN <<"device", r.id>>
    ELSE IF r.mac # None THEN <<"lease", r.mac>> ELSE <<"ip", r.ip>>

\* packetTrafficDevice and byID: a device with a MAC address that has a row.
ByUser(rows, ds, user) ==
    {r \in rows : r.id # None /\ r.id = user /\ \E d \in ds : d.id = user /\ d.mac # None}
\* byIP: not an address that two machines lease.
ByAddress(ls, rows, ip) ==
    {r \in rows : r.ip = ip /\ Cardinality(Holders(ls, ip)) < 2}

Owner(c, ls, ds, rows, tun) ==
    LET found == IF Downstream(c) THEN ByUser(rows, ds, c.user) ELSE ByAddress(ls, rows, c.src)
    IN  IF IsLocal(c, tun) THEN <<"gateway-local">>
        ELSE IF found = {} THEN <<"unclassified">>
        ELSE Key(CHOOSE r \in found : TRUE)

\* appendPendingTrafficDevices: what the file registers and no row shows yet.
Pending(rows, wanted) ==
    {Row(d.ip, d.mac, {d}) : d \in {e \in wanted :
        ~\E r \in rows : r.id = e.id \/ (r.ip = e.ip /\ r.mac = e.mac)}}

-----------------------------------------------------------------------------
(* The observation.                                                        *)

\* Mutant: the key leaves the lease file out.
KeyWithoutLeases(v) == [v EXCEPT !.leases = 0]
\* The digests of configuration and policy file, of state file and applied
\* policy, and of the lease file.
KeyOf(v) == v

\* observeConnections, unless the answer in the cache is young and has the key.
\* A change between the digests and the leases makes the key an old one.
Begin ==
    /\ obs.at = "idle"
    /\ Spend("view")
    /\ obs' = [NoObs EXCEPT !.at = "fetch", !.key = KeyOf(version), !.leases = leases]
    /\ UNCHANGED <<packetVars, files, lanVars, cache, sampler, shown, refresh>>

Fetch ==
    /\ obs.at = "fetch" /\ engine
    /\ obs' = [obs EXCEPT !.at = "identify", !.snap = Snapshot]
    /\ UNCHANGED <<packetVars, files, lanVars, cache, sampler, shown, refresh, left>>

FetchFails ==
    /\ obs.at = "fetch"
    /\ IF engine THEN Spend("fault") ELSE UNCHANGED left
    /\ obs' = [obs EXCEPT !.at = "join", !.failed = TRUE]
    /\ UNCHANGED <<packetVars, files, lanVars, cache, sampler, shown, refresh>>

\* fetchGatewayLocalIdentity asks the engine only for connections of its TUN.
Identify ==
    /\ obs.at = "identify"
    /\ \E known \in BOOLEAN :
          /\ known => engine
          /\ IF engine /\ ~known THEN Spend("fault") ELSE UNCHANGED left
          /\ obs' = [obs EXCEPT !.at = "join",
                        !.tun = known /\ \E c \in obs.snap : ~Downstream(c)]
    /\ UNCHANGED <<packetVars, files, lanVars, cache, sampler, shown, refresh>>

\* counterDelta.
Delta(now, before) == IF now <= before THEN 0 ELSE now - before

\* Mutant: a connection without an earlier sample counts from zero.
FromZero(c) == IF sampler = None \/ sampler[c.id] = None THEN c.bytes
               ELSE Delta(c.bytes, sampler[c.id])

\* What annotate shows of a connection: nothing at its first sample.
Rated(c) == IF sampler = None \/ sampler[c.id] = None THEN 0
            ELSE Delta(c.bytes, sampler[c.id])

\* annotate, for an interval that is short enough or not; reset after an error.
Sample ==
    IF obs.failed THEN sampler' = None /\ UNCHANGED <<shown, left>>
    ELSE LET sampled == {c \in obs.snap : ~Downstream(c)}
         IN  /\ sampler' = [i \in LanConn |->
                    IF \E c \in sampled : c.id = i
                    THEN (CHOOSE c \in sampled : c.id = i).bytes ELSE None]
             /\ \E soon \in BOOLEAN :
                   /\ IF soon THEN UNCHANGED left ELSE Spend("late")
                   /\ shown' = [i \in LanConn |->
                      IF soon /\ \E c \in sampled : c.id = i
                      THEN shown[i] + Rated(CHOOSE c \in sampled : c.id = i)
                      ELSE shown[i]]

\* The rest of observeConnections: the policies are read, the rows made.
Join ==
    /\ obs.at = "join"
    /\ LET rows == Rows(obs.leases, AppliedDevices, obs.snap, obs.tun)
       IN  cache' = [key |-> obs.key, policy |-> desired, leases |-> obs.leases,
                     rows |-> rows \cup Pending(rows, Devices[desired]),
                     owned |-> {<<c.opener, Owner(c, obs.leases, AppliedDevices, rows, obs.tun)>> :
                                   c \in obs.snap}]
    /\ Sample
    /\ obs' = NoObs
    /\ UNCHANGED <<packetVars, files, lanVars, refresh>>

-----------------------------------------------------------------------------
(* Refreshes.                                                              *)

\* handleDeviceConnectionRefresh looks the device up in the whole bundle.
AskDevice ==
    /\ refresh.at = "idle" /\ Spend("refresh")
    /\ \E d \in {e \in AppliedBundle : ~e.upstream} :
          refresh' = [NoRefresh EXCEPT !.at = "match", !.scope = d.id, !.ip = d.ip]
    /\ UNCHANGED <<packetVars, files, lanVars, viewVars>>

\* The handlers for the Mac and for a policy group.
Ask ==
    /\ refresh.at = "idle" /\ Spend("refresh")
    /\ \E scope \in {"gateway_local", "policy_group"} :
          refresh' = [NoRefresh EXCEPT !.at = "match", !.scope = scope]
    /\ UNCHANGED <<packetVars, files, lanVars, viewVars>>

InScope(c) ==
    CASE refresh.scope = "gateway_local" -> IsLocal(c, TRUE)
      [] refresh.scope = "policy_group" -> c.id \in Shared
      [] OTHER -> c.src = refresh.ip \/ (c.user # None /\ c.user = refresh.scope)

\* matchingConnectionIDs on a snapshot; without one nothing is closed.
Match ==
    /\ refresh.at = "match"
    /\ refresh' = IF engine
                  THEN [refresh EXCEPT !.at = "close", !.ids = {c.id : c \in {d \in Snapshot : InScope(d)}}]
                  ELSE NoRefresh
    /\ UNCHANGED <<packetVars, files, lanVars, viewVars, left>>

\* One DELETE of closeConnections; the engine does not mind one that has gone.
CloseOne ==
    /\ refresh.at = "close" /\ engine
    /\ \E i \in refresh.ids :
          /\ refresh' = [refresh EXCEPT !.ids = @ \ {i}, !.closed = TRUE]
          /\ IF i \in LanConn
             THEN lan' = [lan EXCEPT ![i] = Over] /\ UNCHANGED sessions
             ELSE sessions' = [sessions EXCEPT ![i] = None] /\ UNCHANGED lan
    /\ UNCHANGED <<phase, policy, engine, identities, peer, inbound, brokerVars,
                   files, moved, viewVars, left>>

CloseFails ==
    /\ refresh.at = "close"
    /\ IF engine THEN Spend("fault") ELSE UNCHANGED left
    /\ \E i \in refresh.ids : refresh' = [refresh EXCEPT !.ids = @ \ {i}]
    /\ UNCHANGED <<packetVars, files, lanVars, viewVars>>

\* writeConnectionRefresh: one that closed something starts a new baseline.
Refreshed ==
    /\ refresh.at = "close" /\ refresh.ids = {}
    /\ refresh' = NoRefresh
    /\ sampler' = IF refresh.closed THEN None ELSE sampler
    /\ UNCHANGED <<packetVars, files, lanVars, obs, cache, shown, left>>

-----------------------------------------------------------------------------
(* The world.                                                              *)

\* The policy file is edited.
Edit ==
    /\ Spend("edit") /\ Changed("config")
    /\ desired' \in Policy \ {desired}
    /\ UNCHANGED <<packetVars, leases, lanVars, viewVars, refresh>>

\* An address is anybody's that nobody leases or is registered with.
MayUse(m, ip) ==
    \/ leases[m] = ip
    \/ /\ Holders(leases, ip) = {}
       /\ \A d \in Devices[policy] : d.ip = ip => d.mac \in {None, m}
InUse(ip, m) == \E c \in LanConn : lan[c].src = ip /\ lan[c].opener # m

\* The DHCP server leases no address that it reserves for another machine, and
\* an address changes hands only when its holder's connections have ended.
Lease ==
    /\ phase = "on" /\ Spend("lease") /\ Changed("leases")
    /\ \E m \in Machine, ip \in Lan \cup {None} :
          /\ leases[m] # ip
          /\ \A c \in LanConn : lan[c].opener = m => lan[c].is # "open"
          /\ ~InUse(ip, m)
          /\ \A d \in Devices[policy] : d.on /\ d.mac # None /\ d.ip = ip => d.mac = m
          /\ leases' = [leases EXCEPT ![m] = ip]
    /\ UNCHANGED <<packetVars, desired, lanVars, viewVars, refresh>>

\* A machine of the LAN, or the Mac, opens a connection.
Open(c) ==
    /\ engine /\ lan[c].is = "new" /\ Spend("open")
    /\ \/ \E m \in Machine, ip \in Lan :
             /\ MayUse(m, ip) /\ ~InUse(ip, m)
             /\ lan' = [lan EXCEPT ![c] = [is |-> "open", src |-> ip, opener |-> m]]
       \/ lan' = [lan EXCEPT ![c] = [is |-> "open", src |-> Self, opener |-> Gateway]]
    /\ UNCHANGED <<packetVars, files, moved, viewVars, refresh>>

Move(c) ==
    /\ engine /\ lan[c].is = "open" /\ moved[c] < MaxBytes
    /\ moved' = [moved EXCEPT ![c] = @ + 1]
    /\ UNCHANGED <<packetVars, files, lan, viewVars, refresh, left>>

Close(c) ==
    /\ lan[c].is = "open"
    /\ lan' = [lan EXCEPT ![c] = Over]
    /\ UNCHANGED <<packetVars, files, moved, viewVars, refresh, left>>

\* Connections end with their engine.
LanGone == lan' = [c \in LanConn |-> IF lan[c].is = "open" THEN Over ELSE lan[c]]

Start ==
    /\ StartEngine(desired) /\ Changed("state")
    /\ UNCHANGED <<desired, leases, lanVars, viewVars, refresh, left>>

\* Steps that write the state file, or remove it.
Recorded ==
    /\ StartBroker \/ Stopped
    /\ Changed("state")
    /\ UNCHANGED <<desired, leases, lanVars, viewVars, refresh, left>>

Restart ==
    /\ RestartEngine /\ Spend("restart") /\ Changed("state")
    /\ UNCHANGED <<desired, leases, lanVars, viewVars, refresh>>

Down ==
    /\ \/ StopEngine /\ UNCHANGED left
       \/ EngineEnds /\ Spend("death")
    /\ LanGone
    /\ UNCHANGED <<files, moved, viewVars, refresh>>

Sends ==
    /\ ReadFrame \/ \E a \in Address : Answer(a)
    /\ Spend("frame")
    /\ UNCHANGED <<files, lanVars, viewVars, refresh>>

Unseen ==
    /\ \/ (ReadMessage \/ WriteFrame \/ \E a \in Address : Accept(a) \/ Finish(a)) /\ UNCHANGED left
       \/ StopBroker /\ UNCHANGED left
       \/ BeginStop /\ Spend("stop")
       \/ BrokerDies /\ Spend("death")
    /\ UNCHANGED <<files, lanVars, viewVars, refresh>>

Next ==
    \/ Begin \/ Fetch \/ FetchFails \/ Identify \/ Join
    \/ AskDevice \/ Ask \/ Match \/ CloseOne \/ CloseFails \/ Refreshed
    \/ Edit \/ Lease \/ \E c \in LanConn : Open(c) \/ Move(c) \/ Close(c)
    \/ Start \/ Recorded \/ Restart \/ Down \/ Sends \/ Unseen

Spec == Init /\ [][Next]_vars

-----------------------------------------------------------------------------
TypeOK ==
    /\ PacketTypeOK
    /\ desired \in Policy /\ leases \in [Machine -> Lan \cup {None}]
    /\ version \in [{"config", "state", "leases"} -> Nat]
    /\ \A c \in LanConn : lan[c].is \in {"new", "open", "over"} /\ moved[c] \in 0 .. MaxBytes
    /\ obs.at \in {"idle", "fetch", "identify", "join"}
    /\ sampler = None \/ sampler \in [LanConn -> 0 .. MaxBytes \cup {None}]
    /\ refresh.at \in {"idle", "match", "close"}

\* The answer the cache would serve now: its key is that of the files.
Servable == cache.key # None /\ cache.key = KeyOf(version)

\* As long as an answer may be served, the leases and the registrations it
\* shows are those of the files (connection-observation.md:8-9, "a change
\* of configuration, runtime state, leases or registration invalidates the
\* cache"), though they are read one after the other while the files change.
ServedIsCurrent ==
    Servable => cache.leases = leases /\ cache.policy = desired

\* In an answer that may be served, every connection has one owner, which the
\* list shows once, and what counts for a registered device was opened by its
\* machine: not by one that leases its address while it is registered, by the
\* Mac, or by the machine that had its place in an earlier policy
\* (connection-observation.md:10-12 and 39-42). Leases, policy and snapshot
\* are of different moments, and sessions carry the names of an older policy.
OwnersAreRight ==
    Servable =>
        /\ \A r, s \in cache.rows : Key(r) = Key(s) => r = s
        /\ \A o \in cache.owned :
              /\ o[2] \in {Key(r) : r \in cache.rows} \cup {<<"gateway-local">>, <<"unclassified">>}
              /\ o[2] = <<"gateway-local">> => o[1] = Gateway
              /\ \A d \in AppliedDevices :
                    d.mac # None /\ o[2] = <<"device", d.id>> => o[1] = d.mac

\* All rates that were ever given out for a connection add up to no more than
\* it has carried: no byte is counted in two samples, whatever failed
\* fetches, refreshes, restarts and late answers do to the baseline
\* (connection-observation.md:58-60 and 68). TypeOK is checked as a part of it.
RatesOnce == TypeOK /\ \A c \in LanConn : shown[c] <= moved[c]
=============================================================================
