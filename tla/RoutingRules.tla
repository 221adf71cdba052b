---------------------------- MODULE RoutingRules -----------------------------
(***************************************************************************)
(* How device policies become the rules of the one Mihomo engine           *)
(* (internal/device/policy.go, resolution.go and internal/mihomo/          *)
(* device_policy.go, tailscale.go, local_routing.go), which address and    *)
(* router the LAN's machines get (internal/dhcp, internal/lan), what the   *)
(* settings must be for that (internal/config/validator.go), and what an   *)
(* engine does with rules.                                                 *)
(*                                                                         *)
(* A rule is a set of conditions and a target: a node or group of the      *)
(* source, a builtin, or the selector <<device, slot>> of one device. A    *)
(* packet is what rules can tell of one: who sent it from which address,   *)
(* over which family and transport, and where to. An IPv4 address is a LAN *)
(* and a host in it. Names, YAML and providers' contents are left out;     *)
(* conditions on domains, CIDRs and ports are one dimension of a match.    *)
(***************************************************************************)
EXTENDS Naturals, SequencesExt

CONSTANTS
    Device,    \* identities a registration may have
    Slot,      \* "default" and the identities an override may have
    Node,      \* proxies and groups of sources
    Udp,       \* nodes that carry UDP
    Site,      \* destinations outside of the LAN and the Tailnet
    Lists,     \* rule sets: name -> the destinations it has
    DIRECT, REJECT, PASS,
    Tailnet, ExitGroup,              \* the managed Tailscale outbound and its exit selector
    MacGlobal, MacTCP, MacUDP,       \* the hidden groups of the Mac's own traffic
    none

Builtin == {DIRECT, REJECT}
Local == "local"      \* an address of the LAN, private or link-local
Peer == "tailnet"     \* a configured Tailnet target; in IPv4 it is in 100.64.0.0/10
Mac == "mac"

Stranger == "other"   \* a machine nobody registered
Machine == Device \cup {Stranger}

Managed == <<DIRECT, REJECT, PASS, Tailnet, ExitGroup, MacGlobal, MacTCP, MacUDP, none>>

\* Nodes, the selectors of devices and what is managed or built in have names of
\* their own, none is no outlet, and no registration is the Mac or a stranger.
ASSUME RoutingAssumption ==
    /\ Udp \subseteq Node /\ "default" \in Slot
    /\ IsInjective(Managed)
    /\ ToSet(Managed) \cap (Node \cup (Device \X Slot)) = {} /\ Node \cap (Device \X Slot) = {}
    /\ Mac \notin Device /\ Stranger \notin Device

Rule(conditions, target) == [when |-> conditions, to |-> target]

\* @@ and SelectSeq, spelled out: f wherever it is defined, and the members of a
\* list that pass a test, in their order.
Over(f, g) == [x \in DOMAIN f \cup DOMAIN g |-> IF x \in DOMAIN f THEN f[x] ELSE g[x]]
Kept(list, Test(_)) == FlattenSeq([i \in DOMAIN list |-> IF Test(list[i]) THEN <<list[i]>> ELSE <<>>])

\* What a document may say, whatever else is valid of it.
Named == Node \cup Builtin \cup {Tailnet, ExitGroup}
Registration == [id : Device, mac : BOOLEAN, lan : STRING, host : Nat, profile : STRING,
                 gateway : {"", "opensurge", "upstream_router"}, mode : {"", "inherit_global", "dedicated"}]
Conditions == [to : Seq(Site \cup {Local}), over : Seq({"tcp", "udp"}), sets : Seq(DOMAIN Lists), template : STRING]
Override == [id : Slot, match : Conditions, action : Named \cup {none}, policies : Seq(Named),
             unsupported : {"", "pass", "reject"}]

EgressProfile == [template : STRING, defaults : Seq(Named), unsupported : {"", "pass", "reject"}, rules : Seq(Override)]
EgressTemplate == [defaults : Seq(Named), unsupported : {"", "pass", "reject"}, rules : Seq(Override), sets : Seq(DOMAIN Lists)]

\* What a rule may ask of a packet, and what a source may say: its rules and
\* groups may have any outlet and any selector of a device, never the Mac's.
Condition ==
    ({"to"} \X (Site \cup {Local, Peer})) \cup ({"over"} \X {"tcp", "udp"}) \cup ({"set"} \X DOMAIN Lists)
    \cup ({"src"} \X Nat) \cup ({"user"} \X Device) \cup ({"mac", "local"} \X BOOLEAN)
RuleTarget == Named \cup {PASS} \cup (Device \X Slot)
IsSource(source) ==
    /\ source.targets \in Seq(Node)
    /\ source.rules \in Seq([when : SUBSET Condition, to : RuleTarget])
    /\ DOMAIN source.groups \subseteq Node
    /\ \A g \in DOMAIN source.groups : source.groups[g] \in Seq(RuleTarget) /\ source.groups[g] # <<>>
    /\ source.match \in RuleTarget \cup {none}

IsDocument(doc) ==
    /\ doc.devices \in Seq(Registration)
    /\ \A n \in DOMAIN doc.profiles : doc.profiles[n] \in EgressProfile
    /\ \A n \in DOMAIN doc.templates : doc.templates[n] \in EgressTemplate

-----------------------------------------------------------------------------
(* The engine.                                                             *)

\* A sender is known by its IPv4 source, or over IPv6 by the user of its packet
\* listener; the Mac by its own TUN addresses.
FromHost(host) == <<"src", host>>
FromUser(id) == <<"user", id>>
FromMac(v6) == <<"mac", v6>>
LocalRange(v6) == <<"local", v6>>

Facts(p) ==
    {IF p.from = Mac THEN FromMac(p.v6) ELSE IF p.v6 THEN FromUser(p.from) ELSE FromHost(p.host),
     <<"over", p.over>>, <<"to", p.to>>}
    \cup {<<"set", l>> : l \in {k \in DOMAIN Lists : p.to \in Lists[k]}}
    \cup {LocalRange(v) : v \in {p.v6} \cap
            (IF p.to = Local THEN BOOLEAN ELSE IF p.to = Peer THEN {FALSE} ELSE {})}

\* Groups nest no deeper: a device's or the Mac's, a source's, the exit's.
Chosen(selected, target) == IF target \in DOMAIN selected THEN selected[target] ELSE target
Outlet(selected, target) ==
    Chosen(selected, Chosen(selected, Chosen(selected, Chosen(selected, target))))

Carries(outlet, over) == over = "tcp" \/ outlet \in Udp \cup Builtin \cup {Tailnet}

\* The first rule that applies decides; PASS and, for UDP, an outlet that
\* cannot carry it are passed over; without any the packet goes out directly.
Route(rules, selected, p) ==
    LET facts == Facts(p)
        Decides(r) == /\ r.when \subseteq facts
                      /\ Outlet(selected, r.to) # PASS
                      /\ Carries(Outlet(selected, r.to), p.over)
        i == SelectInSeq(rules, Decides)
    IN  IF i = 0 THEN DIRECT ELSE Outlet(selected, rules[i].to)

\* store-selected: the saved member if there still is one, or the first.
Restore(members, saved) == IF saved \in ToSet(members) THEN saved ELSE members[1]

-----------------------------------------------------------------------------
(* Compilation of one document.                                            *)

EffectiveGateway(d) == IF d.gateway = "" THEN "opensurge" ELSE d.gateway
EffectiveMode(d) == IF d.mode = "" THEN "legacy_fallback" ELSE d.mode

Profile(doc, name) ==
    LET p == doc.profiles[name]
    IN  IF p.template = "" THEN p
        ELSE LET t == doc.templates[p.template]
             IN [p EXCEPT !.defaults = IF @ = <<>> THEN t.defaults ELSE @,
                          !.unsupported = IF @ = "" THEN t.unsupported ELSE @,
                          !.rules = t.rules \o @]

Unsupported(rule, profile) ==
    IF rule # "" THEN rule ELSE IF profile # "" THEN profile ELSE "reject"

\* appendConditionDimension: one variant for each prior one and each value.
Crossed(variants, values) ==
    IF values = <<>> THEN variants
    ELSE FlattenSeq([i \in DOMAIN variants |->
            [j \in DOMAIN values |-> variants[i] \cup {values[j]}]])

Tagged(tag, values) == [i \in DOMAIN values |-> <<tag, values[i]>>]

Variants(doc, match) ==
    LET sets == IF match.template = "" THEN match.sets ELSE doc.templates[match.template].sets
    IN  Crossed(Crossed(Crossed(<<{}>>, Tagged("to", match.to)), Tagged("over", match.over)),
                Tagged("set", sets))

\* The inventory and the choices one run is compiled with; all: not resolved yet.
Unresolved == [all |-> TRUE, targets |-> {}, selections |-> <<>>, unavailable |-> FALSE]

Available(res, target) == res.all \/ target \in Builtin \cup res.targets

Recorded(res, group) ==
    IF group \in DOMAIN res.selections THEN res.selections[group] ELSE none

\* Mutant: a selector whose choice has gone is offered what is left.
ResolveFiltered(res, group, candidates) ==
    Kept(candidates, LAMBDA t : Available(res, t))

\* resolveSelector: the candidates left, the current choice first, or none at
\* all when the current choice has gone or is not known.
ResolveSelector(res, group, candidates) ==
    LET known == Recorded(res, group)
        current == IF known \in ToSet(candidates) THEN known ELSE candidates[1]
    IN  IF \A t \in ToSet(candidates) : Available(res, t) THEN candidates
        ELSE IF (known = none /\ res.unavailable) \/ ~Available(res, current) THEN <<>>
        ELSE <<current>> \o Kept(candidates, LAMBDA t : t # current /\ Available(res, t))

\* The slots of a device with the candidates its profile gives them, none to one
\* that bypasses the Mac.
SlotCandidates(doc, d) ==
    LET profile == Profile(doc, d.profile)
        rules == profile.rules
        Given(s) == IF s # "default" THEN rules[CHOOSE i \in DOMAIN rules : rules[i].id = s].policies
                    ELSE IF EffectiveMode(d) = "inherit_global" THEN <<>> ELSE profile.defaults
    IN  [s \in {"default"} \cup {rules[i].id : i \in DOMAIN rules} |->
            IF EffectiveGateway(d) = "upstream_router" THEN <<>> ELSE Given(s)]

Slots(doc, res, d) ==
    LET given == SlotCandidates(doc, d)
    IN  [s \in DOMAIN given |-> ResolveSelector(res, <<d.id, s>>, given[s])]

\* A group or a node may fail to carry UDP; DIRECT and REJECT never do.
CanFallThrough(target) == target \notin Builtin

Guarded(conditions, target, unsupported) ==
    <<Rule(conditions, target)>>
    \o (IF unsupported = "reject" /\ CanFallThrough(target) THEN <<Rule(conditions, REJECT)>> ELSE <<>>)

CompiledDevice(doc, res, d) ==
    LET profile == Profile(doc, d.profile)
        bypass == EffectiveGateway(d) = "upstream_router"
        slots == Slots(doc, res, d)
        rules == IF bypass THEN <<>> ELSE profile.rules
        Target(r) == IF slots[r.id] # <<>> THEN <<d.id, r.id>>
                     ELSE IF r.policies = <<>> /\ Available(res, r.action) THEN r.action
                     ELSE none
        Compiled(r) ==
            IF Target(r) = none THEN <<>>
            ELSE LET variants == Variants(doc, r.match)
                 IN  FlattenSeq([i \in DOMAIN variants |->
                        Guarded(variants[i] \cup {FromHost(d.host)}, Target(r),
                                Unsupported(r.unsupported, profile.unsupported))])
    IN [id |-> d.id, mac |-> d.mac, host |-> d.host, bypass |-> bypass,
        mode |-> IF ~bypass /\ slots["default"] = <<>> THEN "inherit_global" ELSE EffectiveMode(d),
        groups |-> [g \in {<<d.id, s>> : s \in {t \in DOMAIN slots : slots[t] # <<>>}} |-> slots[g[2]]],
        overrides |-> FlattenSeq([i \in DOMAIN rules |-> Compiled(rules[i])]),
        defaults |-> IF slots["default"] = <<>> THEN <<>>
                     ELSE Guarded({FromHost(d.host)}, <<d.id, "default">>,
                                  Unsupported("", profile.unsupported))]

IPOnlyActive(net) == net.mode = "same_lan"

\* Mutant: a registration without a MAC is served everywhere.
OfLAN(doc, net) == Kept(doc.devices, LAMBDA d : d.lan = net.lan)

\* Registrations outside of the LAN are dormant, those without a MAC paused
\* wherever a lease may pass from one machine to another.
Active(doc, net) ==
    Kept(doc.devices, LAMBDA d : d.lan = net.lan /\ (d.mac \/ IPOnlyActive(net)))

Compile(doc, res, net) ==
    LET active == Active(doc, net)
    IN [i \in DOMAIN active |-> CompiledDevice(doc, res, active[i])]

DeviceGroups(compiled) ==
    LET keys == UNION {DOMAIN compiled[i].groups : i \in DOMAIN compiled}
    IN [g \in keys |-> (CHOOSE m \in {compiled[i].groups : i \in DOMAIN compiled} : g \in DOMAIN m)[g]]

-----------------------------------------------------------------------------
(* The rules of the engine.                                                *)

Joined(compiled, Of(_)) == FlattenSeq([i \in DOMAIN compiled |-> Of(compiled[i])])

\* addIPv6IdentityRules: after each rule of a device with a MAC the same one
\* for its packet listener user.
WithUsers(compiled, rules, net) ==
    LET known == {compiled[i] : i \in {j \in DOMAIN compiled : compiled[j].mac}}
        Of(r) == {d \in known : FromHost(d.host) \in r.when}
        ForUser(r) == LET d == CHOOSE x \in Of(r) : TRUE
                      IN Rule((r.when \ {FromHost(d.host)}) \cup {FromUser(d.id)}, r.to)
    IN  IF ~net.ipv6 THEN rules
        ELSE FlattenSeq([i \in DOMAIN rules |->
                IF Of(rules[i]) = {} THEN <<rules[i]>> ELSE <<rules[i], ForUser(rules[i])>>])

BypassRejects(compiled, net) ==
    LET Of(d) == IF net.ipv6 /\ d.bypass /\ d.mac THEN <<Rule({FromUser(d.id)}, REJECT)>> ELSE <<>>
    IN  Joined(compiled, Of)

\* Who may use the Tailnet, and a REJECT for everybody else: the host may have
\* a native Tailscale whose routes an ordinary DIRECT would follow.
TailscaleRules(compiled, net) ==
    LET allowed(d) == net.ts.all \/ d.id \in net.ts.devices
        Of(d) == IF ~allowed(d) THEN <<>>
                 ELSE <<Rule({FromHost(d.host), <<"to", Peer>>}, Tailnet)>>
                      \o (IF net.ipv6 /\ d.mac THEN <<Rule({FromUser(d.id), <<"to", Peer>>}, Tailnet)>>
                          ELSE <<>>)
        host == IF net.ts.mac
                THEN <<Rule({FromMac(FALSE), <<"to", Peer>>}, Tailnet),
                       Rule({FromMac(TRUE), <<"to", Peer>>}, Tailnet)>>
                ELSE <<>>
    IN  IF ~net.ts.on THEN <<>>
        ELSE host \o Joined(compiled, Of) \o <<Rule({<<"to", Peer>>}, REJECT)>>

\* The Mac's inbounds: what is local goes out directly, the rest to the groups
\* that hold the mode.
LocalRouting ==
    FlattenSeq([i \in 1 .. 2 |->
        LET me == FromMac(i = 2)
        IN  <<Rule({me, LocalRange(FALSE)}, DIRECT)>>
            \o (IF i = 2 THEN <<Rule({me, LocalRange(TRUE)}, DIRECT)>> ELSE <<>>)
            \o <<Rule({me, <<"over", "tcp">>}, MacTCP), Rule({me, <<"over", "udp">>}, MacUDP)>>])

\* A dedicated outlet is for the Internet: what is local stays direct.
DedicatedLocal(compiled, net) ==
    LET Of(d) == IF d.mode # "dedicated" THEN <<>>
                 ELSE <<Rule({FromHost(d.host), LocalRange(FALSE)}, DIRECT)>>
                      \o (IF net.ipv6 /\ d.mac
                          THEN <<Rule({FromUser(d.id), LocalRange(TRUE)}, DIRECT)>> ELSE <<>>)
    IN  Joined(compiled, Of)

Overrides(compiled) == Joined(compiled, LAMBDA d : d.overrides)
Dedicated(compiled) == Joined(compiled, LAMBDA d : IF d.mode = "dedicated" THEN d.defaults ELSE <<>>)
Fallbacks(compiled) == Joined(compiled, LAMBDA d : IF d.mode = "legacy_fallback" THEN d.defaults ELSE <<>>)

\* composeImportedRules: a terminal MATCH, if the source has one, stays last.
Rules(compiled, source, net) ==
    BypassRejects(compiled, net) \o TailscaleRules(compiled, net) \o LocalRouting
    \o DedicatedLocal(compiled, net)
    \o WithUsers(compiled, Overrides(compiled), net) \o WithUsers(compiled, Dedicated(compiled), net)
    \o source.rules \o WithUsers(compiled, Fallbacks(compiled), net)
    \o (IF source.match = none THEN <<>> ELSE <<Rule({}, source.match)>>)

ExitOffered(net) == net.ts.on /\ net.ts.exit

\* The selectors of the source get the exit as a choice, the Mac's one too if
\* the Mac may use the Tailnet.
Groups(compiled, source, net) ==
    LET mac == source.targets \o (IF ExitOffered(net) /\ net.ts.mac THEN <<ExitGroup>> ELSE <<>>)
        global == IF mac = <<>> THEN <<>> ELSE <<MacGlobal>>
        own == [g \in DOMAIN source.groups |->
                    source.groups[g] \o (IF ExitOffered(net) THEN <<ExitGroup>> ELSE <<>>)]
        exit == [g \in IF ExitOffered(net) THEN {ExitGroup} ELSE {} |-> <<Tailnet>>]
        local == [g \in (IF mac = <<>> THEN {} ELSE {MacGlobal}) \cup {MacTCP, MacUDP} |->
                    IF g = MacGlobal THEN mac
                    ELSE IF g = MacTCP THEN <<PASS, DIRECT>> \o global ELSE <<PASS, DIRECT, REJECT>> \o global]
    IN  Over(own, Over(exit, Over(local, DeviceGroups(compiled))))

Inventory(source, net) ==
    ToSet(source.targets) \cup (IF ExitOffered(net) THEN {ExitGroup, Tailnet} ELSE {})

-----------------------------------------------------------------------------
(* What is accepted (the parts of the validation that rules depend on).    *)

SomeRepeated(seq) == ~IsInjective(seq)

ValidMatch(doc, match) ==
    IF match.template # ""
    THEN /\ match.to = <<>> /\ match.over = <<>> /\ match.sets = <<>>
         /\ match.template \in DOMAIN doc.templates /\ doc.templates[match.template].sets # <<>>
    ELSE match.to \o match.over \o match.sets # <<>>

ValidRules(doc, rules) ==
    /\ ~SomeRepeated([i \in DOMAIN rules |-> rules[i].id])
    /\ \A i \in DOMAIN rules :
          /\ rules[i].id # "default" /\ ValidMatch(doc, rules[i].match)
          /\ (rules[i].policies = <<>>) # (rules[i].action = none)
          /\ ~SomeRepeated(rules[i].policies)

ValidPolicySet(doc) ==
    /\ \A n \in DOMAIN doc.profiles :
          /\ doc.profiles[n].template \in DOMAIN doc.templates \cup {""}
          /\ Profile(doc, n).defaults # <<>> /\ ~SomeRepeated(Profile(doc, n).defaults)
          /\ ValidRules(doc, Profile(doc, n).rules)
    /\ ~SomeRepeated([i \in DOMAIN doc.devices |-> doc.devices[i].id])
    /\ ~SomeRepeated([i \in DOMAIN doc.devices |-> <<doc.devices[i].lan, doc.devices[i].host>>])
    /\ \A i \in DOMAIN doc.devices :
          LET d == doc.devices[i]
          IN  /\ d.profile \in DOMAIN doc.profiles
              /\ d.mode \in {"", "inherit_global", "dedicated"}
              /\ EffectiveGateway(d) = "upstream_router" => d.mac

Usable(host, net) == 0 < host /\ host < net.broadcast

ValidPool(net) == (\A h \in net.pool : Usable(h, net)) /\ net.gateway \notin net.pool

\* Named devices must be active; all and some exclude each other.
ValidTailscale(doc, net) ==
    net.ts.on => /\ net.ts.all => net.ts.devices = {}
                 /\ net.ts.devices \subseteq {d.id : d \in ToSet(Active(doc, net))}

\* Who serves DHCP in which topology, and when a shared LAN may have the Mac's
\* IPv6.
ValidSettings(net) ==
    /\ Usable(net.gateway, net)
    /\ net.dhcp => ValidPool(net)
    /\ net.mode = "same_lan" => ~net.dhcp
    /\ net.mode = "same_wifi_dhcp" => net.dhcp
    /\ net.ipv6 /\ net.mode # "isolated_lan" => net.ready

\* Devices that bypass the Mac need a router in the LAN that no client can be.
ValidBypass(net) ==
    /\ net.mode = "same_wifi_dhcp"
    /\ Usable(net.router, net) /\ net.router # net.gateway /\ net.router \notin net.pool

ValidAddresses(active, taken, net) ==
    \A d \in active : Usable(d.host, net) /\ d.host \notin taken \cup {net.gateway}

\* What is active must have addresses of its own; a registration outside of the
\* LAN hinders nothing.
ValidForLAN(doc, net) ==
    LET active == ToSet(Active(doc, net))
        bypass == \E d \in active : EffectiveGateway(d) = "upstream_router"
    IN  /\ bypass => ValidBypass(net)
        /\ ValidAddresses(active, net.protected \cup (IF bypass THEN {net.router} ELSE {}), net)

Valid(doc, net) == ValidSettings(net) /\ ValidForLAN(doc, net) /\ ValidTailscale(doc, net)

-----------------------------------------------------------------------------
(* What the machines of the LAN get.                                       *)

\* Who has a reservation; a lease of theirs for another address is dropped.
\* Without DHCP people configure their machines by hand, a registered one as it
\* was registered.
Reserved(doc, net) == {d \in ToSet(Active(doc, net)) : d.mac \/ ~net.dhcp}

\* dnsmasq: a reservation, with the other router if the device bypasses the Mac,
\* or any other address of the pool.
Leases(doc, net, machine) ==
    LET own == {d \in Reserved(doc, net) : d.id = machine}
        Router(d) == IF EffectiveGateway(d) = "upstream_router" THEN net.router ELSE net.gateway
    IN  IF own # {} THEN {[host |-> d.host, router |-> Router(d)] : d \in own}
        ELSE {[host |-> h, router |-> net.gateway] : h \in net.pool \ {d.host : d \in Reserved(doc, net)}}
=============================================================================
