---------------------------- MODULE DeviceRouting ----------------------------
(***************************************************************************)
(* The egress of devices and of the Mac over the life of documents,        *)
(* sources and engines: a document is compiled when an engine starts, with *)
(* the inventory of its source and the choices the last engine can still   *)
(* tell of (internal/mihomo/device_policy_resolution.go); choices are made *)
(* while a prepared or a gateway engine runs                               *)
(* (internal/controlapi/policy_workspace.go, server.go), and the Mac's     *)
(* routing mode is up to three choices made one after the other            *)
(* (internal/mihomo/local_routing.go).                                     *)
(***************************************************************************)
EXTENDS RoutingRules, FiniteSets

CONSTANTS
    Documents,     \* name -> a device policy a user may save
    Sources,       \* name -> a content the profile may have
    Nets,          \* name -> LAN, topology and Tailscale settings
    FirstDocument, FirstSource, FirstNet,
    Quota          \* kind of event -> how often it happens, "all" -> all together

ASSUME DeviceRoutingAssumption ==
    /\ FirstDocument \in DOMAIN Documents /\ FirstSource \in DOMAIN Sources /\ FirstNet \in DOMAIN Nets
    /\ \A d \in DOMAIN Documents : IsDocument(Documents[d])
    /\ \A s \in DOMAIN Sources : IsSource(Sources[s])
    /\ \A k \in DOMAIN Quota : Quota[k] \in Nat

VARIABLES
    doc, source, net,  \* the saved document, profile and settings
    engine,        \* the engine's owner and what it was started from, or none
    selected,      \* the engine's groups -> the member each has chosen
    record,        \* choices in the record of the prepared engine
    cache,         \* cache.db: group -> the choice somebody made last
    guessed,       \* selectors of which the engine's start could not know the choice made last
    switch,        \* a change of the Mac's mode under way
    left           \* what is left of Quota

vars == <<doc, source, net, engine, selected, record, cache, guessed, switch, left>>

Spend(kind) ==
    /\ left[kind] > 0 /\ left["all"] > 0
    /\ left' = [left EXCEPT ![kind] = @ - 1, !["all"] = @ - 1]

Idle == [at |-> "idle"]

\* What an engine is started from, with its rendered rules and groups.
Engine(owner, d, s, n, r) ==
    LET compiled == Compile(Documents[d], r, Nets[n])
    IN  [owner |-> owner, doc |-> d, source |-> s, net |-> n, res |-> r,
         rules |-> Rules(compiled, Sources[s], Nets[n]), groups |-> Groups(compiled, Sources[s], Nets[n])]

NoEngine == [owner |-> "none"]
IsDeviceGroup(g) == g \in Device \X Slot

-----------------------------------------------------------------------------
(* What a compilation knows.                                               *)

\* A healthy document asks nobody for choices.
HasMissing ==
    LET all == DeviceGroups(Compile(Documents[doc], Unresolved, Nets[net]))
    IN  \E g \in DOMAIN all : ~(ToSet(all[g]) \subseteq Builtin \cup Inventory(Sources[source], Nets[net]))

OfDevices(f) == [g \in {x \in DOMAIN f : IsDeviceGroup(x)} |-> f[g]]

\* devicePolicySelections before a start: the prepared record overridden by its
\* controller, or by the cache, which a live engine keeps locked.
Selections(late) ==
    IF engine = NoEngine
    THEN [known |-> Over(OfDevices(cache), record), unavailable |-> FALSE]
    ELSE [known |-> IF late THEN record ELSE Over(OfDevices(selected), record), unavailable |-> late]

Resolution(late) ==
    LET told == Selections(late)
    IN  [all |-> FALSE, targets |-> Inventory(Sources[source], Nets[net]),
         selections |-> IF HasMissing THEN told.known ELSE <<>>,
         unavailable |-> HasMissing /\ told.unavailable]

Candidate(owner, late) == Engine(owner, doc, source, net, Resolution(late))

\* The choices of a live engine are not the ones that were made where it had to
\* do without those; what it has left out is known no better than it was.
Guesses(res) ==
    IF ~HasMissing THEN {}
    ELSE IF res.unavailable THEN DOMAIN cache
    ELSE IF engine = NoEngine THEN {}
    ELSE (guessed \ DOMAIN selected) \cup {g \in DOMAIN selected \cap DOMAIN cache : selected[g] # cache[g]}

Launch(e) ==
    /\ engine' = e /\ guessed' = Guesses(e.res)
    /\ selected' = [g \in DOMAIN e.groups |->
            Restore(e.groups[g], IF g \in DOMAIN cache THEN cache[g] ELSE none)]

Init ==
    /\ doc = FirstDocument /\ source = FirstSource /\ net = FirstNet
    /\ ValidPolicySet(Documents[doc]) /\ Valid(Documents[doc], Nets[net])
    /\ engine = NoEngine /\ selected = <<>> /\ record = <<>> /\ cache = <<>>
    /\ guessed = {} /\ switch = Idle /\ left = Quota

-----------------------------------------------------------------------------
(* Documents and engines.                                                  *)

Edit(d) ==
    /\ d # doc /\ ValidPolicySet(Documents[d]) /\ Valid(Documents[d], Nets[net]) /\ Spend("edit")
    /\ doc' = d
    /\ UNCHANGED <<source, net, engine, selected, record, cache, guessed, switch>>

ChangeSource(s) ==
    /\ s # source /\ Spend("source") /\ source' = s
    /\ UNCHANGED <<doc, net, engine, selected, record, cache, guessed, switch>>

ChangeNet(n) ==
    /\ n # net /\ Valid(Documents[doc], Nets[n]) /\ Spend("net") /\ net' = n
    /\ UNCHANGED <<doc, source, engine, selected, record, cache, guessed, switch>>

Late(late) == IF late THEN engine # NoEngine /\ HasMissing /\ Spend("late") ELSE UNCHANGED left

\* A live engine with the same configuration is used again, its record stays.
Prepare(late) ==
    /\ engine.owner # "gateway" /\ Late(late)
    /\ LET e == Candidate("prepared", late)
       IN  IF engine # NoEngine /\ engine.rules = e.rules /\ engine.groups = e.groups
           THEN UNCHANGED <<engine, selected, record, guessed>>
           ELSE Launch(e) /\ record' = e.res.selections
    /\ UNCHANGED <<doc, source, net, cache, switch>>

\* The choices are read before the prepared engine is stopped.
Start(late) ==
    /\ engine.owner # "gateway" /\ Late(late)
    /\ Launch(Candidate("gateway", late)) /\ record' = <<>>
    /\ UNCHANGED <<doc, source, net, cache, switch>>

\* Stop; a reload is a stop and a start. In the middle of a change of the mode
\* it is one of the disturbances that are bounded.
Stop ==
    /\ engine # NoEngine /\ (IF switch = Idle THEN UNCHANGED left ELSE Spend("fault"))
    /\ engine' = NoEngine /\ selected' = <<>> /\ record' = <<>> /\ guessed' = {}
    /\ UNCHANGED <<doc, source, net, cache, switch>>

PreparedDies ==
    /\ engine.owner = "prepared" /\ Spend("die")
    /\ engine' = NoEngine /\ selected' = <<>> /\ guessed' = {}
    /\ UNCHANGED <<doc, source, net, record, cache, switch>>

-----------------------------------------------------------------------------
(* Choices.                                                                *)

\* The applied snapshot is compiled again with what it was written with, never
\* with the source of today; a device's selectors are looked up in it.
Applied == DeviceGroups(Compile(Documents[engine.doc], engine.res, Nets[engine.net]))

\* PUT /proxies/<group>: an engine that has the member takes and saves it.
Offers(g, member) == engine # NoEngine /\ g \in DOMAIN selected /\ member \in ToSet(engine.groups[g])

Put(g, member) ==
    /\ selected' = [selected EXCEPT ![g] = member]
    /\ cache' = Over([x \in {g} |-> member], cache)

MacGroups == {MacGlobal, MacTCP, MacUDP}

\* The Mac's groups are reserved for local routing.
Select(g, member) ==
    /\ Spend("select") /\ g \notin MacGroups /\ Offers(g, member) /\ selected[g] # member
    /\ engine.owner = "gateway" /\ IsDeviceGroup(g) => g \in DOMAIN Applied
    /\ Put(g, member)
    /\ UNCHANGED <<doc, source, net, engine, record, guessed, switch>>

-----------------------------------------------------------------------------
(* The Mac's routing mode (SetLocalRouting).                               *)

Mode(s) ==
    IF s[MacTCP] = PASS /\ s[MacUDP] = PASS THEN "rule"
    ELSE IF s[MacTCP] = DIRECT /\ s[MacUDP] = DIRECT THEN "direct"
    ELSE IF s[MacTCP] = MacGlobal /\ s[MacUDP] \in {MacGlobal, REJECT} THEN "global"
    ELSE "inconsistent"

SupportsUDP(member) == Carries(Outlet(selected, member), "udp")

\* The choices a mode takes, those that stand left out; health tells whether
\* /proxies answered.
Changes(mode, policy, health) ==
    LET udp == IF health /\ SupportsUDP(policy) THEN MacGlobal ELSE REJECT
        want == IF mode = "rule" THEN <<PASS, PASS>>
                ELSE IF mode = "direct" THEN <<DIRECT, DIRECT>> ELSE <<MacGlobal, udp>>
        Change(g, to) == IF selected[g] = to THEN <<>> ELSE <<[group |-> g, from |-> selected[g], to |-> to]>>
    IN  (IF policy = none THEN <<>> ELSE Change(MacGlobal, policy))
        \o Change(MacTCP, want[1]) \o Change(MacUDP, want[2])

AskMode(mode, policy, health) ==
    /\ engine.owner = "gateway" /\ switch = Idle /\ Spend("switch")
    /\ IF MacGlobal \in DOMAIN selected
       THEN policy \in ToSet(engine.groups[MacGlobal])
       ELSE policy = none /\ mode # "global"
    /\ mode # "global" => health
    /\ (mode # "global" \/ ~health) => policy \in {none, selected[MacGlobal]}
    /\ switch' = [at |-> "apply", mode |-> mode, todo |-> Changes(mode, policy, health), done |-> <<>>,
                  before |-> [g \in MacGroups \cap DOMAIN selected |-> selected[g]], on |-> engine, faults |-> FALSE]
    /\ UNCHANGED <<doc, source, net, engine, selected, record, cache, guessed>>

Now == Head(switch.todo)

ApplyOne ==
    /\ switch.at = "apply" /\ switch.todo # <<>> /\ engine.owner = "gateway"
    /\ Offers(Now.group, Now.to) /\ Put(Now.group, Now.to)
    /\ switch' = [switch EXCEPT !.todo = Tail(@), !.done = <<Now>> \o @]
    /\ UNCHANGED <<doc, source, net, engine, record, guessed, left>>

\* Mutant: the choices made before one that fails stay.
FailsAtOnce ==
    /\ switch.at = "apply" /\ switch.todo # <<>>
    /\ IF engine.owner = "gateway" /\ Offers(Now.group, Now.to) THEN Spend("fault") ELSE UNCHANGED left
    /\ switch' = Idle
    /\ UNCHANGED <<doc, source, net, engine, selected, record, cache, guessed>>

\* A refused or failed call, or no engine to take it.
ApplyFails ==
    /\ switch.at = "apply" /\ switch.todo # <<>>
    /\ IF engine.owner = "gateway" /\ Offers(Now.group, Now.to) THEN Spend("fault") ELSE UNCHANGED left
    /\ switch' = [switch EXCEPT !.at = "undo"]
    /\ UNCHANGED <<doc, source, net, engine, selected, record, cache, guessed>>

\* The engine took the choice and the reply is lost: it counts as failed.
ReplyLost ==
    /\ switch.at = "apply" /\ switch.todo # <<>> /\ engine.owner = "gateway"
    /\ Offers(Now.group, Now.to) /\ Put(Now.group, Now.to) /\ Spend("fault")
    /\ switch' = [switch EXCEPT !.at = "undo", !.faults = TRUE]
    /\ UNCHANGED <<doc, source, net, engine, record, guessed>>

Verify ==
    /\ switch.at = "apply" /\ switch.todo = <<>>
    /\ IF engine.owner = "gateway"
       THEN switch' = IF Mode(selected) = switch.mode THEN Idle ELSE [switch EXCEPT !.at = "undo"]
       ELSE switch' = [switch EXCEPT !.at = "undo"]
    /\ UNCHANGED <<doc, source, net, engine, selected, record, cache, guessed, left>>

VerifyFails ==
    /\ switch.at = "apply" /\ switch.todo = <<>> /\ engine.owner = "gateway" /\ Spend("fault")
    /\ switch' = [switch EXCEPT !.at = "undo"]
    /\ UNCHANGED <<doc, source, net, engine, selected, record, cache, guessed>>

\* The last choice first; one that fails is passed over.
UndoOne ==
    /\ switch.at = "undo" /\ switch.done # <<>> /\ engine.owner = "gateway"
    /\ LET c == Head(switch.done)
       IN  Offers(c.group, c.from) /\ Put(c.group, c.from)
    /\ switch' = [switch EXCEPT !.done = Tail(@)]
    /\ UNCHANGED <<doc, source, net, engine, record, guessed, left>>

UndoFails ==
    /\ switch.at = "undo" /\ switch.done # <<>>
    /\ LET c == Head(switch.done)
       IN  IF engine.owner = "gateway" /\ Offers(c.group, c.from) THEN Spend("fault") ELSE UNCHANGED left
    /\ switch' = [switch EXCEPT !.done = Tail(@), !.faults = TRUE]
    /\ UNCHANGED <<doc, source, net, engine, selected, record, cache, guessed>>

Failed ==
    /\ switch.at = "undo" /\ switch.done = <<>> /\ switch' = Idle
    /\ UNCHANGED <<doc, source, net, engine, selected, record, cache, guessed, left>>

Next ==
    \/ \E d \in DOMAIN Documents : Edit(d)
    \/ \E s \in DOMAIN Sources : ChangeSource(s)
    \/ \E n \in DOMAIN Nets : ChangeNet(n)
    \/ \E late \in BOOLEAN : Prepare(late) \/ Start(late)
    \/ Stop \/ PreparedDies
    \/ \E g \in DOMAIN selected : \E m \in ToSet(engine.groups[g]) : Select(g, m)
    \/ \E mode \in {"rule", "direct", "global"}, policy \in Node \cup {ExitGroup, none}, health \in BOOLEAN :
          AskMode(mode, policy, health)
    \/ ApplyOne \/ ApplyFails \/ ReplyLost \/ Verify \/ VerifyFails \/ UndoOne \/ UndoFails \/ Failed

Spec == Init /\ [][Next]_vars

-----------------------------------------------------------------------------
(* What the documents promise (docs of device policies, rule by rule and   *)
(* without regard to the list of rules an engine gets).                    *)

\* A sender over IPv6 is known by its packet listener, which only a device with
\* a MAC has and only with downstream IPv6.
Registered(p) ==
    LET active == Active(Documents[engine.doc], Nets[engine.net])
    IN  {active[i] : i \in {j \in DOMAIN active : active[j].id = p.from
                                                 /\ (p.v6 => active[j].mac /\ Nets[engine.net].ipv6)}}

Applies(match, p) ==
    LET sets == IF match.template = "" THEN match.sets ELSE Documents[engine.doc].templates[match.template].sets
    IN  /\ match.to = <<>> \/ p.to \in ToSet(match.to)
        /\ match.over = <<>> \/ p.over \in ToSet(match.over)
        /\ sets = <<>> \/ \E l \in ToSet(sets) : p.to \in Lists[l]

\* An outlet that cannot take the packet is refused or passed over.
Try(target, unsupported, p) ==
    LET o == Outlet(selected, target)
    IN  IF o # PASS /\ Carries(o, p.over) THEN o ELSE IF unsupported = "reject" THEN REJECT ELSE none

First(verdicts) ==
    LET i == SelectInSeq(verdicts, LAMBDA v : v # none) IN IF i = 0 THEN DIRECT ELSE verdicts[i]

OfDevice(d, p) ==
    LET profile == Profile(Documents[engine.doc], d.profile)
        default == IF <<d.id, "default">> \in DOMAIN selected
                   THEN Try(<<d.id, "default">>, Unsupported("", profile.unsupported), p) ELSE none
        Decided(r) == Try(IF r.policies # <<>> THEN <<d.id, r.id>> ELSE r.action,
                       Unsupported(r.unsupported, profile.unsupported), p)
        Present(r) == IF r.policies # <<>> THEN <<d.id, r.id>> \in DOMAIN selected
                      ELSE r.action \in Builtin \cup engine.res.targets
        Own(r) == IF Present(r) /\ Applies(r.match, p) THEN Decided(r) ELSE none
        dedicated == d.mode = "dedicated" /\ <<d.id, "default">> \in DOMAIN selected
        isLocal == p.to = Local \/ (p.to = Peer /\ ~p.v6)
    IN  [before |-> (IF dedicated /\ isLocal THEN <<DIRECT>> ELSE <<>>)
                    \o [i \in DOMAIN profile.rules |-> Own(profile.rules[i])]
                    \o (IF dedicated THEN <<default>> ELSE <<>>),
         after |-> IF d.mode = "" THEN <<default>> ELSE <<>>]

Expected(p) ==
    LET ts == Nets[engine.net].ts
        who == Registered(p)
        d == CHOOSE x \in who : TRUE
        bypass == who # {} /\ d.gateway = "upstream_router"
        own == IF who = {} \/ bypass THEN [before |-> <<>>, after |-> <<>>] ELSE OfDevice(d, p)
        allowed == IF p.from = Mac THEN ts.mac ELSE who # {} /\ (ts.all \/ p.from \in ts.devices)
        mac == IF p.to = Local \/ (p.to = Peer /\ ~p.v6) THEN DIRECT
               ELSE Try(IF p.over = "tcp" THEN MacTCP ELSE MacUDP, "pass", p)
        rules == Sources[engine.source].rules
    IN  First((IF bypass THEN <<REJECT>> ELSE <<>>)
              \o (IF p.to = Peer /\ ts.on THEN <<IF allowed THEN Tailnet ELSE REJECT>> ELSE <<>>)
              \o (IF p.from = Mac THEN <<mac>> ELSE <<>>)
              \o own.before
              \o [i \in DOMAIN rules |-> IF rules[i].when \subseteq Facts(p) THEN Try(rules[i].to, "pass", p) ELSE none]
              \o own.after
              \o (IF Sources[engine.source].match = none THEN <<>> ELSE <<Try(Sources[engine.source].match, "pass", p)>>))

\* What reaches the engine: a machine sends its IPv4 from the address it was
\* given to the router it was given, its IPv6 to the Mac if that offers any.
Origins ==
    LET n == Nets[engine.net]
        Through(m) == {l \in Leases(Documents[engine.doc], n, m) : l.router = n.gateway}
    IN  {[from |-> Mac, v6 |-> v, host |-> 0] : v \in BOOLEAN}
        \cup (UNION {{[from |-> m, v6 |-> FALSE, host |-> l.host] : l \in Through(m)} : m \in Machine})
        \cup (IF n.ipv6 THEN {[from |-> m, v6 |-> TRUE, host |-> 0] : m \in Machine} ELSE {})

Packets == {[from |-> o.from, v6 |-> o.v6, host |-> o.host, over |-> t, to |-> x] :
                o \in Origins, t \in {"tcp", "udp"}, x \in Site \cup {Local, Peer}}

-----------------------------------------------------------------------------
(* Properties.                                                             *)

TypeOK ==
    /\ doc \in DOMAIN Documents /\ source \in DOMAIN Sources /\ net \in DOMAIN Nets
    /\ engine # NoEngine => /\ engine.owner \in {"prepared", "gateway"}
                            /\ engine.doc \in DOMAIN Documents /\ engine.source \in DOMAIN Sources /\ engine.net \in DOMAIN Nets
                            /\ DOMAIN selected = DOMAIN engine.groups
                            /\ \A g \in DOMAIN selected : selected[g] \in ToSet(engine.groups[g])
    /\ guessed \subseteq DOMAIN cache
    /\ switch.at \in {"idle", "apply", "undo"}
    /\ \A k \in DOMAIN left : left[k] \in 0 .. Quota[k]

\* Every packet takes the outlet that its sender's registration promises, from
\* whatever address DHCP gave the sender: the bypass, the Tailnet and the Mac
\* first, then the device's own rules with all their combinations of
\* conditions, its dedicated outlet, the global rules and the legacy fallback,
\* over IPv6 as over IPv4; a machine without an active registration never gets
\* the rules of another (mihomo/device_policy.go:86-366, device/policy.go:424-429).
\* TypeOK is checked as a part of it.
RoutedAsDocumented ==
    /\ TypeOK
    /\ engine.owner = "gateway" =>
        \A p \in Packets : Route(engine.rules, selected, p) = Expected(p)

\* The selectors the document gives to devices, with their candidates.
Configured == DeviceGroups(Compile(Documents[engine.doc], Unresolved, Nets[engine.net]))

\* Choices that still are candidates.
ChosenHere(all) == {g \in DOMAIN cache \cap DOMAIN all : cache[g] \in ToSet(all[g])}

\* What a start could know: nothing is asked for selectors that lack nothing.
Told(g, all) ==
    \/ ToSet(all[g]) \subseteq Builtin \cup engine.res.targets
    \/ g \notin guessed /\ g \in DOMAIN engine.res.selections

\* A device never gets another outlet than the one somebody chose for it: when
\* that has gone the selector is left out and the global rules apply, it is not
\* replaced by the next candidate (resolution.go:66-102).
EgressIsChosen ==
    engine.owner = "gateway" =>
        LET all == Configured
        IN  \A g \in {x \in ChosenHere(all) : Told(x, all)} :
                IF g \in DOMAIN selected THEN selected[g] = cache[g]
                ELSE cache[g] \notin Builtin \cup engine.res.targets

\* A request for a mode ends with the mode or with the Mac's three groups as
\* they were, whatever call fails, an engine that is stopped, another choice
\* made meanwhile; a lost reply or a failed undo aside (local_routing.go:200-224).
SwitchAllOrNothing ==
    [][(switch # Idle /\ switch' = Idle /\ ~switch.faults /\ engine = switch.on)
        => \/ switch.todo = <<>> /\ Mode(selected) = switch.mode
           \/ \A g \in DOMAIN switch.before : selected[g] = switch.before[g]]_vars
=============================================================================
