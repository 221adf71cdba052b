------------------------------ MODULE PacketPath ------------------------------
(***************************************************************************)
(* The downstream IPv6 packet path: the broker (internal/ipv6packet) and   *)
(* the listener in the patched Mihomo (patches/mihomo/overlay/listener).   *)
(*                                                                         *)
(* The broker reads Ethernet frames, learns which machine an address       *)
(* belongs to, and hands packet and machine to the listener's socket. The  *)
(* listener learns the same from the messages, injects the packet into its *)
(* TCP/IP stack and names a new session after the machine's device. What   *)
(* the stack answers goes back through the broker, which addresses it with *)
(* its own table. Both tables keep the first machine of an address and     *)
(* forget nothing while their process lives; the processes live and die    *)
(* separately. A session stands for all connections from one address.      *)
(***************************************************************************)
EXTENDS Naturals, Sequences

CONSTANTS
    Machine,   \* MAC addresses of the LAN, the Mac's own aside
    Gateway,   \* the Mac's own MAC address
    Address,   \* IPv6 addresses of the downstream prefix
    Foreign,   \* an address outside of it
    None,      \* no machine, no user, no session
    Policy,    \* rendered configurations of the listener
    UserOf,    \* the device-users of each: the user of a machine, or None
    Room       \* datagrams a socket's buffer holds

ASSUME PacketPathAssumption ==
    /\ None \notin Machine \cup Address /\ Gateway \notin Machine
    /\ Foreign \notin Address
    /\ Room \in Nat

VARIABLES
    phase,       \* the gateway manager: "off", "starting", "on", "stopping"
    policy,      \* the configuration of the engine that runs or ran last
    engine,      \* the engine with its listener runs
    identities,  \* identityTable.byIPv6
    peer,        \* packetTun.peer is set
    sessions,    \* of the stack, by the address they come from
    inbound,     \* datagrams in the listener's socket
    broker,      \* the broker runs
    neighbors,   \* neighborTable.byIPv6
    outbound     \* datagrams in the broker's socket

listener == <<engine, identities, peer, sessions, inbound>>
brokerVars == <<broker, neighbors, outbound>>
packetVars == <<phase, policy, listener, brokerVars>>

-----------------------------------------------------------------------------
Nobody == [a \in Address |-> None]
Hello == [type |-> "hello"]
Inbound(a, m) == [type |-> "inbound", src |-> a, mac |-> m]
\* The machine whose session is answered is the model's, not the message's.
Outbound(a, m) == [dst |-> a, opener |-> m]

PacketInit ==
    /\ phase = "off" /\ policy \in Policy
    /\ engine = FALSE /\ identities = Nobody /\ peer = FALSE
    /\ sessions = Nobody /\ inbound = << >>
    /\ broker = FALSE /\ neighbors = Nobody /\ outbound = << >>

\* A frame of the downstream interface, as far as parseInboundFrame looks.
Frame == [from : Machine \cup {Gateway}, to : {"gateway", "other"},
          src : Address \cup {Foreign}, dst : {"off link", "on link"}]

\* Only what a client of the downstream prefix sends through the Mac.
Accepted(f) ==
    /\ f.to = "gateway" /\ f.from # Gateway
    /\ f.src \in Address /\ f.dst = "off link"

\* Mutant: the newest machine takes an address over.
LastWins(table, a, m) == TRUE

\* Observe: the first machine keeps an address.
Observes(table, a, m) == table[a] \in {None, m}

\* A datagram for a full buffer, or for a socket nobody has, is lost.
Sent(queue, bound, message) ==
    IF bound /\ Len(queue) < Room THEN Append(queue, message) ELSE queue

\* Mutant: the sessions of the stack outlive the listener.
StackKept == identities' = Nobody /\ peer' = FALSE /\ inbound' = << >> /\ UNCHANGED sessions

\* What ends with the engine's process.
EngineGone ==
    identities' = Nobody /\ peer' = FALSE /\ sessions' = Nobody /\ inbound' = << >>

BrokerGone == broker' = FALSE /\ neighbors' = Nobody /\ outbound' = << >>

-----------------------------------------------------------------------------
(* Packets.                                                                *)

\* readInbound of the broker.
ReadFrame ==
    /\ broker
    /\ \E f \in {g \in Frame : Accepted(g)} :
          /\ Observes(neighbors, f.src, f.from)
          /\ neighbors' = [neighbors EXCEPT ![f.src] = f.from]
          /\ inbound' = Sent(inbound, engine, Inbound(f.src, f.from))
    /\ UNCHANGED <<phase, policy, engine, identities, peer, sessions, broker, outbound>>

\* readLoop of the listener; the stack meets an address it has no session
\* with, or passes the packet to the session it has.
ReadMessage ==
    /\ engine /\ inbound # << >>
    /\ inbound' = Tail(inbound) /\ peer' = TRUE
    /\ LET message == Head(inbound)
       IN  IF message.type = "inbound" /\ Observes(identities, message.src, message.mac)
           THEN /\ identities' = [identities EXCEPT ![message.src] = message.mac]
                /\ sessions' = IF sessions[message.src] # None THEN sessions
                               ELSE [sessions EXCEPT ![message.src] =
                                        [open |-> FALSE, opener |-> message.mac, user |-> None]]
           ELSE UNCHANGED <<identities, sessions>>
    /\ UNCHANGED <<phase, policy, engine, brokerVars>>

\* identityTable.User: a machine nobody has registered is nobody's device.
User(a) == IF identities[a] = None THEN None ELSE UserOf[policy][identities[a]]

\* NewConnection and NewPacket, some time after the packet was injected.
Accept(a) ==
    /\ engine /\ sessions[a] # None /\ ~sessions[a].open
    /\ sessions' = [sessions EXCEPT ![a] = [@ EXCEPT !.open = TRUE, !.user = User(a)]]
    /\ UNCHANGED <<phase, policy, engine, identities, peer, inbound, brokerVars>>

Finish(a) ==
    /\ engine /\ sessions[a] # None
    /\ sessions' = [sessions EXCEPT ![a] = None]
    /\ UNCHANGED <<phase, policy, engine, identities, peer, inbound, brokerVars>>

\* sendPacket: what a session answers; there is no peer before the first datagram.
Answer(a) ==
    /\ engine /\ peer /\ sessions[a] # None
    /\ outbound' = Sent(outbound, broker, Outbound(a, sessions[a].opener))
    /\ UNCHANGED <<phase, policy, listener, broker, neighbors>>

\* readOutbound of the broker: to the machine its table names, if any.
WriteFrame ==
    /\ broker /\ outbound # << >>
    /\ outbound' = Tail(outbound)
    /\ UNCHANGED <<phase, policy, listener, broker, neighbors>>

-----------------------------------------------------------------------------
(* Processes.                                                              *)

\* A gateway start: the engine first, with the policy of the day.
StartEngine(p) ==
    /\ phase = "off"
    /\ phase' = "starting" /\ policy' = p /\ engine' = TRUE
    /\ UNCHANGED <<identities, peer, sessions, inbound, brokerVars>>

\* Mutant: a broker that died is started again beside the engine that runs.
StartBrokerAlone ==
    /\ phase \in {"starting", "on"} /\ engine /\ ~broker
    /\ phase' = "on" /\ broker' = TRUE
    /\ inbound' = Sent(inbound, engine, Hello)
    /\ UNCHANGED <<policy, engine, identities, peer, sessions, neighbors, outbound>>

\* The broker is ready when the listener's socket has taken its hello.
StartBroker ==
    /\ phase = "starting" /\ engine /\ ~broker
    /\ phase' = "on" /\ broker' = TRUE
    /\ inbound' = Sent(inbound, engine, Hello)
    /\ UNCHANGED <<policy, engine, identities, peer, sessions, neighbors, outbound>>

\* A stop, or the rollback of a failed start.
BeginStop ==
    /\ phase \in {"starting", "on"}
    /\ phase' = "stopping"
    /\ UNCHANGED <<policy, listener, brokerVars>>

\* cleanupIPv6. A stop that fails leaves the process, and the clean-up goes on.
StopBroker ==
    /\ phase = "stopping" /\ broker
    /\ BrokerGone
    /\ UNCHANGED <<phase, policy, listener>>

StopEngine ==
    /\ phase = "stopping" /\ engine
    /\ engine' = FALSE /\ EngineGone
    /\ UNCHANGED <<phase, policy, brokerVars>>

\* Only when both are gone is the state file removed.
Stopped ==
    /\ phase = "stopping" /\ ~engine /\ ~broker
    /\ phase' = "off"
    /\ UNCHANGED <<policy, listener, brokerVars>>

\* The engine dies, or restart-mihomo stops it: the broker goes on.
EngineEnds ==
    /\ phase # "stopping" /\ engine
    /\ engine' = FALSE /\ EngineGone
    /\ UNCHANGED <<phase, policy, brokerVars>>

\* restart-mihomo, by hand or by the watchdog: the rendered configuration again.
RestartEngine ==
    /\ phase = "on" /\ ~engine
    /\ engine' = TRUE
    /\ UNCHANGED <<phase, policy, identities, peer, sessions, inbound, brokerVars>>

\* Nothing starts a broker again but a gateway start.
BrokerDies ==
    /\ phase # "stopping" /\ broker
    /\ BrokerGone
    /\ UNCHANGED <<phase, policy, listener>>

Packets ==
    \/ ReadFrame \/ ReadMessage \/ WriteFrame
    \/ \E a \in Address : Accept(a) \/ Finish(a) \/ Answer(a)

Processes ==
    \/ StartBroker \/ BeginStop \/ StopBroker \/ StopEngine \/ Stopped
    \/ EngineEnds \/ RestartEngine \/ BrokerDies

PacketNext == Packets \/ Processes \/ \E p \in Policy : StartEngine(p)
PacketSpec == PacketInit /\ [][PacketNext]_packetVars

-----------------------------------------------------------------------------
Users == {UserOf[p][m] : p \in Policy, m \in Machine} \cup {None}
Session == [open : BOOLEAN, opener : Machine, user : Users]

PacketTypeOK ==
    /\ phase \in {"off", "starting", "on", "stopping"} /\ policy \in Policy
    /\ engine \in BOOLEAN /\ peer \in BOOLEAN /\ broker \in BOOLEAN
    /\ identities \in [Address -> Machine \cup {None}]
    /\ neighbors \in [Address -> Machine \cup {None}]
    /\ sessions \in [Address -> Session \cup {None}]
    /\ inbound \in Seq({Hello} \cup {Inbound(a, m) : a \in Address, m \in Machine})
    /\ outbound \in Seq({Outbound(a, m) : a \in Address, m \in Machine})

\* A session's user is the device of the machine whose packet opened it, by
\* the policy the engine was started with: routing by device and the owner of
\* a connection rest on it (downstream-ipv6-takeover.md:49-51). The user is looked
\* up when the stack gets to it, by address alone (server.go:164-182), while
\* other machines send from the same address and the policy is replaced.
UserIsOpener ==
    \A a \in Address :
        (sessions[a] # None /\ sessions[a].open) =>
            sessions[a].user = UserOf[policy][sessions[a].opener]

\* What a session answers goes to no other machine than the one that opened
\* it, although the broker addresses it with a table of its own and its
\* process and the listener's do not start and end together (broker.go:226).
RepliesReturn ==
    \A i \in DOMAIN outbound :
        neighbors[outbound[i].dst] \in {None, outbound[i].opener}
=============================================================================
