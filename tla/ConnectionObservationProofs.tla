--------------------- MODULE ConnectionObservationProofs ---------------------
(***************************************************************************)
(* Proofs about ConnectionObservation and the packet path below it, for    *)
(* every number of machines, addresses, policies and datagrams a socket    *)
(* holds, and for every bound on disturbances.                             *)
(*                                                                         *)
(* That a session keeps its user and an answer its machine follows from    *)
(* the order in which tables come and go: neither table changes an entry,  *)
(* the broker's is ahead of the listener's, and a broker only ever meets   *)
(* an engine that has learned nothing from an earlier one.                 *)
(***************************************************************************)
EXTENDS ConnectionObservation, TLAPS

-----------------------------------------------------------------------------
(* Queues.                                                                 *)

\* What is in a socket after a datagram was sent was there before or is that
\* datagram, whether it fitted or not.
LEMMA SentMembers ==
    ASSUME NEW S, NEW queue \in Seq(S), NEW bound, NEW message \in S
    PROVE  /\ Sent(queue, bound, message) \in Seq(S)
           /\ \A i \in DOMAIN Sent(queue, bound, message) :
                 \/ Sent(queue, bound, message)[i] = message
                 \/ i \in DOMAIN queue /\ Sent(queue, bound, message)[i] = queue[i]
<1>1. CASE bound /\ Len(queue) < Room
  BY <1>1 DEF Sent
<1>2. CASE ~(bound /\ Len(queue) < Room)
  BY <1>2 DEF Sent
<1>3. QED
  BY <1>1, <1>2

\* Taking the first datagram leaves the others.
LEMMA TailMembers ==
    ASSUME NEW S, NEW queue \in Seq(S), queue # << >>
    PROVE  /\ Tail(queue) \in Seq(S)
           /\ Head(queue) \in S /\ 1 \in DOMAIN queue /\ Head(queue) = queue[1]
           /\ \A i \in DOMAIN Tail(queue) : i + 1 \in DOMAIN queue /\ Tail(queue)[i] = queue[i + 1]
OBVIOUS

-----------------------------------------------------------------------------
(* The packet path.                                                        *)

Messages == {Hello} \cup {Inbound(a, m) : a \in Address, m \in Machine}
Answers == {Outbound(a, m) : a \in Address, m \in Machine}

\* A process that has gone leaves nothing, and a start begins with nothing.
Ended ==
    /\ ~engine => identities = Nobody /\ sessions = Nobody /\ inbound = << >>
    /\ ~broker => neighbors = Nobody /\ outbound = << >>
    /\ phase = "off" => ~engine /\ ~broker
    /\ phase = "starting" =>
          ~broker /\ identities = Nobody /\ sessions = Nobody /\ inbound = << >>

\* What the listener knows, or will learn, the broker that runs knows too.
Ahead ==
    broker =>
        /\ \A a \in Address : identities[a] # None => neighbors[a] = identities[a]
        /\ \A i \in DOMAIN inbound :
              inbound[i].type = "inbound" => neighbors[inbound[i].src] = inbound[i].mac

\* A session belongs to the machine its address is known by.
Named ==
    \A a \in Address : sessions[a] # None =>
        /\ sessions[a].opener = identities[a]
        /\ sessions[a].open => sessions[a].user = UserOf[policy][sessions[a].opener]

Addressed ==
    \A i \in DOMAIN outbound : neighbors[outbound[i].dst] = outbound[i].opener

PacketInv == PacketTypeOK /\ Ended /\ Ahead /\ Named /\ Addressed

LEMMA PacketStart == Init => PacketInv
<1> SUFFICES ASSUME Init PROVE PacketInv
  OBVIOUS
<1> USE PacketPathAssumption
<1>1. PacketTypeOK
  BY DEF Init, PacketTypeOK, Nobody
<1>2. QED
  BY <1>1 DEF Init, PacketInv, Ended, Ahead, Named, Addressed, Nobody

\* Frames and messages: the tables only grow, and the broker's first.
LEMMA PacketsStep == PacketInv /\ Packets => PacketInv'
<1> SUFFICES ASSUME PacketInv, Packets PROVE PacketInv'
  OBVIOUS
<1> USE PacketPathAssumption DEF PacketInv
<1>1. CASE ReadFrame
  <2>1. PICK f \in Frame : /\ Accepted(f) /\ Observes(neighbors, f.src, f.from)
                           /\ neighbors' = [neighbors EXCEPT ![f.src] = f.from]
                           /\ inbound' = Sent(inbound, engine, Inbound(f.src, f.from))
    BY <1>1 DEF ReadFrame
  <2>2. f.src \in Address /\ f.from \in Machine
    BY <2>1 DEF Accepted, Frame
  <2>3. Inbound(f.src, f.from) \in Messages /\ inbound \in Seq(Messages)
    BY <2>2 DEF Messages, PacketTypeOK
  <2>4. /\ inbound' \in Seq(Messages)
        /\ \A i \in DOMAIN inbound' : \/ inbound'[i] = Inbound(f.src, f.from)
                                      \/ i \in DOMAIN inbound /\ inbound'[i] = inbound[i]
    BY <2>1, <2>3, SentMembers
  <2>5. PacketTypeOK'
    <3>1. neighbors' \in [Address -> Machine \cup {None}]
      BY <2>1, <2>2 DEF PacketTypeOK
    <3>2. QED
      BY <1>1, <2>4, <3>1 DEF ReadFrame, PacketTypeOK, Messages
  <2>6. ~engine => inbound' = inbound
    BY <2>1 DEF Sent
  <2>7. Ended'
    BY <1>1, <2>6 DEF ReadFrame, Ended
  <2>8. \A a \in Address : neighbors[a] # None => neighbors'[a] = neighbors[a]
    BY <2>1, <2>2 DEF Observes, PacketTypeOK
  <2>9. Ahead'
    <3>1. ASSUME NEW a \in Address, identities'[a] # None
          PROVE neighbors'[a] = identities'[a]
      BY <1>1, <2>8, <3>1 DEF ReadFrame, Ahead
    <3>2. ASSUME NEW i \in DOMAIN inbound', inbound'[i].type = "inbound"
          PROVE neighbors'[inbound'[i].src] = inbound'[i].mac
      <4>1. CASE inbound'[i] = Inbound(f.src, f.from)
        BY <2>1, <2>2, <4>1 DEF Inbound, PacketTypeOK
      <4>2. CASE i \in DOMAIN inbound /\ inbound'[i] = inbound[i]
        <5>1. inbound[i] \in Messages /\ inbound[i].type = "inbound"
          BY <2>3, <3>2, <4>2
        <5>2. inbound[i].src \in Address /\ inbound[i].mac \in Machine
          BY <5>1 DEF Messages, Hello, Inbound
        <5>3. neighbors[inbound[i].src] = inbound[i].mac
          BY <1>1, <4>2, <5>1 DEF ReadFrame, Ahead
        <5>4. QED
          BY <2>8, <4>2, <5>2, <5>3
      <4>3. QED
        BY <2>4, <4>1, <4>2
    <3>3. QED
      BY <3>1, <3>2 DEF Ahead
  <2>10. Named'
    BY <1>1 DEF ReadFrame, Named
  <2>11. Addressed'
    <3>1. ASSUME NEW i \in DOMAIN outbound
          PROVE neighbors'[outbound[i].dst] = outbound[i].opener
      <4>1. outbound[i].dst \in Address /\ outbound[i].opener \in Machine
        BY DEF PacketTypeOK, Outbound
      <4>2. QED
        BY <2>8, <4>1 DEF Addressed
    <3>2. QED
      BY <1>1, <3>1 DEF ReadFrame, Addressed
  <2>12. QED
    BY <2>5, <2>7, <2>9, <2>10, <2>11
<1>2. CASE ReadMessage
  <2>1. inbound \in Seq(Messages) /\ inbound # << >>
    BY <1>2 DEF ReadMessage, brokerVars, PacketTypeOK, Messages
  <2>2. /\ inbound' = Tail(inbound) /\ Tail(inbound) \in Seq(Messages)
        /\ Head(inbound) \in Messages /\ 1 \in DOMAIN inbound /\ Head(inbound) = inbound[1]
        /\ \A i \in DOMAIN Tail(inbound) : i + 1 \in DOMAIN inbound /\ Tail(inbound)[i] = inbound[i + 1]
    BY <1>2, <2>1, TailMembers DEF ReadMessage
  <2>3. engine /\ phase # "starting" /\ phase # "off"
    BY <1>2 DEF ReadMessage, Ended
  <2>4. \A i \in DOMAIN inbound' : broker /\ inbound'[i].type = "inbound" =>
                                     neighbors[inbound'[i].src] = inbound'[i].mac
    BY <2>2 DEF Ahead
  <2>5. CASE Head(inbound).type = "inbound" /\ Observes(identities, Head(inbound).src, Head(inbound).mac)
    <3> DEFINE a == Head(inbound).src
    <3> DEFINE m == Head(inbound).mac
    <3>1. a \in Address /\ m \in Machine
      BY <2>2, <2>5 DEF Messages, Hello, Inbound
    <3>2. /\ identities' = [identities EXCEPT ![a] = m]
          /\ sessions' = IF sessions[a] # None THEN sessions
                         ELSE [sessions EXCEPT ![a] = [open |-> FALSE, opener |-> m, user |-> None]]
          /\ identities[a] \in {None, m}
      BY <1>2, <2>5 DEF ReadMessage, Observes
    <3>3. [open |-> FALSE, opener |-> m, user |-> None] \in Session
      BY <3>1 DEF Session, Users
    <3> HIDE DEF a, m
    <3>4. PacketTypeOK'
      BY <1>2, <2>2, <3>1, <3>2, <3>3 DEF ReadMessage, brokerVars, PacketTypeOK, Messages
    <3>5. Ended'
      BY <1>2, <2>3 DEF ReadMessage, brokerVars, Ended
    <3>6. \A b \in Address : identities'[b] = IF b = a THEN m ELSE identities[b]
      BY <3>1, <3>2 DEF PacketTypeOK
    <3>7. broker => neighbors[a] = m
      BY <2>2, <2>5 DEF Ahead, a, m
    <3>8. Ahead'
      BY <1>2, <2>4, <3>6, <3>7 DEF ReadMessage, brokerVars, Ahead
    <3>9. Named'
      <4> SUFFICES ASSUME NEW b \in Address, sessions'[b] # None
                   PROVE /\ sessions'[b].opener = identities'[b]
                         /\ sessions'[b].open => sessions'[b].user = UserOf[policy][sessions'[b].opener]
        BY <1>2 DEF ReadMessage, Named
      <4>1. CASE b = a /\ sessions[a] = None
        BY <3>1, <3>2, <3>6, <4>1 DEF PacketTypeOK
      <4>2. CASE b # a \/ sessions[a] # None
        <5>1. sessions'[b] = sessions[b]
          BY <3>1, <3>2, <4>2 DEF PacketTypeOK
        <5>2. sessions[b].opener = identities[b] /\ sessions[b].opener \in Machine
          BY <5>1 DEF Named, PacketTypeOK, Session
        <5>3. identities'[b] = identities[b]
          BY <3>2, <3>6, <5>2
        <5>4. QED
          BY <5>1, <5>3 DEF Named
      <4>3. QED
        BY <4>1, <4>2
    <3>10. QED
      BY <1>2, <3>4, <3>5, <3>8, <3>9 DEF ReadMessage, brokerVars, Addressed
  <2>6. CASE ~(Head(inbound).type = "inbound" /\ Observes(identities, Head(inbound).src, Head(inbound).mac))
    <3>1. identities' = identities /\ sessions' = sessions
      BY <1>2, <2>6 DEF ReadMessage
    <3>2. PacketTypeOK'
      BY <1>2, <2>2, <3>1 DEF ReadMessage, brokerVars, PacketTypeOK, Messages
    <3>3. Ended'
      BY <1>2, <2>3 DEF ReadMessage, brokerVars, Ended
    <3>4. QED
      BY <1>2, <2>4, <3>1, <3>2, <3>3 DEF ReadMessage, brokerVars, Ahead, Named, Addressed
  <2>7. QED
    BY <2>5, <2>6
<1>3. CASE WriteFrame
  <2>1. outbound \in Seq(Answers) /\ outbound # << >>
    BY <1>3 DEF WriteFrame, PacketTypeOK, Answers
  <2>2. /\ outbound' = Tail(outbound) /\ Tail(outbound) \in Seq(Answers)
        /\ \A i \in DOMAIN Tail(outbound) : i + 1 \in DOMAIN outbound /\ Tail(outbound)[i] = outbound[i + 1]
    BY <1>3, <2>1, TailMembers DEF WriteFrame
  <2>3. PacketTypeOK'
    BY <1>3, <2>2 DEF WriteFrame, listener, PacketTypeOK, Answers
  <2>4. QED
    BY <1>3, <2>2, <2>3 DEF WriteFrame, listener, Ended, Ahead, Named, Addressed
<1>4. CASE \E a \in Address : Accept(a)
  <2>1. PICK a \in Address : Accept(a)
    BY <1>4
  <2>2. /\ engine /\ sessions[a] # None /\ sessions[a] \in Session
        /\ sessions' = [sessions EXCEPT ![a] = [sessions[a] EXCEPT !.open = TRUE, !.user = User(a)]]
    BY <2>1 DEF Accept, PacketTypeOK
  <2>3. identities[a] = sessions[a].opener /\ sessions[a].opener \in Machine
    BY <2>2 DEF Named, Session
  <2>4. User(a) = UserOf[policy][sessions[a].opener]
    BY <2>3 DEF User
  <2>5. [sessions[a] EXCEPT !.open = TRUE, !.user = User(a)] \in Session
    <3>1. UserOf[policy][sessions[a].opener] \in Users
      BY <2>3 DEF Users, PacketTypeOK
    <3>2. QED
      BY <2>2, <2>4, <3>1 DEF Session
  <2>6. PacketTypeOK'
    BY <2>1, <2>2, <2>5 DEF Accept, brokerVars, PacketTypeOK
  <2>7. Named'
    BY <2>1, <2>2, <2>3, <2>4 DEF Accept, Named, PacketTypeOK, Session
  <2>8. Ended'
    BY <2>1, <2>2 DEF Accept, brokerVars, Ended, Nobody
  <2>9. QED
    BY <2>1, <2>6, <2>7, <2>8 DEF Accept, brokerVars, Ahead, Addressed
<1>5. CASE \E a \in Address : Finish(a)
  <2>1. PICK a \in Address : Finish(a)
    BY <1>5
  <2>2. PacketTypeOK'
    BY <2>1 DEF Finish, brokerVars, PacketTypeOK
  <2>3. Named'
    BY <2>1 DEF Finish, Named, PacketTypeOK
  <2>4. Ended'
    BY <2>1 DEF Finish, brokerVars, Ended, Nobody
  <2>5. QED
    BY <2>1, <2>2, <2>3, <2>4 DEF Finish, brokerVars, Ahead, Addressed
<1>6. CASE \E a \in Address : Answer(a)
  <2>1. PICK a \in Address : Answer(a)
    BY <1>6
  <2>2. sessions[a] # None /\ sessions[a] \in Session
    BY <2>1 DEF Answer, PacketTypeOK
  <2>3. identities[a] = sessions[a].opener /\ sessions[a].opener \in Machine
    BY <2>2 DEF Named, Session
  <2>4. Outbound(a, sessions[a].opener) \in Answers /\ outbound \in Seq(Answers)
    BY <2>3 DEF Answers, PacketTypeOK
  <2>5. /\ outbound' \in Seq(Answers)
        /\ \A i \in DOMAIN outbound' : \/ outbound'[i] = Outbound(a, sessions[a].opener)
                                       \/ i \in DOMAIN outbound /\ outbound'[i] = outbound[i]
    BY <2>1, <2>4, SentMembers DEF Answer
  <2>6. PacketTypeOK'
    BY <2>1, <2>5 DEF Answer, listener, PacketTypeOK, Answers
  <2>7. ~broker => outbound' = outbound
    BY <2>1 DEF Answer, Sent
  <2>8. Addressed'
    <3>1. CASE broker
      <4>1. neighbors[a] = sessions[a].opener
        BY <2>3, <3>1 DEF Ahead
      <4>2. QED
        BY <2>1, <2>5, <4>1 DEF Answer, Addressed, Outbound
    <3>2. CASE ~broker
      BY <2>1, <2>7, <3>2 DEF Answer, Addressed
    <3>3. QED
      BY <3>1, <3>2
  <2>9. Ended'
    BY <2>1, <2>7 DEF Answer, listener, Ended
  <2>10. QED
    BY <2>1, <2>6, <2>8, <2>9 DEF Answer, listener, Ahead, Named
<1>7. QED
  BY <1>1, <1>2, <1>3, <1>4, <1>5, <1>6 DEF Packets

\* Processes come and go, with the tables they hold.
LEMMA ProcessesStep ==
    PacketInv /\ (Processes \/ \E p \in Policy : StartEngine(p)) => PacketInv'
<1> SUFFICES ASSUME PacketInv, Processes \/ \E p \in Policy : StartEngine(p) PROVE PacketInv'
  OBVIOUS
<1> USE PacketPathAssumption DEF PacketInv
<1>1. CASE \E p \in Policy : StartEngine(p)
  BY <1>1 DEF StartEngine, brokerVars, PacketTypeOK, Ended, Ahead, Named, Addressed, Nobody
<1>2. CASE StartBroker
  <2>1. Hello \in Messages /\ inbound \in Seq(Messages)
    BY DEF Messages, PacketTypeOK
  <2>2. /\ inbound' \in Seq(Messages)
        /\ \A i \in DOMAIN inbound' : inbound'[i] = Hello \/ (i \in DOMAIN inbound /\ inbound'[i] = inbound[i])
    <3>1. inbound' = Sent(inbound, engine, Hello)
      BY <1>2 DEF StartBroker
    <3>2. QED
      BY <2>1, <3>1, SentMembers
  <2>3. inbound = << >> /\ identities = Nobody /\ sessions = Nobody /\ outbound = << >>
    BY <1>2 DEF StartBroker, Ended
  <2>4. /\ phase' = "on" /\ broker' \in BOOLEAN /\ broker'
        /\ UNCHANGED <<policy, engine, identities, peer, sessions, neighbors, outbound>> /\ engine
    BY <1>2 DEF StartBroker
  <2>5. PacketTypeOK'
    BY <2>2, <2>4 DEF PacketTypeOK, Messages
  <2>6. \A i \in DOMAIN inbound' : inbound'[i].type # "inbound"
    BY <2>2, <2>3 DEF Hello
  <2>7. Ahead'
    BY <2>3, <2>4, <2>6 DEF Ahead, Nobody
  <2>8. QED
    BY <2>3, <2>4, <2>5, <2>7 DEF Ended, Named, Addressed
<1>3. CASE BeginStop
  BY <1>3 DEF BeginStop, listener, brokerVars, PacketTypeOK, Ended, Ahead, Named, Addressed
<1>4. CASE StopBroker \/ BrokerDies
  <2>1. /\ ~broker' /\ neighbors' = Nobody /\ outbound' = << >> /\ broker' \in BOOLEAN
        /\ UNCHANGED <<phase, policy, listener>> /\ phase # "starting"
    BY <1>4 DEF StopBroker, BrokerDies, BrokerGone, Ended
  <2>2. PacketTypeOK'
    BY <2>1 DEF listener, PacketTypeOK, Nobody
  <2>3. QED
    BY <2>1, <2>2 DEF listener, Ended, Ahead, Named, Addressed
<1>5. CASE StopEngine \/ EngineEnds
  <2>1. /\ ~engine' /\ engine' \in BOOLEAN /\ identities' = Nobody /\ peer' = FALSE
        /\ sessions' = Nobody /\ inbound' = << >> /\ peer' \in BOOLEAN
        /\ UNCHANGED <<phase, policy, broker, neighbors, outbound>>
    BY <1>5 DEF StopEngine, EngineEnds, EngineGone, brokerVars
  <2>2. sessions' \in [Address -> Session \cup {None}] /\ identities' \in [Address -> Machine \cup {None}]
    BY <2>1 DEF Nobody
  <2>3. inbound' \in Seq({Hello} \cup {Inbound(a, m) : a \in Address, m \in Machine})
    BY <2>1
  <2>4. PacketTypeOK'
    BY <2>1, <2>2, <2>3 DEF PacketTypeOK
  <2>5. QED
    BY <2>1, <2>4 DEF Ended, Ahead, Named, Addressed, Nobody
<1>6. CASE Stopped
  BY <1>6 DEF Stopped, listener, brokerVars, PacketTypeOK, Ended, Ahead, Named, Addressed
<1>7. CASE RestartEngine
  BY <1>7 DEF RestartEngine, brokerVars, PacketTypeOK, Ended, Ahead, Named, Addressed
<1>8. QED
  BY <1>1, <1>2, <1>3, <1>4, <1>5, <1>6, <1>7 DEF Processes

LEMMA PacketStutter == PacketInv /\ UNCHANGED packetVars => PacketInv'
  BY DEF packetVars, listener, brokerVars, PacketInv, PacketTypeOK, Ended, Ahead, Named, Addressed

\* A refresh takes a session away.
LEMMA CloseStep == PacketInv /\ CloseOne => PacketInv'
<1> SUFFICES ASSUME PacketInv, CloseOne PROVE PacketInv'
  OBVIOUS
<1> USE DEF PacketInv
<1>1. PICK i : sessions' \in {sessions, [sessions EXCEPT ![i] = None]}
  BY DEF CloseOne
<1>2. /\ sessions' \in [Address -> Session \cup {None}]
      /\ \A a \in Address : sessions'[a] \in {sessions[a], None}
  BY <1>1 DEF PacketTypeOK
<1>3. sessions = Nobody => sessions' = Nobody
  BY <1>1, <1>2 DEF Nobody
<1>4. QED
  BY <1>2, <1>3 DEF CloseOne, brokerVars, PacketTypeOK, Ended, Ahead, Named, Addressed

Inv == PacketInv /\ desired \in Policy

LEMMA PacketInvariant == Spec => []Inv
<1>1. Init => Inv
  BY PacketStart DEF Init, Inv
<1>2. ASSUME Inv, [Next]_vars PROVE Inv'
  <2>1. desired' \in Policy
    BY <1>2 DEF Inv, Next, vars, obsVars, files, Begin, Fetch, FetchFails, Identify, Join, AskDevice, Ask, Match, CloseOne,
         CloseFails, Refreshed, Edit, Lease, Open, Move, Close, Start, Recorded, Restart, Down, Sends, Unseen
  <2>2. CASE CloseOne
    BY <1>2, <2>1, <2>2, CloseStep DEF Inv
  <2>3. CASE Start \/ Recorded \/ Restart \/ Down \/ Sends \/ Unseen
    <3>1. Packets \/ Processes \/ \E p \in Policy : StartEngine(p)
      BY <1>2, <2>3 DEF Inv, Start, Recorded, Restart, Down, Sends, Unseen, Packets, Processes
    <3>2. QED
      BY <1>2, <2>1, <3>1, PacketsStep, ProcessesStep DEF Inv
  <2>4. CASE UNCHANGED packetVars
    BY <1>2, <2>1, <2>4, PacketStutter DEF Inv
  <2>5. QED
    BY <1>2, <2>2, <2>3, <2>4 DEF Next, vars, Begin, Fetch, FetchFails, Identify, Join, AskDevice, Ask,
         Match, CloseFails, Refreshed, Edit, Lease, Open, Move, Close
<1>3. QED
  BY <1>1, <1>2, PTL DEF Spec

\* Whatever starts, dies and is stopped, and whichever machine sends from which
\* address, a session over IPv6 goes by the rules, and counts for the device,
\* of the machine that opened it (Listener.NewConnection, server.go:164-182).
THEOREM SessionsKeepTheirMachine == Spec => []UserIsOpener
<1>1. Inv => UserIsOpener
  BY DEF Inv, PacketInv, Named, UserIsOpener
<1>2. QED
  BY <1>1, PacketInvariant, PTL

\* No answer is sent to another machine than the one whose session it is of,
\* though broker and listener learn and forget apart (broker.go:226).
THEOREM AnswersFindTheirMachine == Spec => []RepliesReturn
<1>1. Inv => RepliesReturn
  BY DEF Inv, PacketInv, Addressed, RepliesReturn
<1>2. QED
  BY <1>1, PacketInvariant, PTL

-----------------------------------------------------------------------------
(* Answers that may be served.                                             *)

Versions == [{"config", "state", "leases"} -> Nat]

NoLater(key) ==
    key \in Versions /\ key["config"] <= version["config"] /\ key["leases"] <= version["leases"]

ObsShape ==
    obs = [at |-> obs.at, key |-> obs.key, leases |-> obs.leases, snap |-> obs.snap,
           failed |-> obs.failed, tun |-> obs.tun]

\* Each part of an observation is of the version its key names, or of a later
\* one: then the file has changed since and the key never returns.
Dated ==
    /\ version \in Versions /\ ObsShape
    /\ obs.at # "idle" =>
          /\ NoLater(obs.key)
          /\ obs.key["leases"] = version["leases"] => obs.leases = leases
    /\ cache.key # None =>
          /\ NoLater(cache.key)
          /\ cache.key["leases"] = version["leases"] => cache.leases = leases
          /\ cache.key["config"] = version["config"] => cache.policy = desired

LEMMA DatedInvariant == Spec => []Dated
<1>1. Init => Dated
  BY DEF Init, Dated, Versions, ObsShape, NoObs, NoCache
<1>2. ASSUME Dated, [Next]_vars PROVE Dated'
  <2>1. CASE Begin
    <3>1. /\ obs' = [at |-> "fetch", key |-> version, leases |-> leases, snap |-> {},
                     failed |-> FALSE, tun |-> FALSE]
          /\ UNCHANGED <<desired, leases, version, cache>>
      BY <2>1 DEF Begin, NoObs, KeyOf, files
    <3>2. NoLater(version)
      BY <1>2 DEF Dated, Versions, NoLater
    <3>3. QED
      BY <1>2, <3>1, <3>2 DEF Dated, NoLater, ObsShape
  <2>2. CASE Fetch \/ FetchFails \/ Identify
    <3>1. /\ UNCHANGED <<files, cache>>
          /\ ObsShape' /\ obs'.key = obs.key /\ obs'.leases = obs.leases /\ obs.at # "idle"
      BY <1>2, <2>2 DEF Fetch, FetchFails, Identify, Dated, ObsShape
    <3>2. QED
      BY <1>2, <3>1 DEF Dated, NoLater, files
  <2>3. CASE Join
    BY <1>2, <2>3 DEF Join, Dated, NoLater, ObsShape, NoObs, files
  <2>4. CASE Edit
    <3>1. /\ version' = [version EXCEPT !["config"] = @ + 1]
          /\ UNCHANGED <<leases, obs, cache>>
      BY <2>4 DEF Edit, Changed, viewVars
    <3>2. QED
      BY <1>2, <3>1 DEF Dated, Versions, NoLater, ObsShape
  <2>5. CASE Lease
    <3>1. /\ version' = [version EXCEPT !["leases"] = @ + 1]
          /\ UNCHANGED <<desired, obs, cache>>
      BY <2>5 DEF Lease, Changed, viewVars
    <3>2. QED
      BY <1>2, <3>1 DEF Dated, Versions, NoLater, ObsShape
  <2>6. CASE Start \/ Recorded \/ Restart
    <3>1. /\ version' = [version EXCEPT !["state"] = @ + 1]
          /\ UNCHANGED <<desired, leases, obs, cache>>
      BY <2>6 DEF Start, Recorded, Restart, Changed, viewVars
    <3>2. QED
      BY <1>2, <3>1 DEF Dated, Versions, NoLater, ObsShape
  <2>7. CASE UNCHANGED <<files, obs, cache>>
    BY <1>2, <2>7 DEF Dated, NoLater, ObsShape, files
  <2>8. QED
    BY <1>2, <2>1, <2>2, <2>3, <2>4, <2>5, <2>6, <2>7
       DEF Next, vars, obsVars, viewVars, AskDevice, Ask, Match, CloseOne, CloseFails, Refreshed,
           Open, Move, Close, Down, Sends, Unseen
<1>3. QED
  BY <1>1, <1>2, PTL DEF Spec

\* However files change while an observation is made, an answer whose key is
\* that of the files shows the leases and the registrations that are in them
\* (observeConnections, connections.go:51-91).
THEOREM ServedAnswersAreCurrent == Spec => []ServedIsCurrent
<1>1. Dated => ServedIsCurrent
  BY DEF Dated, ServedIsCurrent, Servable, KeyOf
<1>2. QED
  BY <1>1, DatedInvariant, PTL

-----------------------------------------------------------------------------
(* Rates.                                                                  *)

Sampled(c) == ~Downstream(c)

\* The counters of the last sample are not behind what was shown, a snapshot
\* in hand is not behind the last sample, and no counter is ahead of the engine.
Baseline ==
    /\ \A c \in LanConn :
          sampler # None => \/ sampler[c] = None
                            \/ /\ sampler[c] \in Nat
                               /\ shown[c] <= sampler[c] /\ sampler[c] <= moved[c]
    /\ obs.at \in {"identify", "join"} /\ ~obs.failed =>
          \A c \in obs.snap : Sampled(c) =>
             /\ c.id \in LanConn /\ c.bytes \in Nat
             /\ shown[c.id] <= c.bytes /\ c.bytes <= moved[c.id]
             /\ sampler # None => sampler[c.id] = None \/ sampler[c.id] <= c.bytes
             /\ \A d \in obs.snap : Sampled(d) /\ d.id = c.id => d = c

Counted ==
    /\ ObsShape /\ obs.at \in {"idle", "fetch", "identify", "join"}
    /\ obs.at = "fetch" => ~obs.failed
    /\ sampler = None \/ sampler \in [LanConn -> 0 .. MaxBytes \cup {None}]
    /\ moved \in [LanConn -> 0 .. MaxBytes] /\ shown \in [LanConn -> Nat]
    /\ \A c \in LanConn : shown[c] <= moved[c]
    /\ Baseline

LEMMA CountedInvariant == Spec => []Counted
<1> USE ObservationAssumption
<1>1. Init => Counted
  BY DEF Init, Counted, Baseline, ObsShape, NoObs
<1>2. ASSUME Counted, [Next]_vars PROVE Counted'
  <2>1. CASE Begin
    <3>1. /\ obs' = [at |-> "fetch", key |-> KeyOf(version), leases |-> leases, snap |-> {},
                     failed |-> FALSE, tun |-> FALSE]
          /\ UNCHANGED <<moved, sampler, shown>>
      BY <2>1 DEF Begin, NoObs, lanVars
    <3>2. QED
      BY <1>2, <3>1 DEF Counted, Baseline, ObsShape
  <2>2. CASE Fetch
    <3>1. /\ obs'.at = "identify" /\ obs'.snap = Snapshot /\ obs'.failed = obs.failed /\ ObsShape'
          /\ UNCHANGED <<moved, sampler, shown>>
      BY <1>2, <2>2 DEF Fetch, Counted, ObsShape, lanVars
    <3>2. \A c \in Snapshot : Sampled(c) => c.id \in LanConn /\ c.bytes = moved[c.id]
      BY DEF Snapshot, Connection, Sampled, Downstream
    <3>3. \A c, d \in Snapshot : Sampled(c) /\ Sampled(d) /\ c.id = d.id => c = d
      BY DEF Snapshot, Connection, Sampled, Downstream
    <3>4. QED
      BY <1>2, <3>1, <3>2, <3>3 DEF Counted, Baseline
  <2>3. CASE FetchFails
    <3>1. /\ obs'.at = "join" /\ obs'.failed /\ ObsShape' /\ UNCHANGED <<moved, sampler, shown>>
      BY <1>2, <2>3 DEF FetchFails, Counted, ObsShape, lanVars
    <3>2. QED
      BY <1>2, <3>1 DEF Counted, Baseline
  <2>4. CASE Identify
    <3>1. /\ obs.at = "identify" /\ obs'.at = "join" /\ obs'.failed = obs.failed /\ obs'.snap = obs.snap
          /\ ObsShape' /\ UNCHANGED <<moved, sampler, shown>>
      BY <1>2, <2>4 DEF Identify, Counted, ObsShape, lanVars
    <3>2. QED
      BY <1>2, <3>1 DEF Counted, Baseline
  <2>5. CASE Join
    <3>1. obs' = NoObs /\ moved' = moved /\ obs.at = "join"
      BY <2>5 DEF Join, lanVars
    <3>2. ObsShape' /\ obs'.at = "idle"
      BY <3>1 DEF ObsShape, NoObs
    <3>3. CASE obs.failed
      BY <1>2, <2>5, <3>1, <3>2, <3>3 DEF Join, Sample, Counted, Baseline
    <3>4. CASE ~obs.failed
      <4> DEFINE sampled == {c \in obs.snap : Sampled(c)}
      <4> DEFINE Of(i) == CHOOSE c \in sampled : c.id = i
      <4>1. /\ sampler' = [i \in LanConn |->
                  IF \E c \in sampled : c.id = i THEN Of(i).bytes ELSE None]
            /\ \E soon \in BOOLEAN : shown' = [i \in LanConn |->
                  IF soon /\ \E c \in sampled : c.id = i THEN shown[i] + Rated(Of(i)) ELSE shown[i]]
        BY <2>5, <3>4 DEF Join, Sample, Sampled
      <4>2. ASSUME NEW i \in LanConn, \E c \in sampled : c.id = i
            PROVE /\ Of(i).bytes \in Nat /\ Of(i).bytes <= moved[i]
                  /\ Rated(Of(i)) \in Nat /\ shown[i] + Rated(Of(i)) <= Of(i).bytes
                  /\ shown[i] <= Of(i).bytes
        <5>1. Of(i) \in obs.snap /\ Sampled(Of(i)) /\ Of(i).id = i
          BY <4>2
        <5> HIDE DEF Of
        <5>2. /\ Of(i).bytes \in Nat /\ shown[i] <= Of(i).bytes /\ Of(i).bytes <= moved[i]
              /\ sampler # None => sampler[i] = None \/ sampler[i] <= Of(i).bytes
          BY <1>2, <3>1, <3>4, <5>1 DEF Counted, Baseline
        <5>3. sampler # None => sampler[i] = None \/ (sampler[i] \in Nat /\ shown[i] <= sampler[i])
          BY <1>2 DEF Counted, Baseline
        <5>4. shown[i] \in Nat
          BY <1>2 DEF Counted
        <5>5. QED
          BY <5>1, <5>2, <5>3, <5>4 DEF Rated, Delta
      <4> HIDE DEF sampled, Of
      <4>3. /\ shown' \in [LanConn -> Nat]
            /\ \A i \in LanConn : shown'[i] <= moved[i]
            /\ \A i \in LanConn : (\E c \in sampled : c.id = i) => shown'[i] <= Of(i).bytes
        BY <1>2, <4>1, <4>2 DEF Counted
      <4>4. sampler' \in [LanConn -> 0 .. MaxBytes \cup {None}]
        BY <1>2, <4>1, <4>2 DEF Counted
      <4>5. \A c \in LanConn : \/ sampler'[c] = None
                               \/ /\ sampler'[c] \in Nat
                                  /\ shown'[c] <= sampler'[c] /\ sampler'[c] <= moved[c]
        BY <4>1, <4>2, <4>3
      <4>6. QED
        BY <1>2, <3>1, <3>2, <4>3, <4>4, <4>5 DEF Counted, Baseline
    <3>5. QED
      BY <3>3, <3>4
  <2>6. CASE Refreshed
    BY <1>2, <2>6 DEF Refreshed, Counted, Baseline, ObsShape, lanVars
  <2>7. CASE \E c \in LanConn : Move(c)
    <3>1. PICK c \in LanConn : /\ moved' = [moved EXCEPT ![c] = @ + 1] /\ moved[c] < MaxBytes
                              /\ UNCHANGED <<obs, sampler, shown>>
      BY <2>7 DEF Move, viewVars
    <3>2. /\ moved' \in [LanConn -> 0 .. MaxBytes]
          /\ \A d \in LanConn : moved[d] <= moved'[d] /\ moved[d] \in Nat /\ moved'[d] \in Nat
      BY <1>2, <3>1 DEF Counted
    <3>3. QED
      BY <1>2, <3>1, <3>2 DEF Counted, Baseline, ObsShape
  <2>8. CASE UNCHANGED <<obs, sampler, shown, moved>>
    BY <1>2, <2>8 DEF Counted, Baseline, ObsShape
  <2>9. QED
    BY <1>2, <2>1, <2>2, <2>3, <2>4, <2>5, <2>6, <2>7, <2>8
       DEF Next, vars, obsVars, viewVars, lanVars, AskDevice, Ask, Match, CloseOne, CloseFails,
           Edit, Lease, Open, Close, Start, Recorded, Restart, Down, Sends, Unseen
<1>3. QED
  BY <1>1, <1>2, PTL DEF Spec

Rest ==
    /\ leases \in [Machine -> Lan \cup {None}]
    /\ DOMAIN lan = LanConn /\ \A c \in LanConn : lan[c].is \in {"new", "open", "over"}
    /\ refresh = [at |-> refresh.at, scope |-> refresh.scope, ip |-> refresh.ip,
                  ids |-> refresh.ids, closed |-> refresh.closed]
    /\ refresh.at \in {"idle", "match", "close"}

LEMMA RestInvariant == Spec => []Rest
<1>1. Init => Rest
  BY DEF Init, Rest, New, NoRefresh
<1>2. ASSUME Rest, [Next]_vars PROVE Rest'
  <2>1. CASE Lease
    BY <1>2, <2>1 DEF Lease, Rest, lanVars
  <2>2. CASE AskDevice \/ Ask \/ Match \/ CloseFails \/ Refreshed
    <3>1. /\ refresh' = [at |-> refresh'.at, scope |-> refresh'.scope, ip |-> refresh'.ip,
                         ids |-> refresh'.ids, closed |-> refresh'.closed]
          /\ refresh'.at \in {"idle", "match", "close"}
      <4>1. CASE AskDevice \/ Ask
        BY <4>1 DEF AskDevice, Ask, NoRefresh
      <4>2. CASE Match \/ Refreshed
        <5>1. \/ refresh' = NoRefresh
              \/ \E ids : refresh' = [refresh EXCEPT !.at = "close", !.ids = ids]
          BY <4>2, Zenon DEF Match, Refreshed
        <5>2. CASE refresh' = NoRefresh
          BY <5>2 DEF NoRefresh
        <5>3. CASE \E ids : refresh' = [refresh EXCEPT !.at = "close", !.ids = ids]
          BY <1>2, <5>3 DEF Rest
        <5>4. QED
          BY <5>1, <5>2, <5>3
      <4>3. CASE CloseFails
        <5>1. PICK i : refresh' = [refresh EXCEPT !.ids = @ \ {i}]
          BY <4>3 DEF CloseFails
        <5>2. QED
          BY <1>2, <5>1 DEF Rest
      <4>4. QED
        BY <2>2, <4>1, <4>2, <4>3
    <3>2. QED
      BY <1>2, <2>2, <3>1 DEF AskDevice, Ask, Match, CloseFails, Refreshed, Rest, files, lanVars
  <2>3. CASE CloseOne
    <3>1. PICK i : /\ refresh' = [refresh EXCEPT !.ids = @ \ {i}, !.closed = TRUE]
                   /\ lan' \in {lan, [lan EXCEPT ![i] = Over]}
      BY <2>3 DEF CloseOne
    <3>2. /\ refresh' = [at |-> refresh'.at, scope |-> refresh'.scope, ip |-> refresh'.ip,
                         ids |-> refresh'.ids, closed |-> refresh'.closed]
          /\ refresh'.at = refresh.at
      BY <1>2, <3>1 DEF Rest
    <3>3. DOMAIN lan' = LanConn /\ \A c \in LanConn : lan'[c].is \in {"new", "open", "over"}
      BY <1>2, <3>1 DEF Rest, Over
    <3>4. QED
      BY <1>2, <2>3, <3>2, <3>3 DEF CloseOne, Rest, files
  <2>4. CASE \E c \in LanConn : Open(c) \/ Move(c) \/ Close(c)
    BY <1>2, <2>4 DEF Open, Move, Close, Rest, files, Over
  <2>5. CASE Down
    BY <1>2, <2>5 DEF Down, LanGone, Rest, files, Over
  <2>6. CASE UNCHANGED <<leases, lan, refresh>>
    BY <1>2, <2>6 DEF Rest
  <2>7. QED
    BY <1>2, <2>1, <2>2, <2>3, <2>4, <2>5, <2>6
       DEF Next, vars, obsVars, files, lanVars, Begin, Fetch, FetchFails, Identify, Join,
           Edit, Start, Recorded, Restart, Sends, Unseen
<1>3. QED
  BY <1>1, <1>2, PTL DEF Spec

\* Whatever fails or comes late between two samples, the rates that answers
\* gave out for a connection never add up to more than it has carried
\* (trafficRateSampler.annotate, device_traffic.go:67-130).
THEOREM RatesCountOnce == Spec => []RatesOnce
<1>1. Inv /\ Dated /\ Counted /\ Rest => RatesOnce
  BY DEF Inv, PacketInv, Dated, Versions, Counted, Rest, RatesOnce, TypeOK
<1>2. QED
  BY <1>1, PacketInvariant, DatedInvariant, CountedInvariant, RestInvariant, PTL


-----------------------------------------------------------------------------
(* Owners.                                                                 *)

Distinct(ds) == \A d, e \in ds : d.id # None /\ (d.ip = e.ip \/ d.id = e.id => d = e)

\* The one row a device has, if its address is leased by its machine alone, or
\* by nobody.
IsRowOf(r, d, ls) ==
    \/ Holders(ls, d.ip) = {} /\ r = [ip |-> d.ip, mac |-> d.mac, id |-> d.id]
    \/ \E m \in Machine : /\ Holders(ls, d.ip) = {m} /\ d.mac \in {None, m}
                         /\ r = [ip |-> d.ip, mac |-> m, id |-> d.id]

\* What a row can be: that of a device, that of a lease, and a mere address.
IsRow(r, ds, ls) ==
    \/ \E d \in ds : r.id = d.id /\ IsRowOf(r, d, ls)
    \/ \E m \in Machine : r = [ip |-> ls[m], mac |-> m, id |-> None]
    \/ \E ip : r = [ip |-> ip, mac |-> None, id |-> None]

\* A row of the list is one of the three kinds that IsRow names.
LEMMA DeviceRow ==
    ASSUME NEW ls, NEW ds, Distinct(ds), NEW snap, NEW tun, NEW r \in Rows(ls, ds, snap, tun)
    PROVE  IsRow(r, ds, ls)
<1> USE DEF IsRow
<1>1. CASE r \in LeaseRows(ls, ds)
  <2>1. PICK m \in Machine : r = Row(ls[m], m, DeviceAt(ls, ds, ls[m]))
    BY <1>1 DEF LeaseRows
  <2>2. CASE DeviceAt(ls, ds, ls[m]) = {}
    BY <2>1, <2>2 DEF Row
  <2>3. CASE DeviceAt(ls, ds, ls[m]) # {}
    <3> DEFINE d == CHOOSE e \in DeviceAt(ls, ds, ls[m]) : TRUE
    <3>1. d \in DeviceAt(ls, ds, ls[m])
      BY <2>3
    <3>2. r = [ip |-> ls[m], mac |-> m, id |-> d.id]
      BY <2>1, <2>3 DEF Row
    <3> HIDE DEF d
    <3>3. d \in ds /\ d.ip = ls[m] /\ HasAddress(ls, d)
      BY <3>1 DEF DeviceAt
    <3>4. m \in Holders(ls, d.ip)
      BY <3>3 DEF Holders
    <3>5. Holders(ls, d.ip) = {m} /\ d.mac \in {None, m}
      BY <3>3, <3>4 DEF HasAddress
    <3>6. IsRowOf(r, d, ls)
      BY <3>2, <3>3, <3>5 DEF IsRowOf
    <3>7. QED
      BY <3>2, <3>3, <3>6
  <2>4. QED
    BY <2>2, <2>3
<1>2. CASE r \in StaticRows(ls, ds)
  <2>1. PICK d \in ds : Holders(ls, d.ip) = {} /\ r = Row(d.ip, d.mac, {d})
    BY <1>2 DEF StaticRows
  <2>2. r = [ip |-> d.ip, mac |-> d.mac, id |-> d.id]
    BY <2>1 DEF Row
  <2>3. IsRowOf(r, d, ls)
    BY <2>1, <2>2 DEF IsRowOf
  <2>4. QED
    BY <2>2, <2>3
<1>3. CASE r \in SeenRows(LeaseRows(ls, ds) \cup StaticRows(ls, ds), snap, tun)
  BY <1>3 DEF SeenRows, Row
<1>4. QED
  BY <1>1, <1>2, <1>3 DEF Rows

\* A device has one row.
LEMMA RowUnique ==
    ASSUME NEW ls, NEW d, NEW r, IsRowOf(r, d, ls), NEW s, IsRowOf(s, d, ls)
    PROVE  r = s
BY DEF IsRowOf

\* No two rows have a key in common.
LEMMA KeysDiffer ==
    ASSUME NEW ls, NEW ds, Distinct(ds), NEW snap, NEW tun,
           NEW r \in Rows(ls, ds, snap, tun), NEW s \in Rows(ls, ds, snap, tun), Key(r) = Key(s)
    PROVE  r = s
<1> USE PacketPathAssumption
<1>0. IsRow(r, ds, ls) /\ IsRow(s, ds, ls)
  BY DeviceRow
<1>1. CASE \E d \in ds : r.id = d.id /\ IsRowOf(r, d, ls)
  <2>1. PICK d \in ds : r.id = d.id /\ IsRowOf(r, d, ls)
    BY <1>1
  <2>2. r.id # None
    BY <2>1 DEF Distinct
  <2>3. s.id = r.id
    BY <2>2 DEF Key
  <2>4. PICK e \in ds : s.id = e.id /\ IsRowOf(s, e, ls)
    BY <1>0, <2>2, <2>3 DEF IsRow
  <2>5. d = e
    BY <2>1, <2>3, <2>4 DEF Distinct
  <2>6. QED
    BY <2>1, <2>4, <2>5, RowUnique
<1>2. CASE \E m \in Machine : r = [ip |-> ls[m], mac |-> m, id |-> None]
  <2>1. PICK m \in Machine : r = [ip |-> ls[m], mac |-> m, id |-> None]
    BY <1>2
  <2>2. s.id = None /\ s.mac = m
    BY <2>1 DEF Key
  <2>3. QED
    BY <1>0, <2>1, <2>2 DEF Distinct, IsRow
<1>3. CASE \E ip : r = [ip |-> ip, mac |-> None, id |-> None]
  <2>1. PICK ip : r = [ip |-> ip, mac |-> None, id |-> None]
    BY <1>3
  <2>2. s.id = None /\ s.mac = None /\ s.ip = ip
    BY <2>1 DEF Key
  <2>3. QED
    BY <1>0, <2>1, <2>2 DEF Distinct, IsRow
<1>4. QED
  BY <1>0, <1>1, <1>2, <1>3 DEF IsRow

\* What the policy file registers adds no second row with the same key.
LEMMA PendingKeys ==
    ASSUME NEW ls, NEW ds, Distinct(ds), NEW snap, NEW tun, NEW wanted, Distinct(wanted)
    PROVE  LET rows == Rows(ls, ds, snap, tun)
               all == rows \cup Pending(rows, wanted)
           IN  \A r, s \in all : Key(r) = Key(s) => r = s
<1> DEFINE rows == Rows(ls, ds, snap, tun)
<1>1. \A r \in Pending(rows, wanted) :
         \E d \in wanted : /\ r = [ip |-> d.ip, mac |-> d.mac, id |-> d.id] /\ d.id # None
                           /\ \A s \in rows : s.id # d.id
  BY DEF Pending, Row, Distinct
<1>2. \A r, s \in rows : Key(r) = Key(s) => r = s
  BY KeysDiffer
<1> HIDE DEF rows
<1>3. ASSUME NEW r \in Pending(rows, wanted), NEW s \in rows PROVE Key(r) # Key(s)
  <2>1. r.id # None /\ s.id # r.id
    BY <1>1, <1>3
  <2>2. QED
    BY <2>1 DEF Key
<1>4. ASSUME NEW r \in Pending(rows, wanted), NEW s \in Pending(rows, wanted), Key(r) = Key(s)
      PROVE r = s
  <2>1. r.id # None /\ s.id # None
    BY <1>1
  <2>2. r.id = s.id
    BY <1>4, <2>1 DEF Key
  <2>3. QED
    BY <1>1, <2>2 DEF Distinct
<1>5. QED
  BY <1>2, <1>3, <1>4 DEF rows


-----------------------------------------------------------------------------
(* Who opened what.                                                        *)

\* A machine has the address it uses by a lease, or nobody leases it and it is
\* registered for no other machine.
Rightful(m, ip) == m \in Machine /\ ip \in Lan /\ MayUse(m, ip)

\* That a machine had its address when it opened a connection stays true as
\* long as the connection lives.
LanSound ==
    \A c \in LanConn : lan[c].is = "open" =>
        /\ engine
        /\ \/ lan[c].src = Self /\ lan[c].opener = Gateway
           \/ Rightful(lan[c].opener, lan[c].src)

\* An address changes hands only when no connection of its holder is open.
LEMMA LanInvariant == Spec => []LanSound
<1> USE PacketPathAssumption, ObservationAssumption
<1>1. Init => LanSound
  BY DEF Init, LanSound, New
<1>2. ASSUME Inv, Rest, LanSound, [Next]_vars PROVE LanSound'
  <2>1. CASE Lease
    <3>1. PICK m \in Machine, ip \in Lan \cup {None} :
             /\ \A c \in LanConn : lan[c].opener = m => lan[c].is # "open"
             /\ ~InUse(ip, m) /\ leases' = [leases EXCEPT ![m] = ip]
      BY <2>1 DEF Lease
    <3>2. UNCHANGED <<lan, engine, policy>>
      BY <2>1 DEF Lease, packetVars, listener, lanVars
    <3>3. ASSUME NEW c \in LanConn, lan[c].is = "open", Rightful(lan[c].opener, lan[c].src)
          PROVE MayUse(lan[c].opener, lan[c].src)'
      <4>1. lan[c].opener # m /\ lan[c].src # ip
        BY <3>1, <3>3 DEF InUse
      <4>2. /\ leases'[lan[c].opener] = leases[lan[c].opener]
            /\ Holders(leases', lan[c].src) \subseteq Holders(leases, lan[c].src)
        BY <1>2, <3>1, <3>3, <4>1 DEF Rest, Holders, Rightful
      <4>3. QED
        BY <3>2, <3>3, <4>2 DEF Rightful, MayUse
    <3>4. QED
      BY <1>2, <3>2, <3>3 DEF LanSound, Rightful
  <2>2. CASE \E c \in LanConn : Open(c)
    <3>1. PICK c \in LanConn :
             /\ engine /\ UNCHANGED <<engine, policy, leases>>
             /\ \/ \E m \in Machine, ip \in Lan :
                      /\ MayUse(m, ip)
                      /\ lan' = [lan EXCEPT ![c] = [is |-> "open", src |-> ip, opener |-> m]]
                \/ lan' = [lan EXCEPT ![c] = [is |-> "open", src |-> Self, opener |-> Gateway]]
      BY <2>2 DEF Open, packetVars, listener, files
    <3>2. QED
      BY <1>2, <3>1 DEF Rest, LanSound, Rightful, MayUse
  <2>3. CASE CloseOne
    <3>1. PICK i : lan' \in {lan, [lan EXCEPT ![i] = Over]}
      BY <2>3 DEF CloseOne
    <3>2. QED
      BY <1>2, <2>3, <3>1 DEF CloseOne, Rest, LanSound, Rightful, MayUse, files, Over
  <2>4. CASE \E c \in LanConn : Close(c)
    BY <1>2, <2>4 DEF Close, Rest, LanSound, Rightful, MayUse, packetVars, listener, files, Over
  <2>5. CASE Down
    BY <2>5 DEF Down, LanGone, LanSound, Over
  <2>6. CASE Start
    <3>1. ~engine /\ lan' = lan
      BY <1>2, <2>6 DEF Start, StartEngine, Inv, PacketInv, Ended, lanVars
    <3>2. QED
      BY <1>2, <3>1 DEF LanSound
  <2>7. CASE UNCHANGED <<lan, leases, policy>> /\ (engine => engine')
    BY <1>2, <2>7 DEF LanSound, Rightful, MayUse
  <2>8. CASE Recorded \/ Restart
    <3>1. UNCHANGED <<lan, leases, policy>> /\ (engine => engine')
      BY <2>8 DEF Recorded, Restart, StartBroker, Stopped, RestartEngine, listener, files, lanVars
    <3>2. QED
      BY <2>7, <3>1
  <2>9. CASE Sends \/ Unseen
    <3>1. UNCHANGED <<lan, leases, engine, policy>>
      <4>1. UNCHANGED <<lan, leases>>
        BY <2>9 DEF Sends, Unseen, files, lanVars
      <4>2. \/ ReadFrame \/ ReadMessage \/ WriteFrame \/ StopBroker \/ BeginStop \/ BrokerDies
            \/ \E a \in Address : Answer(a) \/ Accept(a) \/ Finish(a)
        BY <2>9 DEF Sends, Unseen
      <4>3. UNCHANGED <<engine, policy>>
        BY <4>2 DEF ReadFrame, ReadMessage, WriteFrame, StopBroker, BeginStop, BrokerDies,
           Answer, Accept, Finish, listener
      <4>4. QED
        BY <4>1, <4>3
    <3>2. QED
      BY <2>7, <3>1
  <2>10. CASE \/ Begin \/ Fetch \/ FetchFails \/ Identify \/ Join \/ AskDevice \/ Ask \/ Match
             \/ CloseFails \/ Refreshed \/ Edit \/ \E c \in LanConn : Move(c)
    <3>1. UNCHANGED <<lan, leases, packetVars>>
      BY <2>10 DEF Begin, Fetch, FetchFails, Identify, Join, AskDevice, Ask, Match, CloseFails,
         Refreshed, Edit, Move, files, lanVars
    <3>2. QED
      BY <2>7, <3>1 DEF packetVars, listener
  <2>11. CASE UNCHANGED vars
    BY <2>7, <2>11 DEF vars, obsVars, files, lanVars, packetVars, listener
  <2>12. QED
    BY <1>2, <2>1, <2>2, <2>3, <2>4, <2>5, <2>6, <2>8, <2>9, <2>10, <2>11 DEF Next
<1>3. QED
  BY <1>1, <1>2, PacketInvariant, RestInvariant, PTL DEF Spec

\* Who opened a connection, by the files of now.
Attributed(c) ==
    IF Downstream(c) THEN c.opener \in Machine /\ c.user = UserOf[policy][c.opener]
    ELSE c.src = Self \/ Rightful(c.opener, c.src)

\* What mihomo shows of a connection is as its opener deserves at that moment.
LEMMA SnapshotSound ==
    ASSUME Inv, LanSound, NEW c \in Snapshot
    PROVE  Attributed(c) /\ (~Downstream(c) /\ c.src = Self => c.opener = Gateway)
<1> USE ObservationAssumption
<1>1. CASE \E i \in LanConn : lan[i].is = "open" /\ c = Connection(i, "tun", lan[i].src, None, lan[i].opener, moved[i])
  BY <1>1 DEF LanSound, Attributed, Downstream, Connection, Rightful
<1>2. CASE \E a \in Address : sessions[a] # None /\ sessions[a].open
                  /\ c = Connection(a, "packet", a, sessions[a].user, sessions[a].opener, 0)
  <2>1. PICK a \in Address : /\ sessions[a] # None /\ sessions[a].open
                            /\ c = Connection(a, "packet", a, sessions[a].user, sessions[a].opener, 0)
    BY <1>2
  <2>2. sessions[a].opener \in Machine /\ sessions[a].user = UserOf[policy][sessions[a].opener]
    BY <2>1 DEF Inv, PacketInv, Named, PacketTypeOK, Session
  <2>3. QED
    BY <2>1, <2>2 DEF Attributed, Downstream, Connection
<1>3. QED
  BY <1>1, <1>2 DEF Snapshot


\* A key says which state file, applied policy and leases an answer goes by.
Reached(key) ==
    key \in Versions /\ key["state"] <= version["state"] /\ key["leases"] <= version["leases"]
Same(key) == key["state"] = version["state"] /\ key["leases"] = version["leases"]

\* What an observation has in hand names the openers rightly, for as long as
\* its key may still be that of the files.
SnapSound ==
    obs.at # "idle" =>
        /\ Reached(obs.key) /\ (obs.at = "fetch" => obs.snap = {})
        /\ \A c \in obs.snap :
              /\ ~Downstream(c) /\ c.src = Self => c.opener = Gateway
              /\ Same(obs.key) => Attributed(c)

OneRowEach(rows) == \A r, s \in rows : Key(r) = Key(s) => r = s
Listed(owned, rows) ==
    \A o \in owned :
        /\ o[2] \in {Key(r) : r \in rows} \cup {<<"gateway-local">>, <<"unclassified">>}
        /\ o[2] = <<"gateway-local">> => o[1] = Gateway
OpenedByDevice(owned) ==
    \A o \in owned : \A d \in AppliedDevices :
        d.mac # None /\ o[2] = <<"device", d.id>> => o[1] = d.mac

AnswerSound ==
    cache.key # None =>
        /\ Reached(cache.key)
        /\ OneRowEach(cache.rows) /\ Listed(cache.owned, cache.rows)
        /\ Same(cache.key) => OpenedByDevice(cache.owned)

\* The applied bundle and the edited one register an address and an id once.
LEMMA AppliedDistinct == Inv => Distinct(AppliedDevices) /\ Distinct(Devices[desired])
<1> USE ObservationAssumption
<1>1. Inv => Distinct(Devices[desired]) /\ Distinct(Devices[policy])
  BY DEF Inv, PacketInv, PacketTypeOK, Distinct
<1>2. QED
  BY <1>1 DEF AppliedDevices, AppliedBundle, Distinct

\* A key that names a device is that of the device's row.
LEMMA DeviceKey ==
    ASSUME NEW ls, NEW ds, Distinct(ds), NEW snap, NEW tun, NEW r \in Rows(ls, ds, snap, tun),
           NEW d \in ds, Key(r) = <<"device", d.id>>
    PROVE  r.id = d.id /\ IsRowOf(r, d, ls)
<1>1. r.id = d.id /\ d.id # None
  BY DEF Key, Distinct
<1>2. IsRow(r, ds, ls)
  BY DeviceRow
<1>3. PICK e \in ds : r.id = e.id /\ IsRowOf(r, e, ls)
  BY <1>1, <1>2 DEF IsRow
<1>4. QED
  BY <1>1, <1>3 DEF Distinct

\* What counts for a device that is registered with a machine, the machine
\* has opened.
LEMMA OwnerOpened ==
    ASSUME Inv, NEW snap, NEW tun, NEW c \in snap, Attributed(c),
           NEW d \in AppliedDevices, d.mac # None,
           Owner(c, leases, AppliedDevices, Rows(leases, AppliedDevices, snap, tun), tun) = <<"device", d.id>>
    PROVE  c.opener = d.mac
<1> USE PacketPathAssumption, ObservationAssumption
<1> DEFINE rows == Rows(leases, AppliedDevices, snap, tun)
<1> DEFINE found == IF Downstream(c) THEN ByUser(rows, AppliedDevices, c.user) ELSE ByAddress(leases, rows, c.src)
<1> DEFINE r == CHOOSE x \in found : TRUE
<1>1. r \in found /\ Key(r) = <<"device", d.id>>
  BY DEF Owner
<1>2. /\ r \in rows
      /\ Downstream(c) => r.id = c.user
      /\ ~Downstream(c) => r.ip = c.src
  BY <1>1 DEF ByUser, ByAddress
<1> HIDE DEF rows, found, r
<1>3. r.id = d.id /\ IsRowOf(r, d, leases)
  BY <1>1, <1>2, AppliedDistinct, DeviceKey DEF rows
<1>4. d \in Devices[policy] /\ d.on /\ policy \in Policy
  BY DEF AppliedDevices, AppliedBundle, Inv, PacketInv, PacketTypeOK
<1>5. CASE Downstream(c)
  <2>1. c.user = d.id /\ d.id # None
    BY <1>2, <1>3, <1>4, <1>5
  <2>2. c.opener \in Machine /\ UserOf[policy][c.opener] = d.id
    BY <1>5, <2>1 DEF Attributed
  <2>3. PICK e \in Devices[policy] : e.on /\ e.mac = c.opener
    BY <1>4, <2>1, <2>2
  <2>4. e.id = d.id
    BY <1>4, <2>2, <2>3
  <2>5. QED
    BY <1>4, <2>3, <2>4
<1>6. CASE ~Downstream(c)
  <2>1. c.src = d.ip
    BY <1>2, <1>3, <1>6 DEF IsRowOf
  <2>2. CASE c.src = Self
    BY <1>4, <2>1, <2>2
  <2>3. CASE Rightful(c.opener, c.src)
    <3>1. Holders(leases, d.ip) \in SUBSET {d.mac}
      BY <1>3 DEF IsRowOf
    <3>2. QED
      BY <1>4, <2>1, <2>3, <3>1 DEF Rightful, MayUse, Holders
  <2>4. QED
    BY <1>6, <2>2, <2>3 DEF Attributed
<1>7. QED
  BY <1>5, <1>6


\* The answer that is made of what an observation has in hand.
LEMMA JoinStep ==
    ASSUME Inv, Dated, SnapSound, Join
    PROVE  /\ cache'.key = obs.key
           /\ OneRowEach(cache'.rows) /\ Listed(cache'.owned, cache'.rows)
           /\ Same(obs.key) => OpenedByDevice(cache'.owned)
<1> DEFINE rows == Rows(obs.leases, AppliedDevices, obs.snap, obs.tun)
<1> DEFINE of(c) == Owner(c, obs.leases, AppliedDevices, rows, obs.tun)
<1>1. /\ cache'.key = obs.key /\ cache'.rows = rows \cup Pending(rows, Devices[desired])
      /\ cache'.owned = {<<c.opener, of(c)>> : c \in obs.snap}
      /\ obs.at = "join"
  BY DEF Join
<1>2. OneRowEach(cache'.rows)
  BY <1>1, AppliedDistinct, PendingKeys DEF OneRowEach
<1>3. Listed(cache'.owned, cache'.rows)
  <2>1. ASSUME NEW c \in obs.snap
        PROVE  /\ of(c) \in {Key(r) : r \in rows} \cup {<<"gateway-local">>, <<"unclassified">>}
               /\ of(c) = <<"gateway-local">> => c.opener = Gateway
    <3>1. CASE IsLocal(c, obs.tun)
      BY <1>1, <3>1 DEF Owner, IsLocal, SnapSound
    <3>2. CASE ~IsLocal(c, obs.tun)
      <4> DEFINE found == IF Downstream(c) THEN ByUser(rows, AppliedDevices, c.user)
                          ELSE ByAddress(obs.leases, rows, c.src)
      <4>1. found \subseteq rows
        BY DEF ByUser, ByAddress
      <4>2. of(c) = IF found = {} THEN <<"unclassified">> ELSE Key(CHOOSE r \in found : TRUE)
        BY <3>2 DEF Owner
      <4>3. CASE found = {}
        BY <4>2, <4>3
      <4>4. CASE found # {}
        <5>1. PICK r \in rows : of(c) = Key(r)
          BY <4>1, <4>2, <4>4
        <5>2. Key(r) # <<"gateway-local">>
          BY DEF Key
        <5>3. QED
          BY <5>1, <5>2
      <4>5. QED
        BY <4>3, <4>4
    <3>3. QED
      BY <3>1, <3>2
  <2> HIDE DEF rows, of
  <2>2. QED
    BY <1>1, <2>1 DEF Listed
<1>4. ASSUME Same(obs.key) PROVE OpenedByDevice(cache'.owned)
  <2>1. obs.leases = leases
    BY <1>1, <1>4 DEF Dated, Same
  <2>2. ASSUME NEW c \in obs.snap, NEW d \in AppliedDevices, d.mac # None, of(c) = <<"device", d.id>>
        PROVE  c.opener = d.mac
    <3>1. Attributed(c)
      BY <1>1, <1>4 DEF SnapSound
    <3>2. QED
      BY <2>1, <2>2, <3>1, OwnerOpened
  <2> HIDE DEF rows, of
  <2>3. QED
    BY <1>1, <2>2 DEF OpenedByDevice
<1>5. QED
  BY <1>1, <1>2, <1>3, <1>4

\* Both hold in every state, whatever happens between the reads of an observation.
LEMMA OwnersInvariant == Spec => [](SnapSound /\ AnswerSound)
<1>1. Init => SnapSound /\ AnswerSound
  BY DEF Init, SnapSound, AnswerSound, NoObs, NoCache
<1>2. ASSUME Inv, Rest, LanSound, Dated, SnapSound, AnswerSound, [Next]_vars
      PROVE  SnapSound' /\ AnswerSound'
  <2> DEFINE Kept == UNCHANGED <<AppliedDevices, policy, leases, version>>
  <2>1. Kept /\ UNCHANGED cache => AnswerSound'
    BY <1>2 DEF AnswerSound, Reached, Same, OneRowEach, Listed, OpenedByDevice
  <2>2. ASSUME Kept, obs.at # "idle", obs'.at # "fetch", obs'.key = obs.key, obs'.snap = obs.snap
        PROVE  SnapSound'
    <3>1. \A c : Attributed(c)' = Attributed(c)
      BY <2>2 DEF Attributed, Rightful, MayUse
    <3>2. Reached(obs.key)' /\ (Same(obs.key)' <=> Same(obs.key))
      BY <1>2, <2>2 DEF SnapSound, Reached, Same
    <3>3. QED
      BY <1>2, <2>2, <3>1, <3>2 DEF SnapSound
  <2>3. CASE Begin
    <3>1. /\ obs' = [at |-> "fetch", key |-> version, leases |-> leases, snap |-> {},
                     failed |-> FALSE, tun |-> FALSE]
          /\ Kept /\ UNCHANGED cache
      BY <2>3 DEF Begin, NoObs, KeyOf, files, packetVars, AppliedDevices, AppliedBundle
    <3>2. Reached(version)
      BY <1>2 DEF Dated, Versions, Reached
    <3>3. QED
      BY <2>1, <3>1, <3>2 DEF SnapSound, Reached
  <2>4. CASE Fetch
    <3>1. /\ obs.at = "fetch" /\ obs'.at = "identify" /\ obs'.key = obs.key /\ obs'.snap = Snapshot
          /\ Kept /\ UNCHANGED cache
      BY <1>2, <2>4 DEF Fetch, Dated, ObsShape, files, packetVars, AppliedDevices, AppliedBundle
    <3>2. \A c \in Snapshot : Attributed(c)' /\ (~Downstream(c) /\ c.src = Self => c.opener = Gateway)
      BY <1>2, <3>1, SnapshotSound DEF Attributed, Rightful, MayUse
    <3>3. QED
      BY <1>2, <2>1, <3>1, <3>2 DEF SnapSound, Reached
  <2>5. CASE FetchFails \/ Identify
    <3>1. /\ obs.at # "idle" /\ obs'.at # "fetch" /\ obs'.key = obs.key /\ obs'.snap = obs.snap
          /\ Kept /\ UNCHANGED cache
      BY <1>2, <2>5 DEF FetchFails, Identify, Dated, ObsShape, files, packetVars, AppliedDevices, AppliedBundle
    <3>2. QED
      BY <2>1, <2>2, <3>1
  <2>6. CASE Join
    <3>1. obs'.at = "idle" /\ obs.at = "join" /\ Kept
      BY <2>6 DEF Join, NoObs, files, packetVars, AppliedDevices, AppliedBundle
    <3>2. Reached(obs.key)
      BY <1>2, <3>1 DEF SnapSound
    <3>3. QED
      BY <1>2, <2>6, <3>1, <3>2, JoinStep
         DEF SnapSound, AnswerSound, Reached, Same, OneRowEach, Listed, OpenedByDevice
  <2>7. CASE Edit
    <3>1. /\ version' = [version EXCEPT !["config"] = @ + 1]
          /\ UNCHANGED <<AppliedDevices, policy, leases, obs, cache>>
      BY <2>7 DEF Edit, Changed, viewVars, packetVars, AppliedDevices, AppliedBundle
    <3>2. version'["state"] = version["state"] /\ version'["leases"] = version["leases"]
      BY <1>2, <3>1 DEF Dated, Versions
    <3>3. QED
      BY <1>2, <3>1, <3>2 DEF SnapSound, AnswerSound, Reached, Same, Attributed, Rightful, MayUse,
         OneRowEach, Listed, OpenedByDevice
  <2>8. CASE Lease \/ Start \/ Recorded \/ Restart
    <3>1. PICK file \in {"state", "leases"} : version' = [version EXCEPT ![file] = @ + 1]
      BY <2>8 DEF Lease, Start, Recorded, Restart, Changed
    <3>2. UNCHANGED <<obs, cache>>
      BY <2>8 DEF Lease, Start, Recorded, Restart, viewVars
    <3>3. ASSUME NEW key, Reached(key) PROVE Reached(key)' /\ ~Same(key)'
      BY <1>2, <3>1, <3>3 DEF Dated, Versions, Reached, Same
    <3>4. QED
      BY <1>2, <3>2, <3>3 DEF SnapSound, AnswerSound, OneRowEach, Listed
  <2>9. CASE Kept /\ UNCHANGED <<obs, cache>>
    BY <1>2, <2>1, <2>9 DEF SnapSound, Reached, Same, Attributed, Rightful, MayUse
  <2>10. CASE Down \/ Sends \/ Unseen
    <3>1. UNCHANGED <<leases, version, obs, cache>>
      BY <2>10 DEF Down, Sends, Unseen, files, viewVars
    <3>2. \/ StopEngine \/ EngineEnds \/ ReadFrame \/ ReadMessage \/ WriteFrame
          \/ StopBroker \/ BeginStop \/ BrokerDies
          \/ \E a \in Address : Answer(a) \/ Accept(a) \/ Finish(a)
      BY <2>10 DEF Down, Sends, Unseen
    <3>3. policy' = policy /\ (phase = "off" <=> phase' = "off")
      BY <3>2 DEF StopEngine, EngineEnds, ReadFrame, ReadMessage, WriteFrame, StopBroker, BeginStop,
         BrokerDies, Answer, Accept, Finish
    <3>4. QED
      BY <2>9, <3>1, <3>3 DEF AppliedDevices, AppliedBundle
  <2>11. CASE \/ AskDevice \/ Ask \/ Match \/ CloseOne \/ CloseFails \/ Refreshed
              \/ \E c \in LanConn : Open(c) \/ Move(c) \/ Close(c)
    <3>1. UNCHANGED <<files, obs, cache, phase, policy>>
      BY <2>11 DEF AskDevice, Ask, Match, CloseOne, CloseFails, Refreshed, Open, Move, Close,
         viewVars, packetVars
    <3>2. QED
      BY <2>9, <3>1 DEF AppliedDevices, AppliedBundle, files
  <2>12. CASE UNCHANGED vars
    BY <2>9, <2>12 DEF vars, obsVars, files, viewVars, packetVars, AppliedDevices, AppliedBundle
  <2>13. QED
    BY <1>2, <2>3, <2>4, <2>5, <2>6, <2>7, <2>8, <2>10, <2>11, <2>12 DEF Next
<1>3. QED
  BY <1>1, <1>2, PacketInvariant, RestInvariant, LanInvariant, DatedInvariant, PTL DEF Spec

\* As long as an answer may be served, its list shows each owner once, and
\* what counts for a registered device was opened by its machine, though the
\* leases, the applied policy and the connections were read at different times
\* (aggregateDeviceTrafficWithPolicy, device_traffic.go:163-290).
THEOREM ServedOwnersAreRight == Spec => []OwnersAreRight
<1>1. AnswerSound => OwnersAreRight
  BY DEF AnswerSound, OwnersAreRight, Servable, KeyOf, Same, OneRowEach, Listed, OpenedByDevice
<1>2. QED
  BY <1>1, OwnersInvariant, PTL
=============================================================================
