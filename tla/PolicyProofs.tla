------------------------------ MODULE PolicyProofs ------------------------------
(***************************************************************************)
(* Proofs about PreparedEngine for every set of process identities, every  *)
(* set of policy graphs and every number of disturbances.                  *)
(*                                                                         *)
(* That one engine runs at most is not inductive: it rests on who is       *)
(* answerable for a running engine. IInv says that a prepared engine is    *)
(* covered by the record on disk, a gateway's engine by the gateway state  *)
(* or by the session that has forked it, and what each step of a session   *)
(* may take for granted.                                                   *)
(*                                                                         *)
(* Then proofs about PolicyLease, the lease that has the engine stopped,   *)
(* for every set of connections. What a release may do depends on the      *)
(* helper's counter alone, and what is promised is about connections:      *)
(* PolicyInv says that the counter is the number of connections that hold  *)
(* the lease or have not been released yet.                                *)
(***************************************************************************)
EXTENDS PreparedEngine, PolicyLease, FiniteSetTheorems, TLAPS

PreparedRuns(p) == Running(p) /\ proc[p].for = "prepared"
GatewayRuns(p) == Running(p) /\ proc[p].for = "gateway"

ReleasePc == {"release", "release_stop", "release_wait", "release_remove"}

\* The record of this boot covers the prepared engine, if only by its intent,
\* and there is one at most; an identified engine has the recorded graph.
PreparedOwned ==
    /\ \A p \in Pid : PreparedRuns(p) =>
          /\ record.exists /\ record.boot = boot /\ record.pid \in {p, NoPid}
          /\ ~gateway.exists
    /\ \A p, q \in Pid : PreparedRuns(p) /\ PreparedRuns(q) => p = q
    /\ Identified => proc[record.pid].graph = record.graph

\* Unless a process died between an engine's fork or stop and the record of
\* it, the gateway state names the gateway's engine, or the session that is
\* about to record or replace it does.
GatewayOwned ==
    Used("gateway_crash") = 0 =>
        \A p \in Pid : GatewayRuns(p) =>
            /\ gateway.exists /\ gateway.boot = boot
            /\ p = IF pc \in {"gateway_record", "gateway_replace"}
                   THEN pid ELSE gateway.pid

ReleaseSound ==
    /\ pc \in {"release_stop", "release_wait", "release_remove"} => record.exists
    /\ pc \in {"release_stop", "release_wait"} => BelongsToBoot(record) /\ Identified
    /\ pc = "release_remove" /\ BelongsToBoot(record) =>
          Identified /\ ~Matches(record.pid)
    /\ op = "gateway_start" /\ pc \in ReleasePc \cup {"gateway_journal"} =>
          ~gateway.exists

PrepareSound ==
    /\ pc \in {"journal", "fork", "identify", "record", "ready", "using"} =>
          op = "prepare"
    /\ op \in {"prepare", "failed"} => ~gateway.exists
    /\ pc \in {"journal", "fork", "gateway_journal"} =>
          \A p \in Pid : ~PreparedRuns(p)
    /\ pc \in {"fork", "identify", "record"} =>
          record = [exists |-> TRUE, boot |-> boot, pid |-> NoPid, graph |-> want]
    /\ pc \in {"identify", "record"} =>
          /\ pid \in Pid /\ proc[pid].graph = want
          /\ \A p \in Pid : PreparedRuns(p) => p = pid
    /\ pc = "ready" =>
          /\ record.exists /\ record.boot = boot /\ record.graph = want
          /\ record.pid = pid /\ pid \in Pid
    /\ pc = "using" =>
          /\ Identified /\ record.graph = want
          /\ Used("death") = 0 => Running(record.pid)

GatewaySound ==
    /\ pc = "gateway_journal" => op = "gateway_start"
    /\ pc \in {"gateway_fork", "gateway_record", "gateway_replace"} =>
          gateway.exists /\ gateway.boot = boot /\ gateway.pid = NoPid
    /\ pc = "gateway_clear" /\ Used("gateway_crash") = 0 =>
          \A p \in Pid : ~GatewayRuns(p)

LeftSound == \A kind \in Disturbance : left[kind] <= Quota[kind]

IInv ==
    /\ TypeOK /\ LeftSound
    /\ PreparedOwned /\ GatewayOwned /\ ReleaseSound /\ PrepareSound /\ GatewaySound

-----------------------------------------------------------------------------
(* Lemmas about the operators.                                             *)

\* What an action may do to the processes when it starts none.
NoneStarts ==
    /\ proc' \in [Pid -> Process]
    /\ \A q \in Pid :
          /\ proc'[q].is = "running" => proc[q].is = "running"
          /\ proc'[q].is # "free" => proc[q].is # "free"
          /\ proc'[q].for = proc[q].for /\ proc'[q].graph = proc[q].graph

\* Processes that stay as they are.
LEMMA UnchangedStartsNone == TypeOK /\ UNCHANGED proc => NoneStarts
BY DEF TypeOK, NoneStarts

\* Stopping a process starts none, and the process does not run afterwards.
LEMMA StoppedStartsNone ==
    ASSUME TypeOK, NEW p \in Pid \cup {NoPid}, Stopped(p)
    PROVE  NoneStarts /\ (p \in Pid => proc'[p].is # "running")
<1>1. CASE Matches(p)
  BY <1>1 DEF TypeOK, Stopped, Matches, NoneStarts, Process
<1>2. CASE ~Matches(p)
  BY <1>2 DEF TypeOK, Stopped, Matches, NoneStarts, Process
<1>3. QED
  BY <1>1, <1>2

\* What is left of a kind of disturbance never grows.
LEMMA SpendBounds ==
    ASSUME TypeOK, LeftSound, NEW kind \in Disturbance, Spend(kind)
    PROVE  /\ left' \in [Disturbance -> Nat] /\ LeftSound'
           /\ \A k \in Disturbance : Used(k)' = 0 => Used(k) = 0
           /\ Used(kind)' # 0
<1>1. /\ left[kind] \in Nat /\ left[kind] > 0
      /\ left' = [left EXCEPT ![kind] = left[kind] - 1]
  BY DEF TypeOK, Spend
<1>2. left' \in [Disturbance -> Nat]
  BY <1>1 DEF TypeOK
<1>3. \A k \in Disturbance :
         /\ left[k] \in Nat /\ Quota[k] \in Nat /\ left[k] <= Quota[k]
         /\ left'[k] = IF k = kind THEN left[k] - 1 ELSE left[k]
  BY <1>1, PreparedAssumption DEF TypeOK, LeftSound
<1>4. LeftSound'
  BY <1>1, <1>3 DEF LeftSound
<1>5. \A k \in Disturbance : Used(k)' = 0 => Used(k) = 0
  BY <1>1, <1>3 DEF Used
<1>6. Used(kind)' # 0
  BY <1>1, <1>3 DEF Used
<1>7. QED
  BY <1>2, <1>4, <1>5, <1>6

\* A step that nothing disturbs leaves every budget.
LEMMA LeftUnchanged ==
    ASSUME TypeOK, LeftSound, UNCHANGED left
    PROVE  /\ left' \in [Disturbance -> Nat] /\ LeftSound'
           /\ \A k \in Disturbance : Used(k)' = 0 => Used(k) = 0
BY DEF TypeOK, LeftSound, Used

\* A prepared engine stays covered while no engine is started and the record,
\* the gateway state and the boot stay as they are.
LEMMA PreparedKept ==
    ASSUME TypeOK, PreparedOwned, NoneStarts, UNCHANGED <<boot, record, gateway>>
    PROVE  PreparedOwned'
BY DEF TypeOK, PreparedOwned, NoneStarts, PreparedRuns, Running, Identified, Record

\* So does a gateway's engine, unless the session comes to or leaves the part
\* between its fork or stop and the record of it.
LEMMA GatewayKept ==
    ASSUME TypeOK, GatewayOwned, NoneStarts, UNCHANGED <<boot, gateway>>,
           Used("gateway_crash")' = 0 =>
              /\ Used("gateway_crash") = 0
              /\ \/ UNCHANGED <<pc, pid>>
                 \/ /\ pc \notin {"gateway_record", "gateway_replace"}
                    /\ pc' \notin {"gateway_record", "gateway_replace"}
    PROVE  GatewayOwned'
BY DEF TypeOK, GatewayOwned, NoneStarts, GatewayRuns, Running

SessionTyped ==
    /\ pc \in {"idle", "release", "release_stop", "release_wait",
               "release_remove", "done", "journal", "fork", "identify",
               "record", "ready", "using", "gateway_journal", "gateway_fork",
               "gateway_record", "gateway_kill", "gateway_clear",
               "gateway_replace"}
    /\ op \in {"none", "stop", "prepare", "failed", "gateway_start",
               "gateway_stop", "gateway_restart"}
    /\ want \in Graph
    /\ pid \in Pid \cup {NoPid}

\* A step that writes neither file and starts no engine.
LEMMA QuietStep ==
    ASSUME IInv, UNCHANGED <<boot, record, gateway>>, NoneStarts, SessionTyped',
           UNCHANGED left \/ \E kind \in Disturbance : Spend(kind),
           \/ UNCHANGED <<pc, pid>>
           \/ /\ pc \notin {"gateway_record", "gateway_replace"}
              /\ pc' \notin {"gateway_record", "gateway_replace"}
           \/ Spend("gateway_crash")
    PROVE  /\ TypeOK' /\ LeftSound' /\ PreparedOwned' /\ GatewayOwned'
           /\ \A k \in Disturbance : Used(k)' = 0 => Used(k) = 0
<1> USE DEF IInv
<1>1. /\ left' \in [Disturbance -> Nat] /\ LeftSound'
      /\ \A k \in Disturbance : Used(k)' = 0 => Used(k) = 0
  BY SpendBounds, LeftUnchanged
<1>2. Spend("gateway_crash") => Used("gateway_crash")' # 0
  BY SpendBounds DEF Disturbance
<1>3. TypeOK'
  BY <1>1 DEF TypeOK, SessionTyped, NoneStarts
<1>4. PreparedOwned'
  BY PreparedKept
<1>5. GatewayOwned'
  BY <1>1, <1>2, GatewayKept DEF Disturbance
<1>6. QED
  BY <1>1, <1>3, <1>4, <1>5

\* A session that ends so, with or without an error, leaves everything sound.
LEMMA ReturnStep ==
    ASSUME IInv, Return, UNCHANGED <<boot, record, gateway>>, NoneStarts,
           UNCHANGED left \/ \E kind \in Disturbance : Spend(kind),
           \/ pc \notin {"gateway_record", "gateway_replace"}
           \/ Spend("gateway_crash")
    PROVE  IInv'
<1>1. pc' = "idle" /\ op' = "none" /\ pid' = NoPid /\ want' = want
  BY DEF Return
<1>2. TypeOK' /\ LeftSound' /\ PreparedOwned' /\ GatewayOwned'
  BY <1>1, QuietStep DEF IInv, TypeOK, SessionTyped
<1>3. ReleaseSound' /\ PrepareSound' /\ GatewaySound'
  BY <1>1 DEF ReleaseSound, PrepareSound, GatewaySound, ReleasePc
<1>4. QED
  BY <1>2, <1>3 DEF IInv

-----------------------------------------------------------------------------
(* Release: stopPreparedLocked.                                            *)

LEMMA ReleaseCheckStep == ASSUME IInv, ReleaseCheck PROVE IInv'
<1> USE DEF IInv
<1>1. pc = "release" /\ UNCHANGED <<boot, record, gateway, proc>>
  BY DEF ReleaseCheck
<1>2. SessionTyped' /\ pc' \notin {"gateway_record", "gateway_replace"}
  BY <1>1 DEF TypeOK, SessionTyped, ReleaseCheck, Goto, Return, AfterRelease
<1>3. TypeOK' /\ LeftSound' /\ PreparedOwned' /\ GatewayOwned'
  BY <1>1, <1>2, UnchangedStartsNone, QuietStep DEF ReleaseCheck, Disturbance
<1>4. ReleaseSound'
  BY <1>1 DEF ReleaseSound, ReleaseCheck, Goto, Return, AfterRelease,
     ReleasePc, BelongsToBoot, Identified, Matches
<1>5. PrepareSound'
  BY <1>1 DEF PrepareSound, PreparedOwned, PreparedRuns, Running, ReleaseSound,
     ReleaseCheck, Goto, Return, AfterRelease, ReleasePc
<1>6. GatewaySound'
  BY <1>1 DEF GatewaySound, ReleaseCheck, Goto, Return, AfterRelease
<1>7. QED
  BY <1>3, <1>4, <1>5, <1>6

LEMMA ReleaseStopStep == ASSUME IInv, ReleaseStop PROVE IInv'
<1> USE DEF IInv
<1>1. /\ pc = "release_stop" /\ UNCHANGED <<boot, record, gateway>>
      /\ pc' \in {"release_wait", "idle"} /\ op' \in {op, "none"} /\ want' = want
      /\ pid' \in {pid, NoPid}
      /\ pc' = "release_wait" => op' = op
      /\ pc' = "idle" => op' = "none"
      /\ UNCHANGED left \/ \E kind \in Disturbance : Spend(kind)
  BY DEF ReleaseStop, Goto, Return, Disturbance
<1>2. NoneStarts
  <2>1. record.pid \in Pid \cup {NoPid}
    BY DEF TypeOK, Record
  <2>2. QED
    BY <2>1, StoppedStartsNone, UnchangedStartsNone DEF ReleaseStop
<1>3. TypeOK' /\ LeftSound' /\ PreparedOwned' /\ GatewayOwned'
  BY <1>1, <1>2, QuietStep DEF TypeOK, SessionTyped
<1>4. ReleaseSound'
  BY <1>1 DEF ReleaseSound, ReleasePc, BelongsToBoot, Identified
<1>5. PrepareSound'
  BY <1>1 DEF PrepareSound
<1>6. GatewaySound'
  BY <1>1 DEF GatewaySound
<1>7. QED
  BY <1>3, <1>4, <1>5, <1>6

LEMMA ReleaseWaitStep == ASSUME IInv, ReleaseWait PROVE IInv'
<1> USE DEF IInv
<1>1. /\ pc = "release_wait" /\ UNCHANGED <<boot, record, gateway, proc, left>>
      /\ pc' \in {"release_remove", "idle"} /\ op' \in {op, "none"} /\ want' = want
      /\ pid' \in {pid, NoPid}
      /\ pc' = "release_remove" => op' = op /\ ~Matches(record.pid)
      /\ pc' = "idle" => op' = "none"
  BY DEF ReleaseWait, Goto, Return
<1>2. TypeOK' /\ LeftSound' /\ PreparedOwned' /\ GatewayOwned'
  BY <1>1, UnchangedStartsNone, QuietStep DEF TypeOK, SessionTyped
<1>3. ReleaseSound'
  BY <1>1 DEF ReleaseSound, ReleasePc, BelongsToBoot, Identified, Matches
<1>4. PrepareSound'
  BY <1>1 DEF PrepareSound
<1>5. GatewaySound'
  BY <1>1 DEF GatewaySound
<1>6. QED
  BY <1>2, <1>3, <1>4, <1>5

\* The record goes only when no prepared engine runs that it stands for.
LEMMA ReleaseRemoveStep == ASSUME IInv, ReleaseRemove PROVE IInv'
<1> USE DEF IInv
<1>1. /\ pc = "release_remove" /\ UNCHANGED <<boot, gateway, proc>>
      /\ \A p \in Pid : ~PreparedRuns(p)
  BY PreparedAssumption DEF ReleaseRemove, ReleaseSound, PreparedOwned, PreparedRuns,
     Running, Matches, BelongsToBoot, Identified
<1>2. CASE Remove /\ Goto(AfterRelease) /\ UNCHANGED pid
  <2>1. /\ record' = NoRecord(record.graph) /\ UNCHANGED <<op, want, pid, left>>
        /\ pc' = AfterRelease
    BY <1>2 DEF Remove, Goto
  <2>2. /\ pc' \in {"journal", "gateway_journal", "gateway_kill", "done"}
        /\ pc' = "journal" => op = "prepare"
        /\ pc' = "gateway_journal" => op = "gateway_start"
    BY <2>1 DEF AfterRelease
  <2>3. TypeOK'
    BY <1>1, <2>1, <2>2 DEF TypeOK, Record, NoRecord
  <2>4. PreparedOwned'
    BY <1>1, <2>1, PreparedAssumption DEF PreparedOwned, PreparedRuns, Running, Identified, NoRecord
  <2>5. GatewayOwned' /\ LeftSound'
    BY <1>1, <2>1, <2>2 DEF GatewayOwned, GatewayRuns, Running, Used, LeftSound
  <2>6. ReleaseSound' /\ GatewaySound'
    BY <1>1, <2>1, <2>2 DEF ReleaseSound, GatewaySound, ReleasePc
  <2>7. PrepareSound'
    BY <1>1, <2>1, <2>2 DEF PrepareSound, PreparedRuns, Running
  <2>8. QED
    BY <2>3, <2>4, <2>5, <2>6, <2>7
<1>3. CASE Spend("fault") /\ Return /\ UNCHANGED record
  BY <1>1, <1>3, UnchangedStartsNone, ReturnStep DEF Disturbance
<1>4. QED
  BY <1>2, <1>3 DEF ReleaseRemove

LEMMA BeginStopPreparedStep == ASSUME IInv, BeginStopPrepared PROVE IInv'
<1> USE DEF IInv
<1>1. /\ pc = "idle" /\ pc' = "release" /\ op' = "stop"
      /\ UNCHANGED <<boot, record, gateway, proc, want, pid, left>>
  BY DEF BeginStopPrepared
<1>2. TypeOK' /\ LeftSound' /\ PreparedOwned' /\ GatewayOwned'
  BY <1>1, UnchangedStartsNone, QuietStep DEF TypeOK, SessionTyped
<1>3. ReleaseSound' /\ PrepareSound' /\ GatewaySound'
  BY <1>1 DEF ReleaseSound, PrepareSound, GatewaySound, ReleasePc
<1>4. QED
  BY <1>2, <1>3

-----------------------------------------------------------------------------
(* PrepareLocked.                                                          *)

\* A reused engine has the graph that its record and the caller agree on.
LEMMA BeginPrepareStep ==
    ASSUME IInv, NEW g \in Graph, BeginPrepare(g) PROVE IInv'
<1> USE DEF IInv
<1>1. /\ pc = "idle" /\ ~gateway.exists /\ want' = g /\ op' = "prepare"
      /\ UNCHANGED <<boot, record, gateway, proc, pid, left>>
      /\ \/ SameGraph(g) /\ Running(record.pid) /\ pc' = "using"
         \/ pc' = "release"
  BY DEF BeginPrepare
<1>2. TypeOK' /\ LeftSound' /\ PreparedOwned' /\ GatewayOwned'
  BY <1>1, UnchangedStartsNone, QuietStep DEF TypeOK, SessionTyped
<1>3. ReleaseSound' /\ GatewaySound'
  BY <1>1 DEF ReleaseSound, GatewaySound, ReleasePc
<1>4. PrepareSound'
  BY <1>1, PreparedAssumption DEF PrepareSound, SameGraph, Running, Identified
<1>5. QED
  BY <1>2, <1>3, <1>4

LEMMA JournalStep == ASSUME IInv, Journal PROVE IInv'
<1> USE DEF IInv
<1>1. /\ pc = "journal" /\ op = "prepare" /\ ~gateway.exists
      /\ UNCHANGED <<boot, gateway, proc>>
      /\ \A p \in Pid : ~PreparedRuns(p)
  BY DEF Journal, PrepareSound
<1>2. CASE /\ Write([exists |-> TRUE, boot |-> boot, pid |-> NoPid, graph |-> want])
           /\ Goto("fork") /\ UNCHANGED pid
  <2>1. /\ record' = [exists |-> TRUE, boot |-> boot, pid |-> NoPid, graph |-> want]
        /\ pc' = "fork" /\ UNCHANGED <<op, want, pid, left>>
    BY <1>2 DEF Write, Goto
  <2>2. TypeOK'
    BY <1>1, <2>1 DEF TypeOK, Record
  <2>3. PreparedOwned'
    BY <1>1, <2>1 DEF PreparedOwned, PreparedRuns, Running, Identified
  <2>4. GatewayOwned' /\ LeftSound'
    BY <1>1, <2>1 DEF GatewayOwned, GatewayRuns, Running, Used, LeftSound
  <2>5. ReleaseSound' /\ GatewaySound'
    BY <1>1, <2>1 DEF ReleaseSound, GatewaySound, ReleasePc
  <2>6. PrepareSound'
    BY <1>1, <2>1 DEF PrepareSound, PreparedRuns, Running
  <2>7. QED
    BY <2>2, <2>3, <2>4, <2>5, <2>6
<1>3. CASE Spend("fault") /\ Return /\ UNCHANGED record
  BY <1>1, <1>3, UnchangedStartsNone, ReturnStep DEF Disturbance
<1>4. QED
  BY <1>2, <1>3 DEF Journal

\* Removing the intent of a child that was never named or has been stopped.
LEMMA ForgetIntent ==
    ASSUME IInv, pc \in {"fork", "identify", "record"}, Return, NoneStarts,
           \A p \in Pid : ~PreparedRuns(p)',
           record' \in {record, NoRecord(want)}, UNCHANGED <<boot, gateway>>,
           UNCHANGED left \/ \E kind \in Disturbance : Spend(kind)
    PROVE  IInv'
<1> USE DEF IInv
<1>1. /\ pc' = "idle" /\ op' = "none" /\ pid' = NoPid /\ want' = want
      /\ record.pid = NoPid
  BY DEF Return, PrepareSound
<1>2. /\ left' \in [Disturbance -> Nat] /\ LeftSound'
      /\ \A k \in Disturbance : Used(k)' = 0 => Used(k) = 0
  BY SpendBounds, LeftUnchanged
<1>3. TypeOK'
  <2>1. record \in Record /\ NoRecord(want) \in Record
    BY DEF TypeOK, Record, NoRecord
  <2>2. record' \in Record
    BY <2>1
  <2>3. QED
    BY <1>1, <1>2, <2>2 DEF TypeOK, NoneStarts
<1>4. PreparedOwned'
  BY <1>1 DEF PreparedOwned, NoRecord, Identified
<1>5. GatewayOwned'
  BY <1>1, <1>2, GatewayKept DEF Disturbance
<1>6. ReleaseSound' /\ PrepareSound' /\ GatewaySound'
  BY <1>1 DEF ReleaseSound, PrepareSound, GatewaySound, ReleasePc
<1>7. QED
  BY <1>2, <1>3, <1>4, <1>5, <1>6

\* The one place where a prepared engine starts: none runs, its intent is on
\* disk and no gateway state exists.
LEMMA ForkStep == ASSUME IInv, Fork PROVE IInv'
<1> USE DEF IInv
<1>1. /\ pc = "fork" /\ op = "prepare" /\ ~gateway.exists
      /\ UNCHANGED <<boot, gateway>>
      /\ \A p \in Pid : ~PreparedRuns(p)
      /\ record = [exists |-> TRUE, boot |-> boot, pid |-> NoPid, graph |-> want]
  BY DEF Fork, PrepareSound
<1>2. CASE \E p \in Fresh :
             /\ Forked(p, "prepared") /\ pid' = p
             /\ Goto("identify") /\ UNCHANGED <<record, left>>
  <2>1. PICK p \in Pid :
          /\ proc' = [proc EXCEPT ![p] = [is |-> "running", for |-> "prepared", graph |-> want]]
          /\ pid' = p /\ pc' = "identify"
          /\ UNCHANGED <<op, want, record, left>>
    BY <1>2 DEF Fresh, Forked, Goto
  <2>2. TypeOK'
    BY <1>1, <2>1 DEF TypeOK, Process
  <2>3. \A q \in Pid : /\ q # p => proc'[q] = proc[q]
                       /\ proc'[p] = [is |-> "running", for |-> "prepared", graph |-> want]
    BY <2>1 DEF TypeOK
  <2>4. PreparedOwned'
    BY <1>1, <2>1, <2>3 DEF PreparedOwned, PreparedRuns, Running, Identified
  <2>5. GatewayOwned' /\ LeftSound'
    BY <1>1, <2>1, <2>3 DEF GatewayOwned, GatewayRuns, Running, Used, LeftSound
  <2>6. ReleaseSound' /\ GatewaySound'
    BY <1>1, <2>1 DEF ReleaseSound, GatewaySound, ReleasePc
  <2>7. PrepareSound'
    BY <1>1, <2>1, <2>3 DEF PrepareSound, PreparedRuns, Running
  <2>8. QED
    BY <2>2, <2>4, <2>5, <2>6, <2>7
<1>3. CASE ForkFails /\ record' \in {record, NoRecord(want)} /\ Return /\ UNCHANGED proc
  <2>1. UNCHANGED left \/ \E kind \in Disturbance : Spend(kind)
    BY <1>3 DEF ForkFails, Disturbance
  <2>2. \A p \in Pid : ~PreparedRuns(p)'
    BY <1>1, <1>3 DEF PreparedRuns, Running
  <2>3. QED
    BY <1>1, <1>3, <2>1, <2>2, UnchangedStartsNone, ForgetIntent
<1>4. QED
  BY <1>2, <1>3 DEF Fork

\* Abandoning a child keeps its intent, or stops it and removes the intent.
LEMMA AbandonStep ==
    ASSUME IInv, pc \in {"identify", "record"}, Abandon, Return,
           UNCHANGED <<boot, gateway>>,
           UNCHANGED left \/ \E kind \in Disturbance : Spend(kind)
    PROVE  IInv'
<1>1. pid \in Pid /\ \A p \in Pid : PreparedRuns(p) => p = pid
  BY DEF IInv, PrepareSound
<1>2. CASE UNCHANGED <<proc, record>>
  BY <1>2, UnchangedStartsNone, ReturnStep DEF IInv
<1>3. CASE Stopped(pid) /\ record' = record
  BY <1>1, <1>3, StoppedStartsNone, ReturnStep DEF IInv
<1>4. CASE Stopped(pid) /\ record' = NoRecord(want)
  <2>1. NoneStarts /\ proc'[pid].is # "running"
    BY <1>1, <1>4, StoppedStartsNone DEF IInv
  <2>2. \A p \in Pid : ~PreparedRuns(p)'
    BY <1>1, <2>1 DEF NoneStarts, PreparedRuns, Running
  <2>3. QED
    BY <1>4, <2>1, <2>2, ForgetIntent
<1>5. QED
  BY <1>2, <1>3, <1>4 DEF Abandon

LEMMA IdentifyStep == ASSUME IInv, Identify PROVE IInv'
<1> USE DEF IInv
<1>1. pc = "identify" /\ UNCHANGED <<boot, gateway>>
  BY DEF Identify
<1>2. CASE Goto("record") /\ UNCHANGED <<record, proc, pid, left>>
  <2>1. pc' = "record" /\ UNCHANGED <<op, want>>
    BY <1>2 DEF Goto
  <2>2. TypeOK' /\ LeftSound' /\ PreparedOwned' /\ GatewayOwned'
    BY <1>1, <1>2, <2>1, UnchangedStartsNone, QuietStep DEF TypeOK, SessionTyped
  <2>3. ReleaseSound' /\ GatewaySound'
    BY <1>1, <2>1 DEF ReleaseSound, GatewaySound, ReleasePc
  <2>4. PrepareSound'
    BY <1>1, <1>2, <2>1 DEF PrepareSound, PreparedRuns, Running
  <2>5. QED
    BY <2>2, <2>3, <2>4
<1>3. CASE Abandon /\ Return /\ (UNCHANGED left \/ Spend("fault"))
  BY <1>1, <1>3, AbandonStep DEF Disturbance
<1>4. QED
  BY <1>2, <1>3 DEF Identify

\* From its intent the record goes over to the very child that was forked.
LEMMA RecordIdentityStep == ASSUME IInv, RecordIdentity PROVE IInv'
<1> USE DEF IInv
<1>1. pc = "record" /\ UNCHANGED <<boot, gateway>>
  BY DEF RecordIdentity
<1>2. CASE Write([record EXCEPT !.pid = pid]) /\ Goto("ready") /\ UNCHANGED <<proc, pid>>
  <2>1. /\ record' = [exists |-> TRUE, boot |-> boot, pid |-> pid, graph |-> want]
        /\ pc' = "ready" /\ UNCHANGED <<op, want, left, proc, pid>>
    <3>1. record = [exists |-> TRUE, boot |-> boot, pid |-> NoPid, graph |-> want]
      BY <1>1 DEF PrepareSound
    <3>2. record' = [record EXCEPT !.pid = pid]
      BY <1>2 DEF Write
    <3>3. QED
      BY <1>2, <3>1, <3>2 DEF Write, Goto
  <2>2. /\ pid \in Pid /\ proc[pid].graph = want /\ ~gateway.exists /\ op = "prepare"
        /\ \A p \in Pid : PreparedRuns(p) => p = pid
    BY <1>1 DEF PrepareSound
  <2>3. TypeOK'
    BY <1>1, <2>1 DEF TypeOK, Record
  <2>4. PreparedOwned'
    BY <1>1, <2>1, <2>2 DEF PreparedOwned, PreparedRuns, Running, Identified
  <2>5. GatewayOwned' /\ LeftSound'
    BY <1>1, <2>1 DEF GatewayOwned, GatewayRuns, Running, Used, LeftSound
  <2>6. ReleaseSound' /\ GatewaySound'
    BY <1>1, <2>1, <2>2 DEF ReleaseSound, GatewaySound, ReleasePc
  <2>7. PrepareSound'
    BY <1>1, <2>1, <2>2 DEF PrepareSound
  <2>8. QED
    BY <2>3, <2>4, <2>5, <2>6, <2>7
<1>3. CASE Abandon /\ Return /\ Spend("fault")
  BY <1>1, <1>3, AbandonStep DEF Disturbance
<1>4. QED
  BY <1>2, <1>3 DEF RecordIdentity

LEMMA WaitReadyStep == ASSUME IInv, WaitReady PROVE IInv'
<1> USE DEF IInv
<1>1. /\ pc = "ready" /\ UNCHANGED <<boot, record, gateway, proc, pid>>
      /\ UNCHANGED left \/ Spend("fault")
      /\ want' = want
      /\ \/ pc' = "using" /\ op' = op /\ Running(pid)
         \/ pc' = "release" /\ op' = "failed"
  BY DEF WaitReady, Goto
<1>2. TypeOK' /\ LeftSound' /\ PreparedOwned' /\ GatewayOwned'
  BY <1>1, UnchangedStartsNone, QuietStep DEF TypeOK, SessionTyped, Disturbance
<1>3. ReleaseSound' /\ GatewaySound'
  BY <1>1 DEF ReleaseSound, GatewaySound, PrepareSound, ReleasePc
<1>4. PrepareSound'
  BY <1>1, PreparedAssumption DEF PrepareSound, Running, Identified
<1>5. QED
  BY <1>2, <1>3, <1>4

-----------------------------------------------------------------------------
(* The gateway's engine.                                                   *)

LEMMA BeginGatewayStep ==
    ASSUME IInv, BeginGatewayStart \/ BeginGatewayStop PROVE IInv'
<1> USE DEF IInv
<1>1. /\ pc = "idle" /\ pc' = "release"
      /\ \/ op' = "gateway_start" /\ ~gateway.exists
         \/ op' = "gateway_stop"
      /\ UNCHANGED <<boot, record, gateway, proc, want, pid, left>>
  BY DEF BeginGatewayStart, BeginGatewayStop
<1>2. TypeOK' /\ LeftSound' /\ PreparedOwned' /\ GatewayOwned'
  BY <1>1, UnchangedStartsNone, QuietStep DEF TypeOK, SessionTyped
<1>3. ReleaseSound' /\ PrepareSound' /\ GatewaySound'
  BY <1>1 DEF ReleaseSound, PrepareSound, GatewaySound, ReleasePc
<1>4. QED
  BY <1>2, <1>3

LEMMA GatewayJournalStep == ASSUME IInv, GatewayJournal PROVE IInv'
<1> USE DEF IInv
<1>1. /\ pc = "gateway_journal" /\ pc' = "gateway_fork" /\ op = "gateway_start"
      /\ gateway' = [exists |-> TRUE, boot |-> boot, pid |-> NoPid]
      /\ UNCHANGED <<op, want, boot, record, proc, pid, left>>
      /\ ~gateway.exists /\ \A p \in Pid : ~PreparedRuns(p)
  BY DEF GatewayJournal, Goto, GatewaySound, ReleaseSound, PrepareSound
<1>2. TypeOK' /\ LeftSound'
  BY <1>1 DEF TypeOK, LeftSound, Gateway
<1>3. PreparedOwned'
  BY <1>1 DEF PreparedOwned, PreparedRuns, Running, Identified
<1>4. GatewayOwned'
  BY <1>1 DEF GatewayOwned, GatewayRuns, Running, Used
<1>5. ReleaseSound' /\ PrepareSound' /\ GatewaySound'
  BY <1>1 DEF ReleaseSound, PrepareSound, GatewaySound, ReleasePc
<1>6. QED
  BY <1>2, <1>3, <1>4, <1>5

\* A start that gives up drops a state that names no engine.
LEMMA GivesUpStep ==
    ASSUME IInv, pc \in {"gateway_fork", "gateway_record"}, GatewayGivesUp, Return,
           UNCHANGED <<boot, record>>, NoneStarts,
           UNCHANGED left \/ \E kind \in Disturbance : Spend(kind),
           pc = "gateway_record" /\ pid \in Pid => proc'[pid].is # "running"
    PROVE  IInv'
<1> USE DEF IInv
<1>1. /\ pc' = "idle" /\ op' = "none" /\ pid' = NoPid /\ want' = want
      /\ gateway.exists /\ gateway.boot = boot /\ gateway.pid = NoPid
      /\ gateway' \in {gateway, NoGateway}
  BY DEF Return, GatewaySound, GatewayGivesUp
<1>2. /\ left' \in [Disturbance -> Nat] /\ LeftSound'
      /\ \A k \in Disturbance : Used(k)' = 0 => Used(k) = 0
  BY SpendBounds, LeftUnchanged
<1>3. TypeOK'
  <2>1. gateway' \in Gateway
    <3>1. gateway \in Gateway /\ NoGateway \in Gateway
      BY DEF TypeOK, Gateway, NoGateway
    <3>2. QED BY <1>1, <3>1
  <2>2. QED
    BY <1>1, <1>2, <2>1 DEF TypeOK, NoneStarts
<1>4. \A p \in Pid : ~PreparedRuns(p)'
  BY <1>1 DEF PreparedOwned, NoneStarts, PreparedRuns, Running
<1>5. Used("gateway_crash")' = 0 => \A p \in Pid : ~GatewayRuns(p)'
  BY <1>1, <1>2, PreparedAssumption
     DEF GatewayOwned, NoneStarts, GatewayRuns, Running, Disturbance
<1>6. PreparedOwned'
  BY <1>1, <1>4 DEF TypeOK, PreparedOwned, NoneStarts, Identified, Record
<1>7. GatewayOwned'
  BY <1>5 DEF GatewayOwned
<1>8. ReleaseSound' /\ PrepareSound' /\ GatewaySound'
  BY <1>1 DEF ReleaseSound, PrepareSound, GatewaySound, ReleasePc
<1>9. QED
  BY <1>2, <1>3, <1>6, <1>7, <1>8

\* The one place where a gateway's engine starts: its state names none.
LEMMA GatewayForkStep == ASSUME IInv, GatewayFork PROVE IInv'
<1> USE DEF IInv
<1>1. /\ pc = "gateway_fork" /\ UNCHANGED <<boot, record>>
      /\ gateway.exists /\ gateway.boot = boot /\ gateway.pid = NoPid
      /\ \A p \in Pid : ~PreparedRuns(p)
  BY DEF GatewayFork, GatewaySound, PreparedOwned
<1>2. CASE \E p \in Fresh :
             /\ Forked(p, "gateway") /\ pid' = p
             /\ Goto("gateway_record") /\ UNCHANGED <<gateway, left>>
  <2>1. PICK p \in Pid :
          /\ proc[p].is = "free" /\ p # record.pid
          /\ proc' = [proc EXCEPT ![p] = [is |-> "running", for |-> "gateway", graph |-> want]]
          /\ pid' = p /\ pc' = "gateway_record"
          /\ UNCHANGED <<op, want, gateway, left>>
    BY <1>2 DEF Fresh, Forked, Goto
  <2>2. TypeOK' /\ LeftSound'
    BY <1>1, <2>1 DEF TypeOK, LeftSound, Process
  <2>3. \A q \in Pid : /\ q # p => proc'[q] = proc[q]
                       /\ proc'[p] = [is |-> "running", for |-> "gateway", graph |-> want]
    BY <2>1 DEF TypeOK
  <2>4. PreparedOwned'
    BY <1>1, <2>1, <2>3 DEF TypeOK, Record, PreparedOwned, PreparedRuns, Running, Identified
  <2>5. GatewayOwned'
    BY <1>1, <2>1, <2>3, PreparedAssumption DEF GatewayOwned, GatewayRuns, Running, Used
  <2>6. ReleaseSound' /\ PrepareSound' /\ GatewaySound'
    BY <1>1, <2>1 DEF ReleaseSound, PrepareSound, GatewaySound, ReleasePc
  <2>7. QED
    BY <2>2, <2>4, <2>5, <2>6
<1>3. CASE ForkFails /\ GatewayGivesUp /\ Return /\ UNCHANGED proc
  <2>1. UNCHANGED left \/ \E kind \in Disturbance : Spend(kind)
    BY <1>3 DEF ForkFails, Disturbance
  <2>2. QED
    BY <1>1, <1>3, <2>1, UnchangedStartsNone, GivesUpStep
<1>4. QED
  BY <1>2, <1>3 DEF GatewayFork

LEMMA GatewayRecordStep == ASSUME IInv, GatewayRecord PROVE IInv'
<1> USE DEF IInv
<1>1. /\ pc = "gateway_record" /\ Return /\ UNCHANGED <<boot, record>>
      /\ gateway.exists /\ gateway.boot = boot /\ gateway.pid = NoPid
  BY DEF GatewayRecord, GatewaySound
<1>2. CASE gateway' = [gateway EXCEPT !.pid = pid] /\ UNCHANGED <<proc, left>>
  <2>1. /\ pc' = "idle" /\ op' = "none" /\ pid' = NoPid /\ want' = want
        /\ gateway' = [exists |-> TRUE, boot |-> boot, pid |-> pid]
    BY <1>1, <1>2 DEF Return, TypeOK, Gateway
  <2>2. TypeOK' /\ LeftSound'
    BY <1>1, <1>2, <2>1 DEF TypeOK, LeftSound, Gateway
  <2>3. PreparedOwned'
    BY <1>1, <1>2, <2>1 DEF PreparedOwned, PreparedRuns, Running, Identified
  <2>4. GatewayOwned'
    BY <1>1, <1>2, <2>1 DEF GatewayOwned, GatewayRuns, Running, Used
  <2>5. ReleaseSound' /\ PrepareSound' /\ GatewaySound'
    BY <2>1 DEF ReleaseSound, PrepareSound, GatewaySound, ReleasePc
  <2>6. QED
    BY <2>2, <2>3, <2>4, <2>5
<1>3. CASE Spend("fault") /\ Stopped(pid) /\ GatewayGivesUp
  <2>1. NoneStarts /\ (pid \in Pid => proc'[pid].is # "running")
    BY <1>3, StoppedStartsNone DEF TypeOK
  <2>2. QED
    BY <1>1, <1>3, <2>1, GivesUpStep DEF Disturbance
<1>4. QED
  BY <1>2, <1>3 DEF GatewayRecord

\* An engine of this boot is stopped; a state of an earlier boot covers none.
LEMMA GatewayKillStep == ASSUME IInv, GatewayKill PROVE IInv'
<1> USE DEF IInv
<1>1. pc = "gateway_kill" /\ UNCHANGED <<boot, record, gateway>>
  BY DEF GatewayKill
<1>2. CASE /\ IF gateway.exists /\ BelongsToBoot(gateway)
              THEN Stopped(gateway.pid) ELSE UNCHANGED proc
           /\ Goto("gateway_clear") /\ UNCHANGED <<pid, left>>
  <2>1. pc' = "gateway_clear" /\ UNCHANGED <<op, want, pid, left>>
    BY <1>2 DEF Goto
  <2>2. gateway.pid \in Pid \cup {NoPid}
    BY DEF TypeOK, Gateway
  <2>3. /\ NoneStarts
        /\ gateway.exists /\ gateway.boot = boot /\ gateway.pid \in Pid =>
              proc'[gateway.pid].is # "running"
    BY <1>2, <2>2, StoppedStartsNone, UnchangedStartsNone DEF BelongsToBoot
  <2>4. TypeOK' /\ LeftSound' /\ PreparedOwned' /\ GatewayOwned'
    BY <1>1, <2>1, <2>3, QuietStep DEF TypeOK, SessionTyped
  <2>5. ReleaseSound' /\ PrepareSound'
    BY <1>1, <2>1 DEF ReleaseSound, PrepareSound, ReleasePc
  <2>6. GatewaySound'
    <3>1. SUFFICES ASSUME Used("gateway_crash")' = 0, NEW p \in Pid, GatewayRuns(p)'
                   PROVE  FALSE
      BY <2>1 DEF GatewaySound
    <3>2. GatewayRuns(p) /\ Used("gateway_crash") = 0
      BY <2>1, <2>3, <3>1 DEF NoneStarts, GatewayRuns, Running, Used
    <3>3. p = gateway.pid /\ gateway.exists /\ gateway.boot = boot
      BY <1>1, <3>2 DEF GatewayOwned
    <3>4. QED
      BY <2>3, <3>1, <3>3 DEF GatewayRuns, Running
  <2>7. QED
    BY <2>4, <2>5, <2>6
<1>3. CASE Spend("fault") /\ Return /\ UNCHANGED proc
  BY <1>1, <1>3, UnchangedStartsNone, ReturnStep DEF Disturbance
<1>4. QED
  BY <1>2, <1>3 DEF GatewayKill

LEMMA GatewayClearStep == ASSUME IInv, GatewayClear PROVE IInv'
<1> USE DEF IInv
<1>1. /\ pc = "gateway_clear" /\ gateway' = NoGateway
      /\ pc' = "idle" /\ op' = "none" /\ pid' = NoPid /\ want' = want
      /\ UNCHANGED <<boot, record, proc, left>>
  BY DEF GatewayClear, Return
<1>2. TypeOK' /\ LeftSound'
  BY <1>1 DEF TypeOK, LeftSound, Gateway, NoGateway
<1>3. PreparedOwned'
  BY <1>1 DEF PreparedOwned, PreparedRuns, Running, Identified, NoGateway
<1>4. GatewayOwned'
  BY <1>1 DEF GatewayOwned, GatewaySound, GatewayRuns, Running, Used
<1>5. ReleaseSound' /\ PrepareSound' /\ GatewaySound'
  BY <1>1 DEF ReleaseSound, PrepareSound, GatewaySound, ReleasePc
<1>6. QED
  BY <1>2, <1>3, <1>4, <1>5

\* While an engine is replaced the state names none, but the session does.
LEMMA BeginGatewayRestartStep == ASSUME IInv, BeginGatewayRestart PROVE IInv'
<1> USE DEF IInv
<1>1. /\ pc = "idle" /\ gateway.exists /\ gateway.boot = boot
      /\ pid' = gateway.pid /\ pc' = "gateway_replace" /\ op' = "gateway_restart"
      /\ gateway' = [exists |-> TRUE, boot |-> boot, pid |-> NoPid]
      /\ UNCHANGED <<boot, record, proc, want, left>>
  BY DEF BeginGatewayRestart, BelongsToBoot, TypeOK, Gateway
<1>2. TypeOK' /\ LeftSound'
  BY <1>1 DEF TypeOK, LeftSound, Gateway
<1>3. PreparedOwned'
  BY <1>1 DEF PreparedOwned, PreparedRuns, Running, Identified
<1>4. GatewayOwned'
  BY <1>1 DEF GatewayOwned, GatewayRuns, Running, Used
<1>5. ReleaseSound' /\ PrepareSound' /\ GatewaySound'
  BY <1>1 DEF ReleaseSound, PrepareSound, GatewaySound, ReleasePc
<1>6. QED
  BY <1>2, <1>3, <1>4, <1>5

LEMMA GatewayReplaceStep == ASSUME IInv, GatewayReplace PROVE IInv'
<1> USE DEF IInv
<1>1. /\ pc = "gateway_replace" /\ UNCHANGED <<boot, record>>
      /\ gateway.exists /\ gateway.boot = boot /\ gateway.pid = NoPid
  BY DEF GatewayReplace, GatewaySound
<1>2. CASE Stopped(pid) /\ Goto("gateway_fork") /\ UNCHANGED <<gateway, pid, left>>
  <2>1. /\ NoneStarts /\ (pid \in Pid => proc'[pid].is # "running")
        /\ pc' = "gateway_fork" /\ UNCHANGED <<op, want>>
    BY <1>2, StoppedStartsNone DEF TypeOK, Goto
  <2>2. TypeOK' /\ LeftSound'
    BY <1>1, <1>2, <2>1 DEF TypeOK, LeftSound, NoneStarts
  <2>3. PreparedOwned'
    BY <1>1, <1>2, <2>1, PreparedKept
  <2>4. GatewayOwned'
    <3>1. SUFFICES ASSUME Used("gateway_crash")' = 0, NEW p \in Pid, GatewayRuns(p)'
                   PROVE  FALSE
      BY DEF GatewayOwned
    <3>2. GatewayRuns(p) /\ Used("gateway_crash") = 0
      BY <1>2, <2>1, <3>1 DEF NoneStarts, GatewayRuns, Running, Used
    <3>3. p = pid
      BY <1>1, <3>2 DEF GatewayOwned
    <3>4. QED
      BY <2>1, <3>1, <3>3 DEF GatewayRuns, Running
  <2>5. ReleaseSound' /\ PrepareSound' /\ GatewaySound'
    BY <1>1, <1>2, <2>1 DEF ReleaseSound, PrepareSound, GatewaySound, ReleasePc
  <2>6. QED
    BY <2>2, <2>3, <2>4, <2>5
<1>3. CASE /\ Spend("fault") /\ gateway' = [gateway EXCEPT !.pid = pid]
           /\ Return /\ UNCHANGED proc
  <2>1. /\ pc' = "idle" /\ op' = "none" /\ pid' = NoPid /\ want' = want
        /\ gateway' = [exists |-> TRUE, boot |-> boot, pid |-> pid]
    BY <1>1, <1>3 DEF Return, TypeOK, Gateway
  <2>2. /\ left' \in [Disturbance -> Nat] /\ LeftSound'
        /\ \A k \in Disturbance : Used(k)' = 0 => Used(k) = 0
    BY <1>3, SpendBounds DEF Disturbance
  <2>3. TypeOK'
    BY <1>1, <1>3, <2>1, <2>2 DEF TypeOK, Gateway
  <2>4. PreparedOwned'
    BY <1>1, <1>3, <2>1 DEF PreparedOwned, PreparedRuns, Running, Identified
  <2>5. GatewayOwned'
    BY <1>1, <1>3, <2>1, <2>2 DEF GatewayOwned, GatewayRuns, Running, Disturbance
  <2>6. ReleaseSound' /\ PrepareSound' /\ GatewaySound'
    BY <2>1 DEF ReleaseSound, PrepareSound, GatewaySound, ReleasePc
  <2>7. QED
    BY <2>2, <2>3, <2>4, <2>5, <2>6
<1>4. QED
  BY <1>2, <1>3 DEF GatewayReplace

-----------------------------------------------------------------------------
(* The environment.                                                        *)

LEMMA CrashStep == ASSUME IInv, Crash PROVE IInv'
<1>1. /\ Return /\ UNCHANGED <<boot, record, gateway, proc>>
      /\ \/ pc \in {"gateway_record", "gateway_replace"} /\ Spend("gateway_crash")
         \/ pc \notin {"gateway_record", "gateway_replace"} /\ Spend("crash")
  BY DEF Crash
<1>2. QED
  BY <1>1, UnchangedStartsNone, ReturnStep DEF IInv, Disturbance

LEMMA RebootStep == ASSUME IInv, Reboot PROVE IInv'
<1> USE DEF IInv
<1>1. /\ boot' = boot + 1 /\ UNCHANGED <<record, gateway>>
      /\ proc' = [p \in Pid |-> [proc[p] EXCEPT !.is = "free"]]
      /\ pc' = "idle" /\ op' = "none" /\ pid' = NoPid /\ want' = want
  BY DEF Reboot, Return
<1>2. left' \in [Disturbance -> Nat] /\ LeftSound'
  BY SpendBounds DEF Reboot, Disturbance
<1>3. \A p \in Pid : ~Running(p)' /\ proc'[p].graph = proc[p].graph
  BY <1>1 DEF TypeOK, Process, Running
<1>4. TypeOK'
  BY <1>1, <1>2 DEF TypeOK, Process
<1>5. PreparedOwned' /\ GatewayOwned'
  BY <1>1, <1>3 DEF TypeOK, Record, PreparedOwned, GatewayOwned, PreparedRuns,
     GatewayRuns, Identified
<1>6. ReleaseSound' /\ PrepareSound' /\ GatewaySound'
  BY <1>1 DEF ReleaseSound, PrepareSound, GatewaySound, ReleasePc
<1>7. QED
  BY <1>2, <1>4, <1>5, <1>6

LEMMA ExitsStep == ASSUME IInv, NEW p \in Pid, Exits(p) PROVE IInv'
<1> USE DEF IInv
<1>1. /\ \/ proc[p].is = "dying" /\ UNCHANGED left
         \/ proc[p].is = "running" /\ Spend("death")
      /\ proc' = [proc EXCEPT ![p].is = "free"]
      /\ UNCHANGED <<boot, record, gateway, pc, op, want, pid>>
  BY DEF Exits
<1>2. NoneStarts
  BY <1>1 DEF TypeOK, Process, NoneStarts
<1>3. /\ TypeOK' /\ LeftSound' /\ PreparedOwned' /\ GatewayOwned'
      /\ \A k \in Disturbance : Used(k)' = 0 => Used(k) = 0
  BY <1>1, <1>2, QuietStep DEF TypeOK, SessionTyped, Disturbance
<1>4. ReleaseSound'
  BY <1>1, <1>2 DEF ReleaseSound, NoneStarts, BelongsToBoot, Identified, Matches
<1>5. PrepareSound'
  <2>1. pc = "using" /\ Used("death")' = 0 => Running(record.pid)'
    <3>1. Spend("death") => Used("death")' # 0
      BY SpendBounds DEF Disturbance
    <3>2. proc[p].is = "dying" => p # record.pid \/ ~Running(record.pid)
      BY DEF Running
    <3>3. QED
      BY <1>1, <1>3, <3>1, <3>2 DEF PrepareSound, TypeOK, Running, Disturbance
  <2>2. QED
    BY <1>1, <1>2, <2>1 DEF PrepareSound, NoneStarts, PreparedRuns, Running, Identified
<1>6. GatewaySound'
  BY <1>1, <1>2, <1>3 DEF GatewaySound, NoneStarts, GatewayRuns, Running, Disturbance
<1>7. QED
  BY <1>3, <1>4, <1>5, <1>6

-----------------------------------------------------------------------------
(* The theorems.                                                           *)

\* Init establishes the invariant.
LEMMA InitSound == Init => IInv
<1> SUFFICES ASSUME Init PROVE IInv
  OBVIOUS
<1>1. TypeOK
  BY PreparedAssumption DEF Init, TypeOK, Record, NoRecord, Gateway, NoGateway, Process
<1>2. LeftSound
  BY PreparedAssumption DEF Init, LeftSound
<1>3. \A p \in Pid : ~Running(p)
  BY DEF Init, Running
<1>4. PreparedOwned /\ GatewayOwned
  BY <1>3 DEF Init, PreparedOwned, GatewayOwned, PreparedRuns, GatewayRuns,
     Identified, NoRecord
<1>5. ReleaseSound /\ PrepareSound /\ GatewaySound
  BY DEF Init, ReleaseSound, PrepareSound, GatewaySound
<1>6. QED
  BY <1>1, <1>2, <1>4, <1>5 DEF IInv

\* Every step keeps it.
LEMMA StepSound == IInv /\ [Next]_vars => IInv'
<1> SUFFICES ASSUME IInv, [Next]_vars PROVE IInv'
  OBVIOUS
<1>1. CASE Release
  <2>1. ReleaseDone => IInv'
    BY UnchangedStartsNone, ReturnStep DEF IInv, ReleaseDone
  <2>2. QED
    BY <1>1, <2>1, ReleaseCheckStep, ReleaseStopStep, ReleaseWaitStep,
       ReleaseRemoveStep DEF Release
<1>2. CASE Prepare
  <2>1. EndUse => IInv'
    BY UnchangedStartsNone, ReturnStep DEF IInv, EndUse
  <2>2. QED
    BY <1>2, <2>1, JournalStep, ForkStep, IdentifyStep, RecordIdentityStep,
       WaitReadyStep DEF Prepare
<1>3. CASE GatewayStep
  BY <1>3, GatewayJournalStep, GatewayForkStep, GatewayRecordStep,
     GatewayKillStep, GatewayClearStep, GatewayReplaceStep DEF GatewayStep
<1>4. CASE Request
  BY <1>4, BeginPrepareStep, BeginStopPreparedStep, BeginGatewayStep,
     BeginGatewayRestartStep DEF Request
<1>5. CASE Environment
  BY <1>5, CrashStep, RebootStep, ExitsStep DEF Environment
<1>6. CASE UNCHANGED vars
  BY <1>6 DEF vars, IInv, TypeOK, LeftSound, PreparedOwned, GatewayOwned,
     ReleaseSound, PrepareSound, GatewaySound, PreparedRuns, GatewayRuns,
     Running, Matches, Identified, BelongsToBoot, Used
<1>7. QED
  BY <1>1, <1>2, <1>3, <1>4, <1>5, <1>6 DEF Next

\* The invariant holds in every state.
LEMMA SpecSound == Spec => []IInv
BY InitSound, StepSound, PTL DEF Spec

\* At most one engine runs on the host, whoever forked it, and no prepared one
\* beside a gateway runtime: the two share a cache and a tailnet identity.
THEOREM OneEngineHolds == Spec => []OneEngine
<1>1. IInv => OneEngine
  <2> SUFFICES ASSUME IInv PROVE OneEngine
    OBVIOUS
  <2> USE DEF IInv
  <2>1. \A p \in Pid : Running(p) => PreparedRuns(p) \/ GatewayRuns(p)
    BY DEF TypeOK, Process, PreparedRuns, GatewayRuns
  <2>2. gateway.exists => \A p \in RunningEngines : proc[p].for = "gateway"
    BY <2>1 DEF PreparedOwned, RunningEngines, GatewayRuns
  <2>3. ASSUME Used("gateway_crash") = 0
        PROVE  Cardinality(RunningEngines) <= 1
    <3>1. \A p, q \in Pid : Running(p) /\ Running(q) => p = q
      BY <2>1, <2>3 DEF PreparedOwned, GatewayOwned
    <3>2. RunningEngines = {} \/ \E p : RunningEngines = {p}
      BY <3>1 DEF RunningEngines
    <3>3. CASE RunningEngines = {}
      BY <3>3, FS_EmptySet
    <3>4. ASSUME NEW p, RunningEngines = {p} PROVE Cardinality(RunningEngines) <= 1
      <4>1. Cardinality({p}) = 1
        BY FS_Singleton
      <4>2. QED
        BY <3>4, <4>1
    <3>5. QED
      BY <3>2, <3>3, <3>4
  <2>4. QED
    BY <2>2, <2>3 DEF OneEngine
<1>2. QED
  BY <1>1, SpecSound, PTL

\* Whoever uses the prepared engine's controller talks to an engine with the
\* policy graph it asked PrepareLocked for.
THEOREM WantedPolicyUsed == Spec => []UsesWantedPolicy
<1>1. IInv => UsesWantedPolicy
  BY PreparedAssumption DEF IInv, TypeOK, Record, PrepareSound, PreparedOwned, UsesWantedPolicy,
     Running, Matches, Identified
<1>2. QED
  BY <1>1, SpecSound, PTL

\* stopPreparedLocked gives up its claim on an engine it can name only after
\* that very process has gone.
THEOREM GivenUpWhenGone == Spec => ReleasedWhenGone
<1>1. IInv /\ [Next]_vars =>
        [record.exists /\ BelongsToBoot(record) /\ Identified /\ ~record'.exists
            => ~Matches(record.pid)]_vars
  <2> SUFFICES ASSUME IInv, Next, record.exists, BelongsToBoot(record), Identified,
                      ~record'.exists
               PROVE  ~Matches(record.pid)
    OBVIOUS
  <2> USE DEF IInv
  <2>1. record' # record
    OBVIOUS
  <2>2. CASE ReleaseRemove
    BY <2>2 DEF ReleaseRemove, ReleaseSound
  <2>3. CASE Journal
    BY <2>1, <2>3 DEF Journal, Write
  <2>4. CASE Fork \/ Identify \/ RecordIdentity
    BY <2>4 DEF Fork, Identify, RecordIdentity, PrepareSound, Identified
  <2>5. ReleaseRemove \/ Journal \/ Fork \/ Identify \/ RecordIdentity
    BY <2>1 DEF Next, Release, Prepare, GatewayStep, Request, Environment,
       ReleaseCheck, ReleaseStop, ReleaseWait, ReleaseDone, WaitReady, EndUse,
       GatewayJournal, GatewayFork, GatewayRecord, GatewayKill, GatewayClear,
       GatewayReplace, BeginPrepare, BeginStopPrepared, BeginGatewayStart,
       BeginGatewayStop, BeginGatewayRestart, Crash, Reboot, Exits
  <2>6. QED
    BY <2>2, <2>3, <2>4, <2>5
<1>2. QED
  BY <1>1, SpecSound, PTL DEF Spec, ReleasedWhenGone

-----------------------------------------------------------------------------
(* PolicyLease.                                                            *)

Counting == {"held", "leaving"}
Counted == {c \in Conn : far[c] \in Counting}

PolicyCountSound == holders = Cardinality(Counted)

\* A request that waits to hold the lease waits on a lease connection.
RequestSound == request.at = "hold" => request.on \in Conn

PolicyInv == PolicyTypeOK /\ PolicyCountSound /\ RequestSound

-----------------------------------------------------------------------------
(* Lemmas about the count.                                                 *)

\* Finitely many connections are counted, and none when the counter is 0.
LEMMA CountedFinite ==
    /\ IsFiniteSet(Counted)
    /\ Cardinality(Counted) \in 0 .. Cardinality(Conn)
    /\ Cardinality(Counted) = 0 <=> \A c \in Conn : far[c] \notin Counting
<1>1. Counted \in SUBSET Conn
  BY DEF Counted
<1>2. IsFiniteSet(Counted) /\ Cardinality(Counted) <= Cardinality(Conn)
  BY <1>1, FS_Subset, PolicyLeaseAssumption
<1>3. Cardinality(Counted) \in Nat /\ Cardinality(Conn) \in Nat
  BY <1>2, FS_CardinalityType, PolicyLeaseAssumption
<1>4. Cardinality(Counted) = 0 <=> Counted = {}
  BY <1>2, FS_EmptySet
<1>5. QED
  BY <1>2, <1>3, <1>4 DEF Counted

\* The same of the state after a step.
LEMMA CountedFiniteNext ==
    /\ IsFiniteSet(Counted')
    /\ Cardinality(Counted') \in 0 .. Cardinality(Conn)
    /\ Cardinality(Counted') = 0 <=> \A c \in Conn : far'[c] \notin Counting
<1>1. Counted' \in SUBSET Conn
  BY DEF Counted
<1>2. IsFiniteSet(Counted') /\ Cardinality(Counted') <= Cardinality(Conn)
  BY <1>1, FS_Subset, PolicyLeaseAssumption
<1>3. Cardinality(Counted') \in Nat /\ Cardinality(Conn) \in Nat
  BY <1>2, FS_CardinalityType, PolicyLeaseAssumption
<1>4. Cardinality(Counted') = 0 <=> Counted' = {}
  BY <1>2, FS_EmptySet
<1>5. QED
  BY <1>2, <1>3, <1>4 DEF Counted

\* What the helper's far of a connection can be.
Side == {"none", "asked", "held", "leaving", "retry", "gone"}

\* A connection that begins to hold adds one to the holders.
LEMMA CountGrows ==
    ASSUME PolicyTypeOK, NEW c \in Conn, far[c] \notin Counting,
           NEW v \in Counting, far' = [far EXCEPT ![c] = v]
    PROVE  Cardinality(Counted') = Cardinality(Counted) + 1
<1>1. Counted' = Counted \cup {c} /\ c \notin Counted
  BY DEF PolicyTypeOK, Counted
<1>2. QED
  BY <1>1, CountedFinite, FS_AddElement

\* A connection that is released takes one away.
LEMMA CountShrinks ==
    ASSUME PolicyTypeOK, NEW c \in Conn, far[c] \in Counting,
           NEW v \in Side \ Counting, far' = [far EXCEPT ![c] = v]
    PROVE  Cardinality(Counted') = Cardinality(Counted) - 1
<1>1. Counted' = Counted \ {c} /\ c \in Counted
  BY DEF PolicyTypeOK, Counted
<1>2. QED
  BY <1>1, CountedFinite, FS_RemoveElement

\* A connection that is counted before and after, or neither, leaves it alone.
LEMMA CountSame ==
    ASSUME PolicyTypeOK, NEW c \in Conn, NEW v \in Side,
           far[c] \in Counting <=> v \in Counting,
           far' = [far EXCEPT ![c] = v]
    PROVE  Counted' = Counted /\ far' \in [Conn -> Side]
BY DEF PolicyTypeOK, Counted, Side

\* So does a near end that closes: it only clears away what had already gone.
LEMMA CountForgotten ==
    ASSUME PolicyTypeOK, far' = Forgotten
    PROVE  Counted' = Counted /\ far' \in [Conn -> Side]
BY DEF PolicyTypeOK, Counted, Counting, Forgotten, Side

\* What is left of a kind of disturbance is spent one by one.
LEMMA SpendTypes ==
    ASSUME PolicyTypeOK, NEW kind \in Bound, Afford(kind)
    PROVE  budget' \in [Bound -> Nat]
BY DEF PolicyTypeOK, Afford

-----------------------------------------------------------------------------
(* The control service: no step of it changes the count.                   *)

LEMMA AskStep == ASSUME PolicyInv, Ask PROVE PolicyInv'
<1>1. Counted' = Counted
  BY DEF Ask, leases, Counted
<1>2. QED
  BY <1>1 DEF PolicyInv, Ask, leases, PolicyTypeOK, PolicyCountSound, RequestSound

LEMMA DialStep == ASSUME PolicyInv, Dial PROVE PolicyInv'
<1> USE DEF PolicyInv
<1>1. CASE /\ helper # "up" /\ Answered("error") /\ UNCHANGED far
  <2>1. Counted' = Counted
    BY <1>1 DEF Counted
  <2>2. QED
    BY <1>1, <2>1 DEF Dial, Answered, PolicyTypeOK, PolicyCountSound, RequestSound
<1>2. CASE \E c \in Conn :
              /\ far[c] = "none" /\ request' = [at |-> "hold", on |-> c]
              /\ far' = [far EXCEPT ![c] = "asked"] /\ UNCHANGED answer
  <2>1. PICK c \in Conn :
              /\ far[c] = "none" /\ request' = [at |-> "hold", on |-> c]
              /\ far' = [far EXCEPT ![c] = "asked"] /\ UNCHANGED answer
    BY <1>2
  <2>2. Counted' = Counted /\ far' \in [Conn -> Side]
    BY <2>1, CountSame DEF Counting, Side
  <2>3. QED
    BY <2>1, <2>2 DEF Dial, PolicyTypeOK, Side, PolicyCountSound, RequestSound
<1>3. QED
  BY <1>1, <1>2 DEF Dial

LEMMA HeldStep == ASSUME PolicyInv, Held PROVE PolicyInv'
<1>1. Counted' = Counted
  BY DEF Held, leases, Counted
<1>2. QED
  BY <1>1 DEF PolicyInv, Held, leases, PolicyTypeOK, PolicyCountSound, RequestSound

LEMMA NotHeldStep == ASSUME PolicyInv, NotHeld PROVE PolicyInv'
<1> USE DEF PolicyInv
<1>1. Counted' = Counted /\ far' \in [Conn -> Side]
  BY CountForgotten DEF NotHeld
<1>2. budget' \in [Bound -> Nat]
  BY SpendTypes DEF NotHeld, PolicyTypeOK, Bound
<1>3. QED
  BY <1>1, <1>2 DEF NotHeld, Answered, PolicyTypeOK, Side, PolicyCountSound, RequestSound

\* Resetting or not, the lease connections holders as before.
LEMMA ResetSame ==
    ASSUME PolicyTypeOK, Reset \/ UNCHANGED <<service, far>>
    PROVE  /\ Counted' = Counted /\ far' \in [Conn -> Side]
           /\ service' \in [is : {"up", "closed", "down"}, closer : Conn \cup {None}]
<1>1. CASE Reset
  BY <1>1, CountForgotten DEF Reset, PolicyTypeOK
<1>2. CASE UNCHANGED <<service, far>>
  BY <1>2 DEF PolicyTypeOK, Counted, Side
<1>3. QED
  BY <1>1, <1>2

\* What a request carries on with, or ends with.
LEMMA RequestSteps ==
    ASSUME PolicyInv, Send \/ Receive \/ GiveUp PROVE PolicyInv'
<1> USE DEF PolicyInv
<1>1. Reset \/ UNCHANGED <<service, far>>
  BY DEF Send, Receive, GiveUp
<1>2. /\ Counted' = Counted /\ far' \in [Conn -> Side]
      /\ service' \in [is : {"up", "closed", "down"}, closer : Conn \cup {None}]
  BY <1>1, ResetSame
<1>3. /\ request' \in [at : {"idle", "wait"}, on : Call \cup {None}]
      /\ answer' \in {"none", "ok", "error"}
  BY DEF Send, Receive, GiveUp, Answered, PolicyTypeOK
<1>4. call' \in [Call -> {"none", "asked", "running", "ok", "error", "gone"}]
  BY DEF Send, Receive, GiveUp, PolicyTypeOK
<1>5. budget' \in [Bound -> Nat]
  BY SpendTypes DEF Send, Receive, GiveUp, PolicyTypeOK, Bound
<1>6. UNCHANGED <<helper, tries, holders, lock, engine, runtime, pending>>
  BY DEF Send, Receive, GiveUp
<1>7. PolicyTypeOK'
  BY <1>2, <1>3, <1>4, <1>5, <1>6 DEF PolicyTypeOK, Side
<1>8. QED
  BY <1>2, <1>3, <1>6, <1>7 DEF PolicyCountSound, RequestSound

LEMMA ServiceSteps ==
    ASSUME PolicyInv, Close \/ ServiceEnds \/ ServiceStarts PROVE PolicyInv'
<1> USE DEF PolicyInv
<1>1. Counted' = Counted /\ far' \in [Conn -> Side]
  <2>1. CASE far' = Forgotten
    BY <2>1, CountForgotten
  <2>2. CASE UNCHANGED far
    BY <2>2 DEF Counted, PolicyTypeOK, Side
  <2>3. QED
    BY <2>1, <2>2 DEF Close, ServiceEnds, ServiceStarts, leases
<1>2. budget' \in [Bound -> Nat]
  BY SpendTypes DEF Close, ServiceEnds, ServiceStarts, PolicyTypeOK, Bound
<1>3. /\ service' \in [is : {"up", "closed", "down"}, closer : Conn \cup {None}]
      /\ request' = request \/ request' = [at |-> "idle", on |-> None]
      /\ answer' \in {"none", "ok", "error"}
  BY DEF Close, ServiceEnds, ServiceStarts, Answered, PolicyTypeOK
<1>4. call' \in [Call -> {"none", "asked", "running", "ok", "error", "gone"}]
  BY DEF Close, ServiceEnds, ServiceStarts, PolicyTypeOK
<1>5. UNCHANGED <<helper, tries, holders, lock, engine, runtime, pending>>
  BY DEF Close, ServiceEnds, ServiceStarts, leases
<1>6. PolicyTypeOK'
  BY <1>1, <1>2, <1>3, <1>4, <1>5 DEF PolicyTypeOK, Side
<1>7. QED
  BY <1>1, <1>3, <1>5, <1>6 DEF PolicyCountSound, RequestSound

-----------------------------------------------------------------------------
(* The helper.                                                             *)

LEMMA AcquireStep ==
    ASSUME PolicyInv, NEW c \in Conn, Acquire(c) PROVE PolicyInv'
<1> USE DEF PolicyInv
<1>1. /\ far[c] = "asked" /\ far' = [far EXCEPT ![c] = "held"]
      /\ holders' = holders + 1
  BY DEF Acquire
<1>2. holders' = Cardinality(Counted')
  BY <1>1, CountGrows DEF PolicyCountSound, Counting
<1>3. PolicyTypeOK'
  BY <1>1, <1>2, CountedFiniteNext DEF Acquire, control, PolicyTypeOK
<1>4. QED
  BY <1>2, <1>3 DEF Acquire, control, PolicyCountSound, RequestSound

LEMMA DisconnectedStep ==
    ASSUME PolicyInv, NEW c \in Conn, Disconnected(c) PROVE PolicyInv'
<1> USE DEF PolicyInv
<1>1. Counted' = Counted /\ far' \in [Conn -> Side]
  BY CountSame DEF Disconnected, Counting, Side
<1>2. QED
  BY <1>1 DEF Disconnected, control, PolicyTypeOK, Side, PolicyCountSound, RequestSound

\* What an attempt leaves behind of its connection, which no longer counts.
LEMMA AttemptTypes ==
    ASSUME PolicyTypeOK, NEW c \in Conn, NEW n \in 0 .. Attempts - 1, Attempt(c, n)
    PROVE  /\ \E v \in Side \ Counting : far' = [far EXCEPT ![c] = v]
           /\ tries' \in [Conn -> 0 .. Attempts]
           /\ engine' \in BOOLEAN /\ budget' \in [Bound -> Nat]
<1>1. CASE StopWorks /\ far' = [far EXCEPT ![c] = Gone(c)] /\ tries' = [tries EXCEPT ![c] = 0]
  <2>1. Gone(c) \in Side \ Counting
    BY DEF Gone, Side, Counting
  <2>2. tries' \in [Conn -> 0 .. Attempts]
    BY <1>1, PolicyLeaseAssumption DEF PolicyTypeOK
  <2>3. QED
    BY <1>1, <2>1, <2>2 DEF StopWorks, PolicyTypeOK
<1>2. CASE StopFails /\ far' = [far EXCEPT ![c] = "retry"] /\ tries' = [tries EXCEPT ![c] = n + 1]
  <2>1. "retry" \in Side \ Counting
    BY DEF Side, Counting
  <2>2. tries' \in [Conn -> 0 .. Attempts]
    BY <1>2, PolicyLeaseAssumption DEF PolicyTypeOK
  <2>3. budget' \in [Bound -> Nat]
    BY <1>2, SpendTypes DEF StopFails, PolicyTypeOK, Bound
  <2>4. engine' \in BOOLEAN
    BY <1>2 DEF StopFails, PolicyTypeOK
  <2>5. QED
    BY <1>2, <2>1, <2>2, <2>3, <2>4
<1>3. QED
  BY <1>1, <1>2 DEF Attempt

LEMMA LeaveStep ==
    ASSUME PolicyInv, NEW c \in Conn, Leave(c) PROVE PolicyInv'
<1> USE DEF PolicyInv
<1>1. far[c] = "leaving" /\ holders' = holders - 1
  BY DEF Leave
<1>2. /\ \E v \in Side \ Counting : far' = [far EXCEPT ![c] = v]
      /\ tries' \in [Conn -> 0 .. Attempts]
      /\ engine' \in BOOLEAN /\ budget' \in [Bound -> Nat]
  <2>1. CASE holders' # 0
    <3>1. Gone(c) \in Side \ Counting
      BY DEF Gone, Side, Counting
    <3>2. QED
      BY <2>1, <3>1 DEF Leave, PolicyTypeOK
  <2>2. CASE holders' = 0
    <3>1. Attempt(c, 0) /\ UNCHANGED pending
      BY <2>2 DEF Leave
    <3>2. 0 \in 0 .. Attempts - 1
      BY PolicyLeaseAssumption
    <3>3. QED
      BY <3>1, <3>2, AttemptTypes
  <2>3. QED
    BY <2>1, <2>2
<1>3. PICK v \in Side \ Counting : far' = [far EXCEPT ![c] = v]
  BY <1>2
<1>4. holders' = Cardinality(Counted')
  BY <1>1, <1>3, CountShrinks DEF PolicyCountSound, Counting
<1>5. far' \in [Conn -> Side]
  BY <1>3 DEF PolicyTypeOK, Side
<1>6. UNCHANGED <<service, request, answer, helper, call, lock, runtime, pending>>
  BY DEF Leave, control
<1>7. PolicyTypeOK'
  BY <1>2, <1>4, <1>5, <1>6, CountedFiniteNext DEF PolicyTypeOK, Side
<1>8. QED
  BY <1>4, <1>6, <1>7 DEF PolicyCountSound, RequestSound

LEMMA PolicyRetryStep ==
    ASSUME PolicyInv, NEW c \in Conn, Retry(c) PROVE PolicyInv'
<1> USE DEF PolicyInv
<1>1. far[c] = "retry"
  BY DEF Retry
<1>2. /\ \E v \in Side \ Counting : far' = [far EXCEPT ![c] = v]
      /\ tries' \in [Conn -> 0 .. Attempts]
      /\ engine' \in BOOLEAN /\ budget' \in [Bound -> Nat]
      /\ pending' \in BOOLEAN
  <2>1. CASE /\ tries[c] < Attempts /\ Attempt(c, tries[c]) /\ UNCHANGED pending
    <3>1. tries[c] \in 0 .. Attempts - 1
      BY <2>1, PolicyLeaseAssumption DEF PolicyTypeOK
    <3>2. pending' \in BOOLEAN
      BY <2>1 DEF PolicyTypeOK
    <3>3. QED
      BY <2>1, <3>1, <3>2, AttemptTypes
  <2>2. CASE /\ far' = [far EXCEPT ![c] = Gone(c)] /\ tries' = [tries EXCEPT ![c] = 0]
             /\ UNCHANGED <<engine, budget>> /\ (UNCHANGED pending \/ pending' = TRUE)
    <3>1. Gone(c) \in Side \ Counting
      BY DEF Gone, Side, Counting
    <3>2. tries' \in [Conn -> 0 .. Attempts]
      BY <2>2, PolicyLeaseAssumption DEF PolicyTypeOK
    <3>3. engine' \in BOOLEAN /\ pending' \in BOOLEAN
      BY <2>2 DEF PolicyTypeOK
    <3>4. budget' \in [Bound -> Nat]
      BY <2>2 DEF PolicyTypeOK
    <3>5. QED
      BY <2>2, <3>1, <3>2, <3>3, <3>4
  <2>3. QED
    BY <2>1, <2>2 DEF Retry
<1>3. PICK v \in Side \ Counting : far' = [far EXCEPT ![c] = v]
  BY <1>2
<1>4. Counted' = Counted /\ far' \in [Conn -> Side]
  BY <1>1, <1>3, CountSame DEF Counting
<1>5. UNCHANGED <<service, request, answer, helper, holders, call, lock, runtime>>
  BY DEF Retry, control
<1>6. PolicyTypeOK'
  BY <1>2, <1>4, <1>5 DEF PolicyTypeOK, Side
<1>7. QED
  BY <1>4, <1>5, <1>6 DEF PolicyCountSound, RequestSound

\* A request changes neither who holds nor who is call.
LEMMA RunStep ==
    ASSUME PolicyInv, NEW k \in Call, Run(k) \/ Done(k) PROVE PolicyInv'
<1> USE DEF PolicyInv
<1>1. UNCHANGED <<service, request, answer, helper, far, tries, holders, runtime, pending>>
  BY DEF Run, Done, control, leases
<1>2. call' \in [Call -> {"none", "asked", "running", "ok", "error", "gone"}]
  BY DEF Run, Done, Finished, PolicyTypeOK
<1>3. budget' \in [Bound -> Nat]
  BY SpendTypes DEF Run, Done, PolicyTypeOK, Bound
<1>4. lock' \in Call \cup {None, "other"}
  BY DEF Run, Done, PolicyTypeOK
<1>5. engine' \in BOOLEAN
  BY Zenon DEF Run, Done, PolicyTypeOK
<1>6. Counted' = Counted
  BY <1>1 DEF Counted
<1>7. QED
  BY <1>1, <1>2, <1>3, <1>4, <1>5, <1>6 DEF PolicyTypeOK, PolicyCountSound, RequestSound

\* The lifecycle lock, the helper's context and its start leave the holders.
LEMMA OutsideSteps ==
    ASSUME PolicyInv, Transition \/ Locked \/ Unlocked \/ HelperCloses
           \/ HelperStarts
    PROVE  PolicyInv'
<1> USE DEF PolicyInv
<1>1. UNCHANGED <<service, request, answer, far, tries, holders, call, pending>>
  BY DEF Transition, Locked, Unlocked, HelperCloses, HelperStarts,
         control, leases
<1>2. budget' \in [Bound -> Nat]
  BY SpendTypes DEF Transition, Locked, Unlocked, HelperCloses, HelperStarts,
                    StopWorks, StopFails, PolicyTypeOK, Bound
<1>3. lock' \in Call \cup {None, "other"} /\ helper' \in {"up", "closing", "down"}
  BY DEF Transition, Locked, Unlocked, HelperCloses, HelperStarts, PolicyTypeOK
<1>4. engine' \in BOOLEAN /\ runtime' \in BOOLEAN
  BY Zenon DEF Transition, Locked, Unlocked, HelperCloses, HelperStarts,
               StopWorks, StopFails, PolicyTypeOK
<1>5. Counted' = Counted
  BY <1>1 DEF Counted
<1>6. QED
  BY <1>1, <1>2, <1>3, <1>4, <1>5 DEF PolicyTypeOK, PolicyCountSound, RequestSound

\* A helper that ends takes its holders and every connection along.
LEMMA PolicyHelperEndsStep ==
    ASSUME PolicyInv, HelperEnds PROVE PolicyInv'
<1> USE DEF PolicyInv
<1>1. /\ holders' = 0 /\ helper' = "down"
      /\ far' = [c \in Conn |-> IF Near(c) THEN "gone" ELSE "none"]
      /\ tries' = [c \in Conn |-> 0]
      /\ UNCHANGED <<service, request, answer, engine, runtime, pending>>
  BY DEF HelperEnds, control
<1>2. far' \in [Conn -> Side] /\ \A c \in Conn : far'[c] \notin Counting
  BY <1>1 DEF Side, Counting
<1>3. holders' = Cardinality(Counted')
  BY <1>1, <1>2, CountedFiniteNext
<1>4. call' \in [Call -> {"none", "asked", "running", "ok", "error", "gone"}]
  BY DEF HelperEnds
<1>5. budget' \in [Bound -> Nat] /\ lock' \in Call \cup {None, "other"}
  BY SpendTypes DEF HelperEnds, PolicyTypeOK, Bound
<1>6. tries' \in [Conn -> 0 .. Attempts]
  BY <1>1, PolicyLeaseAssumption
<1>7. PolicyTypeOK'
  BY <1>1, <1>2, <1>3, <1>4, <1>5, <1>6, CountedFiniteNext DEF PolicyTypeOK, Side
<1>8. QED
  BY <1>1, <1>3, <1>7 DEF PolicyCountSound, RequestSound

-----------------------------------------------------------------------------
(* The theorems.                                                           *)

\* Init establishes the invariant.
LEMMA PolicyInitSound == PolicyInit => PolicyInv
<1> SUFFICES ASSUME PolicyInit PROVE PolicyInv
  OBVIOUS
<1>1. holders = Cardinality(Counted)
  BY CountedFinite DEF PolicyInit, Counting
<1>2. PolicyTypeOK
  <2>1. holders \in 0 .. Cardinality(Conn)
    BY <1>1, CountedFinite
  <2>2. tries \in [Conn -> 0 .. Attempts]
    BY PolicyLeaseAssumption DEF PolicyInit
  <2>3. budget \in [Bound -> Nat]
    BY PolicyLeaseAssumption DEF PolicyInit
  <2>4. QED
    BY <2>1, <2>2, <2>3 DEF PolicyInit, PolicyTypeOK
<1>3. QED
  BY <1>1, <1>2 DEF PolicyInit, PolicyInv, PolicyCountSound, RequestSound

\* Every step keeps it.
LEMMA PolicyStepSound == PolicyInv /\ [PolicyNext]_policyVars => PolicyInv'
<1> SUFFICES ASSUME PolicyInv, [PolicyNext]_policyVars PROVE PolicyInv'
  OBVIOUS
<1>1. CASE Ask \/ Client \/ GiveUp \/ Close \/ ServiceEnds \/ ServiceStarts
  BY <1>1, AskStep, DialStep, HeldStep, NotHeldStep, RequestSteps, ServiceSteps
     DEF Client
<1>2. CASE \E c \in Conn : Serve(c) \/ Disconnected(c)
  BY <1>2, AcquireStep, LeaveStep, PolicyRetryStep, DisconnectedStep DEF Serve
<1>3. CASE \E k \in Call : Run(k) \/ Done(k)
  BY <1>3, RunStep
<1>4. CASE Transition \/ Locked \/ Unlocked \/ HelperCloses \/ HelperStarts
  BY <1>4, OutsideSteps
<1>5. CASE HelperEnds
  BY <1>5, PolicyHelperEndsStep
<1>6. CASE UNCHANGED policyVars
  <2>1. Counted' = Counted
    BY <1>6 DEF policyVars, leases, Counted
  <2>2. QED
    BY <1>6, <2>1 DEF policyVars, control, leases, PolicyInv, PolicyTypeOK,
         PolicyCountSound, RequestSound
<1>7. QED
  BY <1>1, <1>2, <1>3, <1>4, <1>5, <1>6 DEF PolicyNext

\* The helper's counter is the number of connections that hold the lease or
\* wait to be released, through crashes of either process and late answers:
\* a request is served only while one is there, and the last one is seen.
THEOREM PolicyInvariant == PolicySpec => []PolicyInv
<1>1. PolicyInit => PolicyInv
  BY PolicyInitSound
<1>2. PolicyInv /\ [PolicyNext]_policyVars => PolicyInv'
  BY PolicyStepSound
<1>3. QED
  BY <1>1, <1>2, PTL DEF PolicySpec

\* A release that stops the engine leaves no connection that holds the lease.
LEMMA StopsUnheld ==
    ASSUME PolicyInv', NEW c \in Conn, Leave(c) \/ Retry(c), engine, ~engine'
    PROVE  \A d \in Conn : far'[d] # "held"
<1>1. holders' = 0
  BY DEF Leave, Retry
<1>2. Cardinality(Counted') = 0
  BY <1>1 DEF PolicyInv, PolicyCountSound
<1>3. QED
  BY <1>2, CountedFiniteNext DEF Counting

\* A lease that is taken between two attempts of an earlier release keeps its
\* engine: release (policy_workspace_helper.go) stops it only while nobody
\* holds, for every number of connections and of attempts.
THEOREM HeldEngineIsKept == PolicySpec => HeldEngineKept
<1>0. PolicySpec => []PolicyInv
  BY PolicyInvariant
<1>1. PolicyInv => PolicyTypeOK
  BY DEF PolicyInv
<1>2. PolicyInv' => [\A c \in Conn : (Leave(c) \/ Retry(c)) /\ engine /\ ~engine'
                  => \A d \in Conn : far'[d] # "held"]_policyVars
  BY StopsUnheld
<1>3. QED
  BY <1>0, <1>1, <1>2, PTL DEF HeldEngineKept
=============================================================================
