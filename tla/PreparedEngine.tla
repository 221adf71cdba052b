---------------------------- MODULE PreparedEngine ----------------------------
(***************************************************************************)
(* The prepared engine (internal/mihomo/prepared.go) and its handoff to    *)
(* and from the gateway's engine.                                          *)
(*                                                                         *)
(* Before the gateway runs, the policy workspace works with a mihomo that  *)
(* has the final policy graph but no ingress. It shares the cache and the  *)
(* tsnet identity with the gateway's engine, so the two may never run at   *)
(* once. A record on disk, written before the fork, says who owns the      *)
(* engine. Prepare, stop and the three gateway transitions run under the   *)
(* runtime lifecycle lock: one session at a time, dropped when its process *)
(* dies. The gateway's side is cut down to what it does with its engine    *)
(* and its state file; GatewayLifecycle has the whole of it.               *)
(***************************************************************************)
EXTENDS Naturals, FiniteSets

CONSTANTS
    Pid,     \* process identities: a PID with its fingerprint
    NoPid,   \* PID 0: no identity recorded
    Graph,   \* rendered policy graphs, told apart by ConfigDigest
    Quota    \* how often each disturbance may happen

Disturbance == {"fault", "crash", "gateway_crash", "reboot", "death"}

ASSUME PreparedAssumption ==
    /\ NoPid \notin Pid
    /\ Graph # {}
    /\ Quota \in [Disturbance -> Nat]

VARIABLES
    boot,     \* the boot session of the host
    record,   \* runtime/prepared-mihomo/state.json
    gateway,  \* runtime/state.json, as far as the engine is concerned
    proc,     \* the engine processes of this host
    pc, op,   \* where the session that holds the lock is, what it does
    want,     \* the graph it was called with
    pid,      \* the process it has forked or is about to replace
    left      \* disturbances that may still happen

vars == <<boot, record, gateway, proc, pc, op, want, pid, left>>

Record == [exists : BOOLEAN, boot : Nat, pid : Pid \cup {NoPid}, graph : Graph]
Gateway == [exists : BOOLEAN, boot : Nat, pid : Pid \cup {NoPid}]
Process == [is : {"free", "running", "dying"}, for : {"prepared", "gateway"},
            graph : Graph]

NoRecord(g) == [exists |-> FALSE, boot |-> 0, pid |-> NoPid, graph |-> g]
NoGateway == [exists |-> FALSE, boot |-> 0, pid |-> NoPid]

Init ==
    /\ boot = 1
    /\ \E g \in Graph :
          /\ want = g /\ record = NoRecord(g)
          /\ proc = [p \in Pid |-> [is |-> "free", for |-> "prepared", graph |-> g]]
    /\ gateway = NoGateway
    /\ pc = "idle" /\ op = "none" /\ pid = NoPid
    /\ left = Quota

-----------------------------------------------------------------------------
Spend(kind) == left[kind] > 0 /\ left' = [left EXCEPT ![kind] = @ - 1]
Goto(at) == pc' = at /\ UNCHANGED <<op, want>>
Return == pc' = "idle" /\ op' = "none" /\ pid' = NoPid /\ UNCHANGED want

Running(p) == p \in Pid /\ proc[p].is = "running"
\* MatchesFingerprint: a process that was killed but is not gone still matches.
Matches(p) == p \in Pid /\ proc[p].is # "free"

Fresh == {p \in Pid : proc[p].is = "free" /\ p \notin {record.pid, gateway.pid, pid}}
Forked(p, user) ==
    proc' = [proc EXCEPT ![p] = [is |-> "running", for |-> user, graph |-> want]]
ForkFails == (Fresh = {} /\ UNCHANGED left) \/ Spend("fault")

\* StopPID: TERM, and KILL after the grace period. It returns when the process
\* is gone or right after the KILL, and does nothing to a process that is gone.
Stopped(p) ==
    IF Matches(p)
    THEN \E end \in {"free", "dying"} : proc' = [proc EXCEPT ![p].is = end]
    ELSE UNCHANGED proc

\* writePreparedFile and RemoveState: all or nothing.
Write(r) == record' = r /\ UNCHANGED left
Remove == record' = NoRecord(record.graph) /\ UNCHANGED left

BelongsToBoot(r) == r.boot = boot
\* Mutant: a record without an identity is taken for a stale one.
IdentityAssumed == record.exists

Identified == record.pid # NoPid

-----------------------------------------------------------------------------
(* stopPreparedLocked, called by prepare and by gateway start and stop.    *)

AfterRelease ==
    CASE op = "prepare" -> "journal"
      [] op = "gateway_start" -> "gateway_journal"
      [] op = "gateway_stop" -> "gateway_kill"
      [] OTHER -> "done"

\* A record of this boot without an identity may stand for a child nobody can
\* name: refuse. A record of an earlier boot is only removed.
ReleaseCheck ==
    /\ pc = "release"
    /\ \/ ~record.exists /\ Goto(AfterRelease) /\ UNCHANGED <<pid, left>>
       \/ /\ record.exists /\ ~BelongsToBoot(record)
          /\ Goto("release_remove") /\ UNCHANGED <<pid, left>>
       \/ /\ record.exists /\ BelongsToBoot(record) /\ ~Identified
          /\ Return /\ UNCHANGED left
       \/ /\ record.exists /\ BelongsToBoot(record) /\ Identified
          /\ Goto(IF Matches(record.pid) THEN "release_stop" ELSE "release_remove")
          /\ UNCHANGED <<pid, left>>
       \/ record.exists /\ Spend("fault") /\ Return
    /\ UNCHANGED <<boot, record, gateway, proc>>

ReleaseStop ==
    /\ pc = "release_stop"
    /\ \/ Stopped(record.pid) /\ Goto("release_wait") /\ UNCHANGED <<pid, left>>
       \/ Spend("fault") /\ Return /\ UNCHANGED proc
    /\ UNCHANGED <<boot, record, gateway>>

\* Mutant: StopPID's return is taken for the end of the process.
ReleaseAtOnce ==
    /\ pc = "release_wait"
    /\ Goto("release_remove")
    /\ UNCHANGED <<boot, record, gateway, proc, pid, left>>

\* Poll until the exact former process is gone, for two seconds at most.
ReleaseWait ==
    /\ pc = "release_wait"
    /\ \/ ~Matches(record.pid) /\ Goto("release_remove") /\ UNCHANGED pid
       \/ Matches(record.pid) /\ Return
    /\ UNCHANGED <<boot, record, gateway, proc, left>>

ReleaseRemove ==
    /\ pc = "release_remove"
    /\ \/ Remove /\ Goto(AfterRelease) /\ UNCHANGED pid
       \/ Spend("fault") /\ Return /\ UNCHANGED record
    /\ UNCHANGED <<boot, gateway, proc>>

\* StopPrepared, or a failed prepare that cleaned up, returns.
ReleaseDone ==
    /\ pc = "done"
    /\ Return
    /\ UNCHANGED <<boot, record, gateway, proc, left>>

BeginStopPrepared ==
    /\ pc = "idle"
    /\ pc' = "release" /\ op' = "stop"
    /\ UNCHANGED <<boot, record, gateway, proc, want, pid, left>>

-----------------------------------------------------------------------------
(* PrepareLocked.                                                          *)

\* Mutant: a live engine is reused whatever it has loaded.
AnyGraph(g) == record.exists /\ BelongsToBoot(record) /\ g \in Graph

SameGraph(g) == record.exists /\ BelongsToBoot(record) /\ record.graph = g

\* Refused while a gateway state exists. A live engine with the wanted graph is
\* reused when its controller answers and never replaced when it does not.
BeginPrepare(g) ==
    /\ pc = "idle" /\ ~gateway.exists
    /\ want' = g /\ op' = "prepare"
    /\ \/ SameGraph(g) /\ Running(record.pid) /\ pc' = "using"
       \/ ~(SameGraph(g) /\ (~Identified \/ Matches(record.pid))) /\ pc' = "release"
    /\ UNCHANGED <<boot, record, gateway, proc, pid, left>>

\* Rendering and validation may fail; then the intent is written.
Journal ==
    /\ pc = "journal"
    /\ \/ /\ Write([exists |-> TRUE, boot |-> boot, pid |-> NoPid, graph |-> want])
          /\ Goto("fork") /\ UNCHANGED pid
       \/ Spend("fault") /\ Return /\ UNCHANGED record
    /\ UNCHANGED <<boot, gateway, proc>>

Fork ==
    /\ pc = "fork"
    /\ \/ \E p \in Fresh :
             /\ Forked(p, "prepared") /\ pid' = p
             /\ Goto("identify") /\ UNCHANGED <<record, left>>
       \/ ForkFails /\ record' \in {record, NoRecord(want)} /\ Return /\ UNCHANGED proc
    /\ UNCHANGED <<boot, gateway>>

\* The child is stopped and, if that reported no error, the record removed.
Abandon ==
    \/ Stopped(pid) /\ record' \in {record, NoRecord(want)}
    \/ UNCHANGED <<proc, record>>

\* Reading the fingerprint fails, or the child is gone already.
Identify ==
    /\ pc = "identify"
    /\ \/ Matches(pid) /\ Goto("record") /\ UNCHANGED <<record, proc, pid, left>>
       \/ ~Matches(pid) /\ Abandon /\ Return /\ UNCHANGED left
       \/ Spend("fault") /\ Abandon /\ Return
    /\ UNCHANGED <<boot, gateway>>

RecordIdentity ==
    /\ pc = "record"
    /\ \/ Write([record EXCEPT !.pid = pid]) /\ Goto("ready") /\ UNCHANGED <<proc, pid>>
       \/ Spend("fault") /\ Abandon /\ Return
    /\ UNCHANGED <<boot, gateway>>

\* The API answers within ten seconds or the engine is stopped again.
WaitReady ==
    /\ pc = "ready"
    /\ \/ Running(pid) /\ Goto("using") /\ UNCHANGED left
       \/ ~Running(pid) /\ pc' = "release" /\ op' = "failed" /\ UNCHANGED <<want, left>>
       \/ Spend("fault") /\ pc' = "release" /\ op' = "failed" /\ UNCHANGED want
    /\ UNCHANGED <<boot, record, gateway, proc, pid>>

\* The caller uses the controller while it still holds the lock.
EndUse ==
    /\ pc = "using"
    /\ Return
    /\ UNCHANGED <<boot, record, gateway, proc, left>>

-----------------------------------------------------------------------------
(* The gateway's engine.                                                   *)

BeginGatewayStart ==
    /\ pc = "idle" /\ ~gateway.exists
    /\ pc' = "release" /\ op' = "gateway_start"
    /\ UNCHANGED <<boot, record, gateway, proc, want, pid, left>>

GatewayJournal ==
    /\ pc = "gateway_journal"
    /\ gateway' = [exists |-> TRUE, boot |-> boot, pid |-> NoPid]
    /\ Goto("gateway_fork")
    /\ UNCHANGED <<boot, record, proc, pid, left>>

\* A start that fails rolls back and drops its state; a restart keeps it.
GatewayGivesUp ==
    gateway' = IF op = "gateway_start" THEN NoGateway ELSE gateway

GatewayFork ==
    /\ pc = "gateway_fork"
    /\ \/ \E p \in Fresh :
             /\ Forked(p, "gateway") /\ pid' = p
             /\ Goto("gateway_record") /\ UNCHANGED <<gateway, left>>
       \/ ForkFails /\ GatewayGivesUp /\ Return /\ UNCHANGED proc
    /\ UNCHANGED <<boot, record>>

GatewayRecord ==
    /\ pc = "gateway_record"
    /\ \/ gateway' = [gateway EXCEPT !.pid = pid] /\ UNCHANGED <<proc, left>>
       \/ Spend("fault") /\ Stopped(pid) /\ GatewayGivesUp
    /\ Return
    /\ UNCHANGED <<boot, record>>

BeginGatewayStop ==
    /\ pc = "idle"
    /\ pc' = "release" /\ op' = "gateway_stop"
    /\ UNCHANGED <<boot, record, gateway, proc, want, pid, left>>

\* A recorded engine of this boot is stopped; the state goes when that
\* reported no error, whether or not the process is gone.
GatewayKill ==
    /\ pc = "gateway_kill"
    /\ \/ /\ IF gateway.exists /\ BelongsToBoot(gateway)
             THEN Stopped(gateway.pid) ELSE UNCHANGED proc
          /\ Goto("gateway_clear") /\ UNCHANGED <<pid, left>>
       \/ Spend("fault") /\ Return /\ UNCHANGED proc
    /\ UNCHANGED <<boot, record, gateway>>

GatewayClear ==
    /\ pc = "gateway_clear"
    /\ gateway' = NoGateway
    /\ Return
    /\ UNCHANGED <<boot, record, proc, left>>

BeginGatewayRestart ==
    /\ pc = "idle" /\ gateway.exists /\ BelongsToBoot(gateway)
    /\ pid' = gateway.pid
    /\ gateway' = [gateway EXCEPT !.pid = NoPid]
    /\ pc' = "gateway_replace" /\ op' = "gateway_restart"
    /\ UNCHANGED <<boot, record, proc, want, left>>

\* A stop that failed puts the PID back.
GatewayReplace ==
    /\ pc = "gateway_replace"
    /\ \/ Stopped(pid) /\ Goto("gateway_fork") /\ UNCHANGED <<gateway, pid, left>>
       \/ /\ Spend("fault") /\ gateway' = [gateway EXCEPT !.pid = pid]
          /\ Return /\ UNCHANGED proc
    /\ UNCHANGED <<boot, record>>

-----------------------------------------------------------------------------
(* The environment.                                                        *)

\* The process that holds the lock dies; the engines it forked survive.
Crash ==
    /\ pc # "idle"
    /\ Spend(IF pc \in {"gateway_record", "gateway_replace"}
             THEN "gateway_crash" ELSE "crash")
    /\ Return
    /\ UNCHANGED <<boot, record, gateway, proc>>

Reboot ==
    /\ Spend("reboot")
    /\ boot' = boot + 1
    /\ proc' = [p \in Pid |-> [proc[p] EXCEPT !.is = "free"]]
    /\ Return
    /\ UNCHANGED <<record, gateway>>

\* The kernel finishes a killed process, or an engine dies on its own.
Exits(p) ==
    /\ \/ proc[p].is = "dying" /\ UNCHANGED left
       \/ proc[p].is = "running" /\ Spend("death")
    /\ proc' = [proc EXCEPT ![p].is = "free"]
    /\ UNCHANGED <<boot, record, gateway, pc, op, want, pid>>

Release == ReleaseCheck \/ ReleaseStop \/ ReleaseWait \/ ReleaseRemove \/ ReleaseDone
Prepare == Journal \/ Fork \/ Identify \/ RecordIdentity \/ WaitReady \/ EndUse
GatewayStep ==
    \/ GatewayJournal \/ GatewayFork \/ GatewayRecord
    \/ GatewayKill \/ GatewayClear \/ GatewayReplace
Request ==
    \/ \E g \in Graph : BeginPrepare(g)
    \/ BeginStopPrepared
    \/ BeginGatewayStart \/ BeginGatewayStop \/ BeginGatewayRestart
Environment == Crash \/ Reboot \/ \E p \in Pid : Exits(p)

Next == Release \/ Prepare \/ GatewayStep \/ Request \/ Environment

Spec == Init /\ [][Next]_vars

-----------------------------------------------------------------------------
(* Properties.                                                             *)

TypeOK ==
    /\ boot \in Nat
    /\ record \in Record /\ gateway \in Gateway
    /\ proc \in [Pid -> Process]
    /\ pc \in {"idle", "release", "release_stop", "release_wait",
               "release_remove", "done", "journal", "fork", "identify",
               "record", "ready", "using", "gateway_journal", "gateway_fork",
               "gateway_record", "gateway_kill", "gateway_clear",
               "gateway_replace"}
    /\ op \in {"none", "stop", "prepare", "failed", "gateway_start",
               "gateway_stop", "gateway_restart"}
    /\ want \in Graph
    /\ pid \in Pid \cup {NoPid}
    /\ left \in [Disturbance -> Nat]

Used(kind) == Quota[kind] - left[kind]
RunningEngines == {p \in Pid : Running(p)}

\* While a gateway runtime exists, interrupted ones included, no prepared engine
\* runs: none is started and the one that ran was stopped before. At most one
\* engine runs, across prepare, gateway start, stop and restart, failed
\* commands, reboots and crashes anywhere but between the gateway's fork or
\* stop of its engine and the record of that: the prepared engine's record is
\* written before the fork and blocks a competitor when it is incomplete.
\* TypeOK is checked as a part of it.
OneEngine ==
    /\ TypeOK
    /\ gateway.exists => \A p \in RunningEngines : proc[p].for = "gateway"
    /\ Used("gateway_crash") = 0 => Cardinality(RunningEngines) <= 1

\* Ownership of an identified engine of this boot is given up only when that
\* very process is gone, not when it has merely been killed.
ReleasedWhenGone ==
    [][record.exists /\ BelongsToBoot(record) /\ Identified /\ ~record'.exists
         => ~Matches(record.pid)]_vars

\* A caller of Prepare works with the engine that has the graph it asked for,
\* also when it was reused from an earlier call or an earlier process.
UsesWantedPolicy ==
    pc = "using" =>
        /\ Identified /\ record.graph = want /\ proc[record.pid].graph = want
        /\ Used("death") = 0 => Matches(record.pid)
=============================================================================
