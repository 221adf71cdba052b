---------------------------- MODULE MihomoRecovery ----------------------------
(***************************************************************************)
(* The control service's watchdog over the running mihomo                  *)
(* (internal/controlapi/mihomo_recovery.go) and the lifecycle operations   *)
(* it competes with (handleGatewayAction and runOperation in server.go).   *)
(*                                                                         *)
(* Three kinds of actors interleave: the monitor goroutine, which samples  *)
(* the gateway and may restart mihomo once per incident; one operation at  *)
(* a time, requested by a client or by the monitor, under lifecycleMu; and *)
(* omg commands outside the service. What touches the gateway runs under   *)
(* the advisory file lock, which the monitor also takes for a moment to    *)
(* see whether somebody holds it.                                          *)
(***************************************************************************)
EXTENDS Naturals

CONSTANT Quota    \* how often each disturbance may happen

Disturbance == {"death", "request", "cli", "unknown", "fault", "store"}

Bound == Disturbance \cup {"total"}

ASSUME RecoveryAssumption == Quota \in [Bound -> Nat]

VARIABLES
    engine,    \* mihomo: answering, refusing connections, or no process
    active,    \* a runtime state of this boot is on disk
    flock,     \* who holds the advisory lock of the runtime directory
    ctl,       \* mihomoRecoveryController
    mutex,     \* Server.lifecycleMu
    op,        \* the lifecycle operation of the service
    mon,       \* where the monitor is, and the status it has read
    incident,  \* history: automatic restarts and healthy samples of this incident
    left       \* disturbances that may still happen

world == <<engine, active, flock>>
vars == <<engine, active, flock, ctl, mutex, op, mon, incident, left>>

Fault == {"process_missing", "controller_refused"}
Restart == "restart-mihomo"
Action == {"start", "stop", "reload", Restart}

Controller == [state : {"idle", "observing", "recovering", "failed"},
               reason : Fault \cup {"none"}, refused : 0..2, healthy : 0..1,
               attempted : BOOLEAN, active : BOOLEAN]
Operation == [kind : Action \cup {"none"}, auto : BOOLEAN, failed : BOOLEAN,
              at : {"none", "locked", "created", "spawned", "running",
                    "replacing", "returned", "reported"}]
Monitor == [at : {"tick", "probing", "state", "engine", "recheck", "reprobing",
                  "stage", "apply", "lock", "begin", "create", "clear"},
            sample : Fault \cup {"healthy", "unknown"}, fresh : BOOLEAN]

NoOperation == [kind |-> "none", auto |-> FALSE, failed |-> FALSE, at |-> "none"]

Init ==
    /\ engine = "up" /\ active = TRUE /\ flock = "free" /\ mutex = "free"
    /\ ctl = [state |-> "idle", reason |-> "none", refused |-> 0, healthy |-> 0,
              attempted |-> FALSE, active |-> FALSE]
    /\ op = NoOperation
    /\ mon = [at |-> "tick", sample |-> "unknown", fresh |-> FALSE]
    /\ incident = [restarts |-> 0, healthy |-> 0]
    /\ left = Quota

Spend(kind) ==
    /\ left[kind] > 0 /\ left.total > 0
    /\ left' = [left EXCEPT ![kind] = @ - 1, !.total = @ - 1]

-----------------------------------------------------------------------------
(* The controller: what each report makes of it. refusedCount is only      *)
(* compared with 2, so it is counted up to 2.                              *)

AtMost2(n) == IF n > 2 THEN 2 ELSE n

\* Mutant: the attempt is forgotten with the counts.
ObserveUnknownForgets(c) == [c EXCEPT !.healthy = 0, !.refused = 0, !.attempted = FALSE]

ObserveUnknown(c) == [c EXCEPT !.healthy = 0, !.refused = 0]

Recovered(c) == [c EXCEPT !.state = "idle", !.reason = "none", !.refused = 0,
                          !.healthy = 0, !.attempted = FALSE]

\* Mutant: one healthy sample is proof enough.
ObserveHealthyOnce(c) == Recovered(c)

ObserveHealthy(c) ==
    IF c.attempted /\ c.healthy = 0
    THEN [c EXCEPT !.healthy = 1, !.state = "recovering"]
    ELSE Recovered(c)

ObserveFailure(c, reason) ==
    IF c.attempted
    THEN IF c.state = "recovering"
         THEN [c EXCEPT !.healthy = 0, !.state = "failed", !.reason = reason]
         ELSE [c EXCEPT !.healthy = 0]
    ELSE [c EXCEPT !.healthy = 0, !.state = "observing", !.reason = reason,
                   !.refused = IF reason = "process_missing"
                               THEN IF c.reason = reason THEN @ ELSE 0
                               ELSE IF c.reason = reason THEN AtMost2(@ + 1) ELSE 1]

\* observeFailure's result, read from the controller it leaves.
RestartDue(c) ==
    /\ ~c.attempted
    /\ c.reason = "process_missing" \/ c.refused = 2

BeginAutomatic(c, reason) ==
    [c EXCEPT !.state = "recovering", !.reason = reason, !.attempted = TRUE,
              !.healthy = 0, !.active = TRUE]
MayBegin(c) == ~c.attempted /\ c.state \notin {"recovering", "failed"}

BeginManual(c) ==
    [c EXCEPT !.state = "recovering", !.attempted = TRUE, !.healthy = 0, !.active = TRUE]

\* Mutant: the end of the operation leaves it marked as running.
FinishAutomaticActive(c, failed) ==
    [c EXCEPT !.state = IF failed THEN "failed" ELSE "recovering"]

FinishAutomatic(c, failed) ==
    [c EXCEPT !.active = FALSE, !.state = IF failed THEN "failed" ELSE "recovering"]

FinishManual(c, failed) ==
    [c EXCEPT !.active = FALSE, !.attempted = TRUE, !.refused = 0,
              !.state = IF failed THEN "failed" ELSE "recovering"]

-----------------------------------------------------------------------------
(* A lifecycle operation of the service: the HTTP handler up to "spawned", *)
(* then the goroutine that runs it and gives lifecycleMu back at its end.  *)

\* Another handler or the monitor may hold lifecycleMu: the request is refused.
Request(kind) ==
    /\ mutex = "free" /\ Spend("request")
    /\ kind = "start" => ~active
    /\ kind \in {"reload", Restart} => active
    /\ kind = "reload" => engine = "up"
    /\ mutex' = "op"
    /\ op' = [NoOperation EXCEPT !.kind = kind, !.at = "locked"]
    /\ UNCHANGED <<world, ctl, mon, incident>>

Create ==
    /\ op.at = "locked"
    /\ \/ /\ op' = [op EXCEPT !.at = "created"]
          /\ UNCHANGED <<mutex, left>>
       \/ Spend("store") /\ op' = NoOperation /\ mutex' = "free"
    /\ UNCHANGED <<world, ctl, mon, incident>>

Announce ==
    /\ op.at = "created"
    /\ op' = [op EXCEPT !.at = "spawned"]
    /\ ctl' = IF op.kind = Restart THEN BeginManual(ctl) ELSE ctl
    /\ UNCHANGED <<world, mutex, mon, incident, left>>

\* The lock is never waited for.
Acquire ==
    /\ op.at = "spawned"
    /\ IF flock = "free"
       THEN flock' = "op" /\ op' = [op EXCEPT !.at = "running"]
       ELSE op' = [op EXCEPT !.at = "returned", !.failed = TRUE] /\ UNCHANGED flock
    /\ UNCHANGED <<engine, active, ctl, mutex, mon, incident, left>>

\* Ends the work under the file lock.
Leave(failed) ==
    /\ flock' = "free"
    /\ op' = [op EXCEPT !.at = "returned", !.failed = failed]
    /\ UNCHANGED <<ctl, mutex, mon, incident>>

\* Mutant: a restart takes what the caller saw for what is still there.
ServesUnchecked(kind) == kind = "start" => ~active

\* The manager reads the state file again under the lock.
Serves(kind) ==
    CASE kind = "start" -> ~active
      [] kind = "reload" -> active /\ engine # "gone"
      [] kind = Restart -> active
      [] OTHER -> TRUE

Refuse ==
    /\ op.at = "running"
    /\ \/ ~Serves(op.kind) /\ UNCHANGED left
       \/ Spend("fault")
    /\ Leave(TRUE) /\ UNCHANGED <<engine, active>>

TakeDown ==
    /\ op.at = "running" /\ Serves(op.kind)
    /\ engine' = "gone"
    /\ active' = (active \/ op.kind = "start")
    /\ op' = [op EXCEPT !.at = "replacing"]
    /\ UNCHANGED <<flock, ctl, mutex, mon, incident, left>>

\* A failed start or reload is rolled back; a failed restart keeps its state
\* file, a failed stop the pieces it could not stop.
Complete ==
    /\ op.at = "replacing"
    /\ \/ /\ engine' = IF op.kind = "stop" THEN "gone" ELSE "up"
          /\ active' = (active /\ op.kind # "stop")
          /\ Leave(FALSE) /\ UNCHANGED left
       \/ /\ Spend("fault")
          /\ active' = (active /\ op.kind \in {"stop", Restart})
          /\ Leave(TRUE) /\ UNCHANGED engine

\* Mutant: the service reports only what succeeded.
ReportSuccess ==
    /\ op.at = "returned"
    /\ op' = [op EXCEPT !.at = "reported"]
    /\ ctl' = IF op.kind # Restart \/ op.failed THEN ctl ELSE FinishManual(ctl, FALSE)
    /\ mon' = [mon EXCEPT !.fresh = @ /\ op.kind # Restart]
    /\ UNCHANGED <<world, mutex, incident, left>>

Report ==
    /\ op.at = "returned"
    /\ op' = [op EXCEPT !.at = "reported"]
    /\ ctl' = IF op.kind # Restart THEN ctl
              ELSE IF op.auto THEN FinishAutomatic(ctl, op.failed)
                   ELSE FinishManual(ctl, op.failed)
    /\ mon' = [mon EXCEPT !.fresh = @ /\ op.kind # Restart]
    /\ UNCHANGED <<world, mutex, incident, left>>

Unlock ==
    /\ op.at = "reported"
    /\ op' = NoOperation /\ mutex' = "free"
    /\ UNCHANGED <<world, ctl, mon, incident, left>>

Operate == Create \/ Announce \/ Acquire \/ Refuse \/ TakeDown \/ Complete
           \/ Report \/ Unlock

-----------------------------------------------------------------------------
(* evaluateMihomoRecovery: one pass of the monitor, every five seconds.    *)

Sampled(s) == mon' = [mon EXCEPT !.at = "apply", !.sample = s]
MonitorAt(at) == mon' = [mon EXCEPT !.at = at]

\* LifecycleOperationInProgress takes the lock itself to learn that it is free.
Probe(at, next) ==
    /\ mon.at = at
    /\ IF flock = "free" THEN flock' = "probe" /\ MonitorAt(next)
       ELSE Sampled("unknown") /\ UNCHANGED flock
    /\ UNCHANGED <<engine, active, ctl, mutex, op, incident, left>>

ProbeEnd(at, next) ==
    /\ mon.at = at
    /\ flock' = "free" /\ MonitorAt(next)
    /\ UNCHANGED <<engine, active, ctl, mutex, op, incident, left>>

\* Status reads the state file first, the process and the controller later.
ReadState ==
    /\ mon.at = "state"
    /\ \/ IF active THEN MonitorAt("engine") /\ UNCHANGED left
          ELSE Sampled("unknown") /\ UNCHANGED left
       \/ Spend("unknown") /\ Sampled("unknown")
    /\ UNCHANGED <<world, ctl, mutex, op, incident>>

MihomoFailureReason ==
    CASE engine = "gone" -> "process_missing"
      [] engine = "refusing" -> "controller_refused"
      [] OTHER -> "healthy"

ReadEngine ==
    /\ mon.at = "engine"
    /\ mon' = [at |-> IF engine = "up" THEN "apply" ELSE "recheck",
               sample |-> MihomoFailureReason, fresh |-> TRUE]
    /\ UNCHANGED <<world, ctl, mutex, op, incident, left>>

\* The recovery stage may not allow a restart.
ReadStage ==
    /\ mon.at = "stage"
    /\ \/ MonitorAt("apply") /\ UNCHANGED left
       \/ Spend("unknown") /\ Sampled("unknown")
    /\ UNCHANGED <<world, ctl, mutex, op, incident>>

\* A healthy sample counts for the history unless mihomo is being restarted;
\* two in a row end the incident.
Restarting ==
    op.kind = Restart /\ op.at \in {"spawned", "running", "replacing", "returned"}
Counted(i) ==
    IF mon.sample # "healthy" \/ Restarting THEN [i EXCEPT !.healthy = 0]
    ELSE IF i.healthy = 1 THEN [restarts |-> 0, healthy |-> 0]
         ELSE [i EXCEPT !.healthy = 1]

Apply ==
    /\ mon.at = "apply"
    /\ incident' = Counted(incident)
    /\ ctl' = IF ctl.active THEN ctl
              ELSE CASE mon.sample = "unknown" -> ObserveUnknown(ctl)
                     [] mon.sample = "healthy" -> ObserveHealthy(ctl)
                     [] OTHER -> ObserveFailure(ctl, mon.sample)
    /\ MonitorAt(IF mon.sample \in Fault /\ ~ctl.active /\ RestartDue(ctl')
                 THEN "lock" ELSE "tick")
    /\ UNCHANGED <<world, mutex, op, left>>

TryLock ==
    /\ mon.at = "lock"
    /\ IF mutex = "free" THEN mutex' = "monitor" /\ MonitorAt("begin")
       ELSE MonitorAt("tick") /\ UNCHANGED mutex
    /\ UNCHANGED <<world, ctl, op, incident, left>>

Begin ==
    /\ mon.at = "begin"
    /\ IF MayBegin(ctl)
       THEN /\ ctl' = BeginAutomatic(ctl, mon.sample)
            /\ MonitorAt("create") /\ UNCHANGED mutex
       ELSE mutex' = "free" /\ MonitorAt("tick") /\ UNCHANGED ctl
    /\ UNCHANGED <<world, op, incident, left>>

\* lifecycleMu is given back before the controller learns of the failure.
CreateAutomatic ==
    /\ mon.at = "create"
    /\ \/ /\ op' = [NoOperation EXCEPT !.kind = Restart, !.auto = TRUE, !.at = "spawned"]
          /\ mutex' = "op" /\ MonitorAt("tick")
          /\ incident' = [incident EXCEPT !.restarts = @ + 1]
          /\ UNCHANGED left
       \/ /\ Spend("store") /\ mutex' = "free" /\ MonitorAt("clear")
          /\ UNCHANGED <<op, incident>>
    /\ UNCHANGED <<world, ctl>>

ClearAutomatic ==
    /\ mon.at = "clear"
    /\ ctl' = FinishAutomatic(ctl, TRUE)
    /\ MonitorAt("tick")
    /\ UNCHANGED <<world, mutex, op, incident, left>>

Watch ==
    \/ Probe("tick", "probing") \/ ProbeEnd("probing", "state")
    \/ ReadState \/ ReadEngine
    \/ Probe("recheck", "reprobing") \/ ProbeEnd("reprobing", "stage")
    \/ ReadStage \/ Apply \/ TryLock \/ Begin \/ CreateAutomatic \/ ClearAutomatic

-----------------------------------------------------------------------------
(* The engine, and omg commands outside the service.                       *)

Die ==
    /\ engine # "gone" /\ Spend("death")
    /\ engine' \in {"gone", "refusing"} \ {engine}
    /\ UNCHANGED <<active, flock, ctl, mutex, op, mon, incident>>

\* A controller that refused answers again.
Heal ==
    /\ engine = "refusing" /\ engine' = "up"
    /\ UNCHANGED <<active, flock, ctl, mutex, op, mon, incident, left>>

CliBegin ==
    /\ flock = "free" /\ Spend("cli")
    /\ flock' = "cli" /\ engine' = "gone"
    /\ UNCHANGED <<active, ctl, mutex, op, mon, incident>>

CliEnd ==
    /\ flock = "cli" /\ flock' = "free"
    /\ active' \in BOOLEAN
    /\ engine' \in IF active' THEN {"up", "gone"} ELSE {"gone"}
    /\ UNCHANGED <<ctl, mutex, op, mon, incident, left>>

Next ==
    \/ \E kind \in Action : Request(kind)
    \/ Operate \/ Watch
    \/ Die \/ Heal \/ CliBegin \/ CliEnd

\* The monitor's ticker never stops, an operation has a deadline of its own
\* (gatewayOperationTimeout), and so has a command of omg.
Fairness == WF_vars(Watch) /\ WF_vars(Operate) /\ WF_vars(CliEnd)

Spec == Init /\ [][Next]_vars /\ Fairness

-----------------------------------------------------------------------------
(* The types, and what the monitor and the operation hold while they are   *)
(* at work: lifecycleMu and the file lock are held by who says so.         *)
TypeOK ==
    /\ engine \in {"up", "refusing", "gone"} /\ active \in BOOLEAN
    /\ flock \in {"free", "probe", "op", "cli"}
    /\ ctl \in Controller /\ op \in Operation /\ mon \in Monitor
    /\ mutex \in {"free", "monitor", "op"}
    /\ incident \in [restarts : 0..1, healthy : 0..1]
    /\ left \in [Bound -> Nat]
    /\ mutex = "op" <=> op.at # "none"
    /\ mutex = "monitor" <=> mon.at \in {"begin", "create"}
    /\ flock = "op" <=> op.at \in {"running", "replacing"}
    /\ flock = "probe" <=> mon.at \in {"probing", "reprobing"}

(* Until an incident is over, that is until two healthy samples in a row   *)
(* outside a restart, mihomo is restarted automatically at most once,      *)
(* whatever unknown samples, manual restarts and other operations come     *)
(* between (the attempted guard of observeFailure and begin). TypeOK is    *)
(* checked as a part of it.                                                *)
OneAttempt == TypeOK /\ incident.restarts <= 1

(* A gateway that was stopped keeps no engine: an automatic restart whose  *)
(* failing sample was taken before the stop does not bring mihomo back.    *)
(* The state file read again under the file lock is what decides.          *)
StopRespected == ~active /\ flock \in {"free", "probe"} => engine = "gone"

(* An incident that had a restart is closed only on the strength of a      *)
(* status read after the last restart command had come to its end: a       *)
(* sample in flight since before it is not enough by itself. When the      *)
(* store refuses an operation this is not promised: the monitor then gives *)
(* lifecycleMu back before it takes operationActive down, and may take it  *)
(* down for a manual restart that has begun in between. And while a        *)
(* restart of the monitor is under way no sample, however stale, touches   *)
(* the incident: only the operation's own end may.                         *)
ClosedByFreshSample ==
    [][/\ ctl.attempted /\ ~ctl'.attempted /\ left.store = Quota.store => mon.fresh
       /\ op.auto /\ op.at \in {"spawned", "running", "replacing"} /\ mon.at = "apply"
            => UNCHANGED ctl]_vars

(* An engine that stays away while the gateway is active is not passed     *)
(* over: in the end the incident is failed, which is what shows the user   *)
(* the manual fallback.                                                    *)
FailureSurfaces == <>[](active /\ engine # "up") => <>[](ctl.state = "failed")

(* When the engine stays up under an active gateway the incident closes.   *)
RecoveryConfirmed == <>[](active /\ engine = "up") => <>[](ctl.state = "idle")
=============================================================================
