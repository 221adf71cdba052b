----------------------------- MODULE RecoveryProofs ----------------------------
(***************************************************************************)
(* Proofs about MihomoRecovery and then about RecoveryWizard, for every    *)
(* number of disturbances.                                                 *)
(*                                                                         *)
(* One restart per incident is not inductive: the guard is the flag        *)
(* attempted of the controller, while the incident is counted by what the  *)
(* monitor has really sampled. IInv ties the two together: the controller  *)
(* forgets an attempt only when the incident is over, also while samples   *)
(* of an earlier time are in flight and other operations come between.     *)
(***************************************************************************)
EXTENDS MihomoRecovery, RecoveryWizard, TLAPS

\* What the automatic restart of this incident implies for the controller.
AttemptSound ==
    /\ incident.restarts = 1 =>
          /\ ctl.attempted
          /\ Restarting => ctl.active
          /\ ctl.healthy = 1 => incident.healthy = 1
    /\ mon.at \in {"create", "clear"} => incident.restarts = 0
    /\ mon.at = "create" => ctl.active /\ ctl.attempted
    /\ ctl.active => ctl.healthy = 0

\* What sends the monitor on to a restart is a failing sample.
SampleSound ==
    mon.at \in {"recheck", "reprobing", "stage", "lock", "begin", "create"} =>
        mon.sample \in Fault

\* The operation that runs, and whose restart it is.
OperationSound ==
    /\ op.at = "none" => op = NoOperation
    /\ op.at # "none" => op.kind \in Action
    /\ op.auto => op.kind = Restart /\ mon.at # "clear"
    /\ op.auto /\ Restarting => ctl.active

\* Without a state file there is no engine, and none while one is replaced.
EngineSound ==
    /\ ~active => engine = "gone"
    /\ flock = "cli" => engine = "gone"
    /\ op.at = "replacing" => engine = "gone" /\ (op.kind # "stop" => active)

\* As long as the store has refused nothing, a restart under way is known to
\* the controller, and a healthy sample from before its end is the first one.
FreshSound ==
    /\ left.store <= Quota.store
    /\ left.store = Quota.store =>
          /\ Restarting => ctl.active
          /\ mon.at # "clear"
          /\ mon.at = "apply" /\ mon.sample = "healthy" /\ ~mon.fresh =>
                ctl.healthy = 0

Safe == AttemptSound /\ SampleSound /\ OperationSound /\ EngineSound /\ FreshSound

IInv == TypeOK /\ Safe

-----------------------------------------------------------------------------
(* Lemmas about the controller's operators.                                *)

State == {"idle", "observing", "recovering", "failed"}

\* What the invariant reads of the controller is the same in both.
Keeps(d, c) ==
    /\ d \in Controller
    /\ d.attempted = c.attempted /\ d.active = c.active /\ d.healthy = c.healthy

\* The fields of the controller, one at a time.
LEMMA Updates ==
    ASSUME NEW c \in Controller
    PROVE  /\ \A v \in State : Keeps([c EXCEPT !.state = v], c)
           /\ \A v \in Fault \cup {"none"} : Keeps([c EXCEPT !.reason = v], c)
           /\ \A v \in 0..2 : Keeps([c EXCEPT !.refused = v], c)
<1>1. ASSUME NEW v \in State PROVE Keeps([c EXCEPT !.state = v], c)
  <2>1. [c EXCEPT !.state = v] \in Controller
    BY DEF Controller, State
  <2>2. QED
    BY <2>1 DEF Keeps, Controller
<1>2. ASSUME NEW v \in Fault \cup {"none"} PROVE Keeps([c EXCEPT !.reason = v], c)
  <2>1. [c EXCEPT !.reason = v] \in Controller
    BY DEF Controller
  <2>2. QED
    BY <2>1 DEF Keeps, Controller
<1>3. ASSUME NEW v \in 0..2 PROVE Keeps([c EXCEPT !.refused = v], c)
  <2>1. [c EXCEPT !.refused = v] \in Controller
    BY DEF Controller
  <2>2. QED
    BY <2>1 DEF Keeps, Controller
<1>4. QED
  BY <1>1, <1>2, <1>3

HealthySet(d, c, v) ==
    /\ d \in Controller /\ d.healthy = v
    /\ d.attempted = c.attempted /\ d.active = c.active

AttemptedSet(d, c, v) ==
    /\ d \in Controller /\ d.attempted = v
    /\ d.healthy = c.healthy /\ d.active = c.active

ActiveSet(d, c, v) ==
    /\ d \in Controller /\ d.active = v
    /\ d.healthy = c.healthy /\ d.attempted = c.attempted

\* The same of the flags the invariant reads.
LEMMA FlagUpdates ==
    ASSUME NEW c \in Controller
    PROVE  /\ \A v \in 0..1 : HealthySet([c EXCEPT !.healthy = v], c, v)
           /\ \A v \in BOOLEAN : AttemptedSet([c EXCEPT !.attempted = v], c, v)
           /\ \A v \in BOOLEAN : ActiveSet([c EXCEPT !.active = v], c, v)
<1>1. ASSUME NEW v \in 0..1 PROVE HealthySet([c EXCEPT !.healthy = v], c, v)
  <2>1. [c EXCEPT !.healthy = v] \in Controller
    BY DEF Controller
  <2>2. QED
    BY <2>1 DEF HealthySet, Controller
<1>2. ASSUME NEW v \in BOOLEAN
      PROVE  AttemptedSet([c EXCEPT !.attempted = v], c, v)
  <2>1. [c EXCEPT !.attempted = v] \in Controller
    BY DEF Controller
  <2>2. QED
    BY <2>1 DEF AttemptedSet, Controller
<1>3. ASSUME NEW v \in BOOLEAN PROVE ActiveSet([c EXCEPT !.active = v], c, v)
  <2>1. [c EXCEPT !.active = v] \in Controller
    BY DEF Controller
  <2>2. QED
    BY <2>1 DEF ActiveSet, Controller
<1>4. QED
  BY <1>1, <1>2, <1>3

LEMMA Ranges == 0 \in 0..1 /\ 1 \in 0..1 /\ 0 \in 0..2
OBVIOUS

\* An unknown or failing sample changes neither the attempt nor who is at work.
LEMMA UnknownObserved ==
    ASSUME NEW c \in Controller
    PROVE  LET d == ObserveUnknown(c) IN
           /\ d \in Controller /\ d.healthy = 0
           /\ d.attempted = c.attempted /\ d.active = c.active
<1> DEFINE c1 == [c EXCEPT !.healthy = 0]
           c2 == [c1 EXCEPT !.refused = 0]
<1>1. ObserveUnknown(c) = c2
  BY DEF ObserveUnknown
<1>2. /\ c1 \in Controller /\ c1.healthy = 0
      /\ c1.attempted = c.attempted /\ c1.active = c.active
  BY FlagUpdates, Ranges, Zenon DEF HealthySet
<1> HIDE DEF c1
<1>3. Keeps(c2, c1)
  BY <1>2, Updates, Ranges, Zenon
<1> HIDE DEF c2
<1>4. QED
  BY <1>1, <1>2, <1>3 DEF Keeps

\* A failing sample ends a run of healthy ones and forgets no attempt.
LEMMA FailureObserved ==
    ASSUME NEW c \in Controller, NEW reason \in Fault
    PROVE  LET d == ObserveFailure(c, reason) IN
           /\ d \in Controller /\ d.healthy = 0
           /\ d.attempted = c.attempted /\ d.active = c.active
<1> DEFINE n == IF reason = "process_missing"
                THEN IF c.reason = reason THEN c.refused ELSE 0
                ELSE IF c.reason = reason THEN AtMost2(c.refused + 1) ELSE 1
           c1 == [c EXCEPT !.healthy = 0]
           f2 == [c1 EXCEPT !.state = "failed"]
           f3 == [f2 EXCEPT !.reason = reason]
           o2 == [c1 EXCEPT !.state = "observing"]
           o3 == [o2 EXCEPT !.reason = reason]
           o4 == [o3 EXCEPT !.refused = n]
<1>1. n \in 0 .. 2
  BY DEF Controller, AtMost2
<1>2. ObserveFailure(c, reason) \in {c1, f3, o4}
  <2>1. CASE c.attempted /\ c.state = "recovering"
    BY <2>1 DEF ObserveFailure
  <2>2. CASE c.attempted /\ c.state # "recovering"
    BY <2>2 DEF ObserveFailure
  <2>3. CASE ~c.attempted
    <3>1. ObserveFailure(c, reason) =
            [c EXCEPT !.healthy = 0, !.state = "observing", !.reason = reason,
                      !.refused = n]
      BY <2>3 DEF ObserveFailure
    <3> HIDE DEF n
    <3>2. QED
      BY <3>1
  <2>4. QED
    BY <2>1, <2>2, <2>3
<1> HIDE DEF n
<1>3. /\ c1 \in Controller /\ c1.healthy = 0
      /\ c1.attempted = c.attempted /\ c1.active = c.active
  BY FlagUpdates, Ranges, Zenon DEF HealthySet
<1> HIDE DEF c1
<1>4. Keeps(f2, c1) /\ Keeps(o2, c1)
  BY <1>3, Updates DEF State
<1> HIDE DEF f2, o2
<1>5. Keeps(f3, f2) /\ Keeps(o3, o2)
  BY <1>4, Updates DEF Keeps
<1> HIDE DEF f3, o3
<1>6. Keeps(o4, o3)
  BY <1>1, <1>5, Updates DEF Keeps
<1> HIDE DEF o4
<1>7. QED
  BY <1>2, <1>3, <1>4, <1>5, <1>6 DEF Keeps

\* Only a second healthy sample, or one without an attempt, forgets the attempt.
LEMMA HealthyObserved ==
    ASSUME NEW c \in Controller
    PROVE  LET d == ObserveHealthy(c) IN
           /\ d \in Controller /\ d.active = c.active
           /\ IF c.attempted /\ c.healthy = 0 THEN d.attempted /\ d.healthy = 1
              ELSE ~d.attempted /\ d.healthy = 0
<1> DEFINE c1 == [c EXCEPT !.healthy = 1]
           c2 == [c1 EXCEPT !.state = "recovering"]
           r1 == [c EXCEPT !.state = "idle"]
           r2 == [r1 EXCEPT !.reason = "none"]
           r3 == [r2 EXCEPT !.refused = 0]
           r4 == [r3 EXCEPT !.healthy = 0]
           r5 == [r4 EXCEPT !.attempted = FALSE]
<1>1. ObserveHealthy(c) = IF c.attempted /\ c.healthy = 0 THEN c2 ELSE r5
  BY DEF ObserveHealthy, Recovered
<1>2. HealthySet(c1, c, 1)
  BY FlagUpdates, Ranges, Zenon
<1> HIDE DEF c1
<1>3. Keeps(c2, c1)
  BY <1>2, Updates DEF State, HealthySet
<1>4. Keeps(r1, c)
  BY Updates DEF State
<1> HIDE DEF c2, r1
<1>5. Keeps(r2, r1)
  BY <1>4, Updates DEF Keeps
<1> HIDE DEF r2
<1>6. Keeps(r3, r2)
  BY <1>5, Updates, Ranges, Zenon DEF Keeps
<1> HIDE DEF r3
<1>7. HealthySet(r4, r3, 0)
  BY <1>6, FlagUpdates, Ranges, Zenon DEF Keeps
<1> HIDE DEF r4
<1>8. AttemptedSet(r5, r4, FALSE)
  BY <1>7, FlagUpdates, Zenon DEF HealthySet
<1> HIDE DEF r5
<1>9. CASE c.attempted /\ c.healthy = 0
  BY <1>1, <1>2, <1>3, <1>9 DEF Keeps, HealthySet
<1>10. CASE ~(c.attempted /\ c.healthy = 0)
  BY <1>1, <1>4, <1>5, <1>6, <1>7, <1>8, <1>10 DEF Keeps, HealthySet, AttemptedSet
<1>11. QED
  BY <1>9, <1>10

\* Both kinds of restart begin with an attempt under way and nothing observed.
LEMMA Begun ==
    ASSUME NEW c \in Controller, NEW reason \in Fault
    PROVE  \A d \in {BeginAutomatic(c, reason), BeginManual(c)} :
              d \in Controller /\ d.attempted /\ d.active /\ d.healthy = 0
<1> DEFINE a1 == [c EXCEPT !.state = "recovering"]
           a2 == [a1 EXCEPT !.reason = reason]
           a3 == [a2 EXCEPT !.attempted = TRUE]
           a4 == [a3 EXCEPT !.healthy = 0]
           a5 == [a4 EXCEPT !.active = TRUE]
           m3 == [a1 EXCEPT !.attempted = TRUE]
           m4 == [m3 EXCEPT !.healthy = 0]
           m5 == [m4 EXCEPT !.active = TRUE]
<1>1. BeginAutomatic(c, reason) = a5 /\ BeginManual(c) = m5
  BY DEF BeginAutomatic, BeginManual
<1>2. Keeps(a1, c)
  BY Updates DEF State
<1> HIDE DEF a1
<1>3. Keeps(a2, a1)
  BY <1>2, Updates DEF Keeps
<1> HIDE DEF a2
<1>4. AttemptedSet(a3, a2, TRUE) /\ AttemptedSet(m3, a1, TRUE)
  BY <1>2, <1>3, FlagUpdates, Zenon DEF Keeps
<1> HIDE DEF a3, m3
<1>5. HealthySet(a4, a3, 0) /\ HealthySet(m4, m3, 0)
  BY <1>4, FlagUpdates, Ranges, Zenon DEF AttemptedSet
<1> HIDE DEF a4, m4
<1>6. ActiveSet(a5, a4, TRUE) /\ ActiveSet(m5, m4, TRUE)
  BY <1>5, FlagUpdates, Zenon DEF HealthySet
<1> HIDE DEF a5, m5
<1>7. /\ a5 \in Controller /\ a5.attempted = TRUE /\ a5.active = TRUE /\ a5.healthy = 0
      /\ m5 \in Controller /\ m5.attempted = TRUE /\ m5.active = TRUE /\ m5.healthy = 0
  BY <1>4, <1>5, <1>6, Zenon DEF ActiveSet, HealthySet, AttemptedSet
<1>8. QED
  BY <1>1, <1>7

\* The end of a restart takes operationActive down and forgets no attempt.
LEMMA EndedAt ==
    ASSUME NEW c \in Controller, NEW failed \in BOOLEAN
    PROVE  \A d \in {FinishAutomatic(c, failed), FinishManual(c, failed)} :
              /\ d \in Controller /\ ~d.active /\ d.healthy = c.healthy
              /\ c.attempted => d.attempted
<1> DEFINE v == IF failed THEN "failed" ELSE "recovering"
           a1 == [c EXCEPT !.active = FALSE]
           a2 == [a1 EXCEPT !.state = v]
           m2 == [a1 EXCEPT !.attempted = TRUE]
           m3 == [m2 EXCEPT !.refused = 0]
           m4 == [m3 EXCEPT !.state = v]
<1>1. v \in State
  BY DEF State
<1>2. FinishAutomatic(c, failed) = a2 /\ FinishManual(c, failed) = m4
  BY DEF FinishAutomatic, FinishManual
<1> HIDE DEF v
<1>3. ActiveSet(a1, c, FALSE)
  BY FlagUpdates, Zenon
<1> HIDE DEF a1
<1>4. Keeps(a2, a1) /\ AttemptedSet(m2, a1, TRUE)
  BY <1>1, <1>3, Updates, FlagUpdates, Zenon DEF ActiveSet
<1> HIDE DEF a2, m2
<1>5. Keeps(m3, m2)
  BY <1>4, Updates, Ranges, Zenon DEF AttemptedSet
<1> HIDE DEF m3
<1>6. Keeps(m4, m3)
  BY <1>1, <1>5, Updates DEF Keeps
<1> HIDE DEF m4
<1>7. /\ a2 \in Controller /\ a2.attempted = c.attempted /\ a2.active = FALSE
      /\ a2.healthy = c.healthy
      /\ m4 \in Controller /\ m4.attempted = TRUE /\ m4.active = FALSE
      /\ m4.healthy = c.healthy
  BY <1>3, <1>4, <1>5, <1>6, Zenon DEF Keeps, ActiveSet, AttemptedSet
<1>8. QED
  BY <1>2, <1>7

\* What is left of a kind of disturbance never grows.
LEMMA SpendBounds ==
    ASSUME TypeOK, FreshSound, NEW kind \in Disturbance, Spend(kind)
    PROVE  /\ left' \in [Bound -> Nat] /\ left'.store <= Quota.store
           /\ left'.store = Quota.store => left.store = Quota.store /\ kind # "store"
<1> DEFINE m == [left EXCEPT ![kind] = left[kind] - 1]
<1>1. kind \in Bound /\ kind # "total" /\ {"store", "total"} \subseteq Bound
  BY DEF Bound, Disturbance
<1>2. /\ left[kind] - 1 \in Nat /\ left.total - 1 \in Nat
      /\ left.store \in Nat /\ Quota.store \in Nat /\ left.store <= Quota.store
  <2>1. left[kind] \in Nat /\ left.total \in Nat /\ left.store \in Nat
    BY <1>1 DEF TypeOK
  <2>2. left[kind] > 0 /\ left.total > 0
    BY DEF Spend
  <2>3. Quota.store \in Nat
    BY <1>1, RecoveryAssumption
  <2>4. QED
    BY <2>1, <2>2, <2>3 DEF FreshSound
<1>3. left' = [m EXCEPT !.total = left.total - 1]
  BY <1>1 DEF Spend
<1>4. /\ m \in [Bound -> Nat]
      /\ m.store = IF kind = "store" THEN left.store - 1 ELSE left.store
  BY <1>1, <1>2 DEF TypeOK
<1> HIDE DEF m
<1>5. left' \in [Bound -> Nat] /\ left'.store = m.store
  BY <1>1, <1>2, <1>3, <1>4
<1>6. QED
  BY <1>2, <1>4, <1>5

At == {"none", "locked", "created", "spawned", "running", "replacing",
       "returned", "reported"}
Place == {"tick", "probing", "state", "engine", "recheck", "reprobing",
          "stage", "apply", "lock", "begin", "create", "clear"}

\* The operation is at another place; whose it is stays.
MovedTo(d, o, v) ==
    /\ d \in Operation /\ d.at = v
    /\ d.kind = o.kind /\ d.auto = o.auto

\* An operation, one or two fields at a time.
LEMMA OperationUpdates ==
    ASSUME NEW o \in Operation, NEW v \in At, NEW f \in BOOLEAN
    PROVE  /\ MovedTo([o EXCEPT !.at = v], o, v)
           /\ MovedTo([o EXCEPT !.at = v, !.failed = f], o, v)
<1> DEFINE d1 == [o EXCEPT !.at = v]
           d2 == [d1 EXCEPT !.failed = f]
<1>1. d1 \in Operation
  BY DEF Operation, At
<1>2. d1.at = v /\ d1.kind = o.kind /\ d1.auto = o.auto
  BY DEF Operation, At
<1>3. [o EXCEPT !.at = v, !.failed = f] = d2
  OBVIOUS
<1> HIDE DEF d1
<1>4. d2 \in Operation
  BY <1>1 DEF Operation
<1>5. d2.at = d1.at /\ d2.kind = d1.kind /\ d2.auto = d1.auto
  BY <1>1 DEF Operation
<1> HIDE DEF d2
<1>6. /\ d1 \in Operation /\ d1.at = v /\ d1.kind = o.kind /\ d1.auto = o.auto
      /\ d2 \in Operation /\ d2.at = v /\ d2.kind = o.kind /\ d2.auto = o.auto
  BY <1>1, <1>2, <1>4, <1>5, Zenon
<1>7. MovedTo(d1, o, v) /\ MovedTo(d2, o, v)
  BY <1>6 DEF MovedTo
<1>8. QED
  BY <1>3, <1>7 DEF d1

\* A new operation.
LEMMA OperationBegun ==
    ASSUME NEW k \in Action
    PROVE  /\ LET d == [NoOperation EXCEPT !.kind = k, !.at = "locked"] IN
                 d \in Operation /\ d.at = "locked" /\ d.kind = k /\ ~d.auto
           /\ LET d == [NoOperation EXCEPT !.kind = Restart, !.auto = TRUE,
                                           !.at = "spawned"] IN
                 d \in Operation /\ d.at = "spawned" /\ d.kind = Restart /\ d.auto
<1> DEFINE l1 == [NoOperation EXCEPT !.kind = k]
           l2 == [l1 EXCEPT !.at = "locked"]
           a1 == [NoOperation EXCEPT !.kind = Restart]
           a2 == [a1 EXCEPT !.auto = TRUE]
           a3 == [a2 EXCEPT !.at = "spawned"]
<1>1. /\ [NoOperation EXCEPT !.kind = k, !.at = "locked"] = l2
      /\ [NoOperation EXCEPT !.kind = Restart, !.auto = TRUE, !.at = "spawned"] = a3
  OBVIOUS
<1>2. NoOperation \in Operation /\ NoOperation.auto = FALSE
  BY DEF NoOperation, Operation
<1>3. /\ l1 \in Operation /\ l1.kind = k /\ l1.auto = NoOperation.auto
      /\ a1 \in Operation /\ a1.kind = Restart
  <2>1. l1 \in Operation /\ a1 \in Operation
    BY <1>2 DEF Operation, Action
  <2>2. l1.kind = k /\ l1.auto = NoOperation.auto /\ a1.kind = Restart
    BY <1>2 DEF Operation
  <2>3. QED
    BY <2>1, <2>2
<1> HIDE DEF l1, a1
<1>4. /\ l2 \in Operation /\ l2.at = "locked" /\ l2.kind = l1.kind /\ l2.auto = l1.auto
  <2>1. l2 \in Operation
    BY <1>3 DEF Operation
  <2>2. l2.at = "locked" /\ l2.kind = l1.kind /\ l2.auto = l1.auto
    BY <1>3 DEF Operation
  <2>3. QED
    BY <2>1, <2>2
<1>5. a2 \in Operation /\ a2.kind = a1.kind /\ a2.auto = TRUE
  <2>1. a2 \in Operation
    BY <1>3 DEF Operation
  <2>2. a2.kind = a1.kind /\ a2.auto = TRUE
    BY <1>3 DEF Operation
  <2>3. QED
    BY <2>1, <2>2
<1> HIDE DEF l2, a2
<1>6. /\ a3 \in Operation /\ a3.at = "spawned" /\ a3.kind = a2.kind /\ a3.auto = a2.auto
  <2>1. a3 \in Operation
    BY <1>5 DEF Operation
  <2>2. a3.at = "spawned" /\ a3.kind = a2.kind /\ a3.auto = a2.auto
    BY <1>5 DEF Operation
  <2>3. QED
    BY <2>1, <2>2
<1> HIDE DEF a3
<1>7. /\ l2 \in Operation /\ l2.at = "locked" /\ l2.kind = k /\ l2.auto = FALSE
      /\ a3 \in Operation /\ a3.at = "spawned" /\ a3.kind = Restart /\ a3.auto = TRUE
  BY <1>2, <1>3, <1>4, <1>5, <1>6, Zenon
<1>8. QED
  BY <1>1, <1>7

\* The monitor is at another place, with what it has read.
Sent(d, m, v) ==
    d \in Monitor /\ d.at = v /\ d.sample = m.sample /\ d.fresh = m.fresh

\* The monitor has a status it can make nothing of.
Unread(d) == d \in Monitor /\ d.at = "apply" /\ d.sample = "unknown"

\* The status is as old as b says.
Aged(d, m, b) ==
    d \in Monitor /\ d.at = m.at /\ d.sample = m.sample /\ d.fresh = b

\* The monitor, one or two fields at a time.
LEMMA MonitorUpdates ==
    ASSUME NEW m \in Monitor
    PROVE  /\ \A v \in Place : Sent([m EXCEPT !.at = v], m, v)
           /\ Unread([m EXCEPT !.at = "apply", !.sample = "unknown"])
           /\ \A b \in BOOLEAN : Aged([m EXCEPT !.fresh = b], m, b)
<1>1. ASSUME NEW v \in Place
      PROVE  Sent([m EXCEPT !.at = v], m, v)
  <2>1. [m EXCEPT !.at = v] \in Monitor
    BY DEF Monitor, Place
  <2>2. QED
    BY <2>1 DEF Sent, Monitor, Place
<1>2. Unread([m EXCEPT !.at = "apply", !.sample = "unknown"])
  <2> DEFINE d1 == [m EXCEPT !.at = "apply"]
             d2 == [d1 EXCEPT !.sample = "unknown"]
  <2>1. d1 \in Monitor /\ d1.at = "apply"
    BY <1>1 DEF Sent, Place
  <2>2. [m EXCEPT !.at = "apply", !.sample = "unknown"] = d2
    OBVIOUS
  <2> HIDE DEF d1
  <2>3. d2 \in Monitor
    BY <2>1 DEF Monitor
  <2>4. d2.at = d1.at /\ d2.sample = "unknown"
    BY <2>1 DEF Monitor
  <2>5. QED
    BY <2>1, <2>2, <2>3, <2>4 DEF Unread
<1>3. ASSUME NEW b \in BOOLEAN
      PROVE  Aged([m EXCEPT !.fresh = b], m, b)
  <2>1. [m EXCEPT !.fresh = b] \in Monitor
    BY DEF Monitor
  <2>2. QED
    BY <2>1 DEF Aged, Monitor
<1>4. QED
  BY <1>1, <1>2, <1>3

\* What the two ways of the monitor to go on leave of it.
LEMMA MonitorGoes ==
    ASSUME TypeOK, NEW v \in Place, MonitorAt(v)
    PROVE  mon' \in Monitor /\ mon'.at = v /\ mon'.sample = mon.sample
           /\ mon'.fresh = mon.fresh
<1>1. mon \in Monitor
  BY DEF TypeOK
<1>2. Sent(mon', mon, v)
  BY <1>1, MonitorUpdates, Zenon DEF MonitorAt
<1>3. QED
  BY <1>2 DEF Sent

\* A status that could not be read.
LEMMA MonitorUnread ==
    ASSUME TypeOK, Sampled("unknown")
    PROVE  mon' \in Monitor /\ mon'.at = "apply" /\ mon'.sample = "unknown"
<1>1. mon \in Monitor
  BY DEF TypeOK
<1>2. Unread(mon')
  BY <1>1, MonitorUpdates, Zenon DEF Sampled
<1>3. QED
  BY <1>2 DEF Unread

\* Where the monitor can be.
LEMMA Places ==
    {"tick", "probing", "state", "engine", "apply", "stage", "reprobing", "lock",
     "begin", "create", "clear"} \subseteq Place
BY DEF Place

-----------------------------------------------------------------------------
(* One lemma per action: the types and each part of Safe are kept.         *)

\* A request takes lifecycleMu for an operation that touches nothing yet.
LEMMA RequestStep ==
    ASSUME TypeOK, Safe, NEW kind \in Action, Request(kind)
    PROVE  TypeOK' /\ Safe'
<1>1. /\ op' \in Operation /\ op'.at = "locked" /\ op'.kind = kind /\ ~op'.auto
  BY OperationBegun DEF Request
<1>2. /\ left' \in [Bound -> Nat] /\ left'.store <= Quota.store
      /\ left'.store = Quota.store => left.store = Quota.store
  BY SpendBounds DEF Request, Disturbance, Safe
<1>3. /\ mutex = "free" /\ mutex' = "op"
      /\ UNCHANGED <<engine, active, flock, ctl, mon, incident>>
  BY DEF Request, world
<1>4. TypeOK'
  BY <1>1, <1>2, <1>3 DEF TypeOK
<1>5. Safe'
  BY <1>1, <1>2, <1>3
  DEF TypeOK, Safe, AttemptSound, SampleSound, OperationSound, EngineSound, FreshSound,
      Restarting
<1>6. QED
  BY <1>4, <1>5

\* The store may refuse a request's record: the operation is over at once.
LEMMA CreateStep ==
    ASSUME TypeOK, Safe, Create
    PROVE  TypeOK' /\ Safe'
<1>1. op.at = "locked" /\ UNCHANGED <<engine, active, flock, ctl, mon, incident>>
  BY DEF Create, world
<1>2. CASE op' = [op EXCEPT !.at = "created"] /\ UNCHANGED <<mutex, left>>
  <2>1. op' \in Operation /\ op'.at = "created" /\ op'.kind = op.kind /\ op'.auto = op.auto
    BY <1>2, OperationUpdates, ZenonT(60) DEF TypeOK, At, MovedTo
  <2>2. TypeOK'
    BY <1>1, <1>2, <2>1 DEF TypeOK
  <2>3. Safe'
    BY <1>1, <1>2, <2>1
    DEF TypeOK, Safe, AttemptSound, SampleSound, OperationSound, EngineSound, FreshSound,
        Restarting
  <2>4. QED
    BY <2>2, <2>3
<1>3. CASE Spend("store") /\ op' = NoOperation /\ mutex' = "free"
  <2>1. /\ op' \in Operation /\ op'.at = "none" /\ op'.kind = "none" /\ ~op'.auto
    BY <1>3 DEF NoOperation, Operation
  <2>2. left' \in [Bound -> Nat] /\ left'.store <= Quota.store
        /\ left'.store # Quota.store
    BY <1>3, SpendBounds DEF Disturbance, Safe
  <2>3. TypeOK'
    BY <1>1, <1>3, <2>1, <2>2 DEF TypeOK
  <2>4. Safe'
    BY <1>1, <1>3, <2>1, <2>2
    DEF TypeOK, Safe, AttemptSound, SampleSound, OperationSound, EngineSound, FreshSound,
        Restarting, Restart
  <2>5. QED
    BY <2>3, <2>4
<1>4. QED
  BY <1>2, <1>3 DEF Create

\* A manual restart is announced to the controller before it runs.
LEMMA AnnounceStep ==
    ASSUME TypeOK, Safe, Announce
    PROVE  TypeOK' /\ Safe'
<1>1. /\ op.at = "created"
      /\ UNCHANGED <<engine, active, flock, mutex, mon, incident, left>>
  BY DEF Announce, world
<1>2. op' \in Operation /\ op'.at = "spawned" /\ op'.kind = op.kind /\ op'.auto = op.auto
  BY OperationUpdates, ZenonT(60) DEF Announce, TypeOK, At, MovedTo
<1>3. /\ ctl' \in Controller
      /\ IF op.kind = Restart THEN ctl'.attempted /\ ctl'.active /\ ctl'.healthy = 0
         ELSE ctl' = ctl
  <2>1. BeginManual(ctl) \in Controller /\ BeginManual(ctl).attempted
        /\ BeginManual(ctl).active /\ BeginManual(ctl).healthy = 0
    BY Begun DEF TypeOK, Fault
  <2>2. QED
    BY <2>1 DEF Announce, TypeOK
<1>4. TypeOK'
  BY <1>1, <1>2, <1>3 DEF TypeOK
<1>5. Safe'
  BY <1>1, <1>2, <1>3
  DEF TypeOK, Safe, AttemptSound, SampleSound, OperationSound, EngineSound, FreshSound,
      Restarting
<1>6. QED
  BY <1>4, <1>5

\* The lock is taken, or the operation returns with a failure.
LEMMA AcquireStep ==
    ASSUME TypeOK, Safe, Acquire
    PROVE  TypeOK' /\ Safe'
<1>1. /\ op.at = "spawned"
      /\ UNCHANGED <<engine, active, ctl, mutex, mon, incident, left>>
  BY DEF Acquire
<1>2. /\ op' \in Operation /\ op'.kind = op.kind /\ op'.auto = op.auto
      /\ \/ flock = "free" /\ flock' = "op" /\ op'.at = "running"
         \/ flock' = flock /\ op'.at = "returned"
  <2>1. /\ MovedTo([op EXCEPT !.at = "running"], op, "running")
        /\ MovedTo([op EXCEPT !.at = "returned", !.failed = TRUE], op, "returned")
    <3>1. op \in Operation /\ {"running", "returned"} \subseteq At /\ TRUE \in BOOLEAN
      BY DEF TypeOK, At
    <3>2. QED
      BY <3>1, OperationUpdates, Zenon
  <2>2. CASE flock = "free"
    <3>1. MovedTo(op', op, "running") /\ flock' = "op"
      BY <2>1, <2>2, Zenon DEF Acquire
    <3>2. QED
      BY <2>2, <3>1 DEF MovedTo
  <2>3. CASE flock # "free"
    <3>1. MovedTo(op', op, "returned") /\ flock' = flock
      BY <2>1, <2>3, Zenon DEF Acquire
    <3>2. QED
      BY <3>1 DEF MovedTo
  <2>4. QED
    BY <2>2, <2>3
<1>3. TypeOK'
  BY <1>1, <1>2 DEF TypeOK
<1>4. Safe'
  BY <1>1, <1>2
  DEF TypeOK, Safe, AttemptSound, SampleSound, OperationSound, EngineSound, FreshSound,
      Restarting
<1>5. QED
  BY <1>3, <1>4

\* What the end of the work under the file lock leaves.
LEMMA Left ==
    ASSUME TypeOK, NEW failed \in BOOLEAN, Leave(failed)
    PROVE  /\ op' \in Operation /\ op'.at = "returned" /\ op'.kind = op.kind
           /\ op'.auto = op.auto
           /\ flock' = "free" /\ UNCHANGED <<ctl, mutex, mon, incident>>
<1>1. MovedTo(op', op, "returned")
  <2>1. op \in Operation /\ "returned" \in At
    BY DEF TypeOK, At
  <2>2. QED
    BY <2>1, OperationUpdates, Zenon DEF Leave
<1>2. QED
  BY <1>1 DEF Leave, MovedTo

\* The manager refuses the action, or fails before it has touched anything.
LEMMA RefuseStep ==
    ASSUME TypeOK, Safe, Refuse
    PROVE  TypeOK' /\ Safe'
<1>1. op.at = "running" /\ Leave(TRUE) /\ UNCHANGED <<engine, active>>
  BY DEF Refuse
<1>2. /\ op' \in Operation /\ op'.at = "returned" /\ op'.kind = op.kind
      /\ op'.auto = op.auto
      /\ flock' = "free" /\ UNCHANGED <<ctl, mutex, mon, incident>>
  BY <1>1, Left, Zenon
<1>3. /\ left' \in [Bound -> Nat] /\ left'.store <= Quota.store
      /\ left'.store = Quota.store => left.store = Quota.store
  <2>1. CASE UNCHANGED left
    BY <2>1 DEF TypeOK, Safe, FreshSound
  <2>2. CASE Spend("fault")
    BY <2>2, SpendBounds DEF Disturbance, Safe
  <2>3. QED
    BY <2>1, <2>2 DEF Refuse
<1>4. TypeOK'
  BY <1>1, <1>2, <1>3 DEF TypeOK
<1>5. Safe'
  BY <1>1, <1>2, <1>3
  DEF TypeOK, Safe, AttemptSound, SampleSound, OperationSound, EngineSound, FreshSound,
      Restarting
<1>6. QED
  BY <1>4, <1>5

\* The engine goes down only under a state file, unless the gateway stops.
LEMMA TakeDownStep ==
    ASSUME TypeOK, Safe, TakeDown
    PROVE  TypeOK' /\ Safe'
<1>1. /\ op.at = "running" /\ engine' = "gone"
      /\ UNCHANGED <<flock, ctl, mutex, mon, incident, left>>
  BY DEF TakeDown
<1>2. op' \in Operation /\ op'.at = "replacing" /\ op'.kind = op.kind /\ op'.auto = op.auto
  BY OperationUpdates DEF TakeDown, TypeOK, At, MovedTo
<1>3. active' \in BOOLEAN
  BY Zenon DEF TakeDown, TypeOK
<1>4. op.kind # "stop" => active'
  <2>1. op.kind \in Action
    BY <1>1 DEF Safe, OperationSound
  <2>2. CASE op.kind = "start"
    BY <2>2 DEF TakeDown
  <2>3. CASE op.kind = "reload"
    BY <2>3 DEF TakeDown, Serves
  <2>4. CASE op.kind = Restart
    BY <2>4 DEF TakeDown, Serves, Restart
  <2>5. QED
    BY <2>1, <2>2, <2>3, <2>4 DEF Action
<1>5. TypeOK'
  BY <1>1, <1>2, <1>3 DEF TypeOK
<1>6. active => active'
  BY DEF TakeDown
<1>7. Safe'
  BY <1>1, <1>2, <1>4, <1>6
  DEF TypeOK, Safe, AttemptSound, SampleSound, OperationSound, EngineSound, FreshSound,
      Restarting
<1>8. QED
  BY <1>5, <1>7

\* A new engine is there, or the failed operation leaves none.
LEMMA CompleteStep ==
    ASSUME TypeOK, Safe, Complete
    PROVE  TypeOK' /\ Safe'
<1>1. op.at = "replacing" /\ engine = "gone" /\ (op.kind # "stop" => active)
  BY DEF Complete, Safe, EngineSound
<1>2. /\ op' \in Operation /\ op'.at = "returned" /\ op'.kind = op.kind
      /\ op'.auto = op.auto
      /\ flock' = "free" /\ UNCHANGED <<ctl, mutex, mon, incident>>
  <2>1. Leave(TRUE) \/ Leave(FALSE)
    BY DEF Complete
  <2>2. QED
    BY <2>1, Left, Zenon
<1>3. /\ left' \in [Bound -> Nat] /\ left'.store <= Quota.store
      /\ left'.store = Quota.store => left.store = Quota.store
  <2>1. CASE UNCHANGED left
    BY <2>1 DEF TypeOK, Safe, FreshSound
  <2>2. CASE Spend("fault")
    BY <2>2, SpendBounds DEF Disturbance, Safe
  <2>3. QED
    BY <2>1, <2>2 DEF Complete
<1>4. active' \in BOOLEAN
  BY Zenon DEF Complete, TypeOK
<1>5. engine' \in {"up", "gone"} /\ (~active' => engine' = "gone")
  BY <1>1 DEF Complete
<1>6. TypeOK'
  BY <1>1, <1>2, <1>3, <1>4, <1>5 DEF TypeOK
<1>7. Safe'
  BY <1>1, <1>2, <1>3, <1>5
  DEF TypeOK, Safe, AttemptSound, SampleSound, OperationSound, EngineSound, FreshSound,
      Restarting
<1>8. QED
  BY <1>6, <1>7

\* The end of a restart is the end of operationActive; the attempt stays.
LEMMA Reported ==
    ASSUME TypeOK, Report
    PROVE  /\ ctl' \in Controller /\ ctl'.healthy = ctl.healthy
           /\ ctl.attempted => ctl'.attempted
           /\ IF op.kind = Restart THEN ~ctl'.active ELSE ctl' = ctl
<1>1. op.failed \in BOOLEAN
  BY DEF TypeOK, Operation
<1>2. CASE op.kind # Restart
  <2>1. ctl' = ctl
    BY <1>2 DEF Report
  <2>2. QED
    BY <1>2, <2>1 DEF TypeOK
<1>3. CASE op.kind = Restart
  <2>1. ctl' \in {FinishAutomatic(ctl, op.failed), FinishManual(ctl, op.failed)}
    BY <1>3 DEF Report
  <2>2. QED
    BY <1>1, <1>3, <2>1, EndedAt, SMTT(60) DEF TypeOK
<1>4. QED
  BY <1>2, <1>3

\* The end of a restart makes every status in flight an old one.
LEMMA ReportStep ==
    ASSUME TypeOK, Safe, Report
    PROVE  TypeOK' /\ Safe'
<1>1. /\ op.at = "returned"
      /\ UNCHANGED <<engine, active, flock, mutex, incident, left>>
  BY DEF Report, world
<1>2. op' \in Operation /\ op'.at = "reported" /\ op'.kind = op.kind /\ op'.auto = op.auto
  BY OperationUpdates DEF Report, TypeOK, At, MovedTo
<1>3. /\ mon' \in Monitor /\ mon'.at = mon.at /\ mon'.sample = mon.sample
      /\ op.kind # Restart => mon'.fresh = mon.fresh
  <2>1. (mon.fresh /\ op.kind # Restart) \in BOOLEAN
    OBVIOUS
  <2>2. mon' = [mon EXCEPT !.fresh = (mon.fresh /\ op.kind # Restart)]
    BY DEF Report
  <2> DEFINE b == mon.fresh /\ op.kind # Restart
  <2>3. op.kind # Restart => b = mon.fresh
    BY DEF TypeOK, Monitor
  <2> HIDE DEF b
  <2>4. b \in BOOLEAN /\ mon' = [mon EXCEPT !.fresh = b] /\ mon \in Monitor
    BY <2>1, <2>2 DEF TypeOK, b
  <2>5. Aged(mon', mon, b)
    BY <2>4, MonitorUpdates, Zenon
  <2>6. QED
    BY <2>3, <2>5, Zenon DEF Aged
<1>4. /\ ctl' \in Controller /\ ctl'.healthy = ctl.healthy
      /\ ctl.attempted => ctl'.attempted
      /\ IF op.kind = Restart THEN ~ctl'.active ELSE ctl' = ctl
  BY Reported
<1>5. TypeOK'
  BY <1>1, <1>2, <1>3, <1>4 DEF TypeOK
<1>6. Safe'
  <2>1. AttemptSound'
    BY <1>1, <1>2, <1>3, <1>4 DEF TypeOK, Safe, AttemptSound, Restarting
  <2>2. SampleSound' /\ EngineSound'
    BY <1>1, <1>2, <1>3 DEF TypeOK, Safe, SampleSound, EngineSound
  <2>3. OperationSound'
    BY <1>1, <1>2, <1>3, <1>4 DEF TypeOK, Safe, OperationSound, Restarting
  <2>4. FreshSound'
    <3>1. CASE op.kind = Restart
      BY <1>1, <1>2, <1>3, <1>4, <3>1
      DEF Safe, AttemptSound, FreshSound, Restarting
    <3>2. CASE op.kind # Restart
      BY <1>1, <1>2, <1>3, <1>4, <3>2 DEF Safe, FreshSound, Restarting
    <3>3. QED
      BY <3>1, <3>2
  <2>5. QED
    BY <2>1, <2>2, <2>3, <2>4 DEF Safe
<1>7. QED
  BY <1>5, <1>6

\* lifecycleMu is given back when nothing of the operation is left.
LEMMA UnlockStep ==
    ASSUME TypeOK, Safe, Unlock
    PROVE  TypeOK' /\ Safe'
<1>1. /\ op.at = "reported" /\ mutex' = "free" /\ op' = NoOperation
      /\ UNCHANGED <<engine, active, flock, ctl, mon, incident, left>>
  BY DEF Unlock, world
<1>2. op' \in Operation /\ op'.at = "none" /\ op'.kind = "none" /\ ~op'.auto
  BY <1>1 DEF NoOperation, Operation
<1>3. TypeOK'
  BY <1>1, <1>2 DEF TypeOK
<1>4. Safe'
  BY <1>1, <1>2
  DEF TypeOK, Safe, AttemptSound, SampleSound, OperationSound, EngineSound, FreshSound,
      Restarting, Restart
<1>5. QED
  BY <1>3, <1>4

LEMMA OperateStep ==
    ASSUME TypeOK, Safe, Operate
    PROVE  TypeOK' /\ Safe'
BY CreateStep, AnnounceStep, AcquireStep, RefuseStep, TakeDownStep, CompleteStep,
   ReportStep, UnlockStep
DEF Operate

-----------------------------------------------------------------------------
(* The monitor's steps.                                                    *)

\* Taking the file lock to see whether it is free; a lock held says nothing.
LEMMA ProbeStep ==
    ASSUME TypeOK, Safe, NEW at, NEW next,
           <<at, next>> \in {<<"tick", "probing">>, <<"recheck", "reprobing">>},
           Probe(at, next)
    PROVE  TypeOK' /\ Safe'
<1>1. /\ mon.at = at /\ at \in {"tick", "recheck"} /\ next \in {"probing", "reprobing"}
      /\ at = "tick" <=> next = "probing"
      /\ UNCHANGED <<engine, active, ctl, mutex, op, incident, left>>
  BY DEF Probe
<1>2. /\ mon' \in Monitor
      /\ \/ /\ flock = "free" /\ flock' = "probe" /\ mon'.at = next
            /\ mon'.sample = mon.sample /\ mon'.fresh = mon.fresh
         \/ flock' = flock /\ mon'.at = "apply" /\ mon'.sample = "unknown"
  <2>1. next \in Place
    BY <1>1 DEF Place
  <2>2. QED
    BY <2>1, MonitorGoes, MonitorUnread DEF Probe
<1>3. TypeOK'
  BY <1>1, <1>2 DEF TypeOK
<1>4. Safe'
  BY <1>1, <1>2
  DEF TypeOK, Safe, AttemptSound, SampleSound, OperationSound, EngineSound, FreshSound,
      Restarting
<1>5. QED
  BY <1>3, <1>4

\* The lock was free and is given back.
LEMMA ProbeEndStep ==
    ASSUME TypeOK, Safe, NEW at, NEW next,
           <<at, next>> \in {<<"probing", "state">>, <<"reprobing", "stage">>},
           ProbeEnd(at, next)
    PROVE  TypeOK' /\ Safe'
<1>1. /\ mon.at = at /\ at \in {"probing", "reprobing"} /\ next \in {"state", "stage"}
      /\ at = "probing" <=> next = "state"
      /\ flock' = "free"
      /\ UNCHANGED <<engine, active, ctl, mutex, op, incident, left>>
  BY DEF ProbeEnd
<1>2. /\ mon' \in Monitor /\ mon'.at = next
      /\ mon'.sample = mon.sample /\ mon'.fresh = mon.fresh
  <2>1. next \in Place
    BY <1>1 DEF Place
  <2>2. QED
    BY <2>1, MonitorGoes DEF ProbeEnd
<1>3. TypeOK'
  BY <1>1, <1>2 DEF TypeOK
<1>4. Safe'
  BY <1>1, <1>2, SMTT(30)
  DEF TypeOK, Safe, AttemptSound, SampleSound, OperationSound, EngineSound, FreshSound,
      Restarting, Fault
<1>5. QED
  BY <1>3, <1>4

\* What one of the three readings of a pass leaves: the monitor goes on, or to
\* the report with what it has read.
LEMMA ReadStep ==
    ASSUME TypeOK, Safe, ReadState \/ ReadEngine \/ ReadStage
    PROVE  TypeOK' /\ Safe'
<1>1. /\ mon.at \in {"state", "engine", "stage"}
      /\ UNCHANGED <<engine, active, flock, ctl, mutex, op, incident>>
  BY DEF ReadState, ReadEngine, ReadStage, world
<1>2. /\ left' \in [Bound -> Nat] /\ left'.store <= Quota.store
      /\ left'.store = Quota.store => left.store = Quota.store
  <2>1. CASE UNCHANGED left
    BY <2>1 DEF TypeOK, Safe, FreshSound
  <2>2. CASE Spend("unknown")
    BY <2>2, SpendBounds DEF Disturbance, Safe
  <2>3. QED
    BY <2>1, <2>2 DEF ReadState, ReadEngine, ReadStage
<1>3. /\ mon' \in Monitor
      /\ mon'.at \in {"engine", "recheck", "apply"}
      /\ mon'.at = "recheck" => mon'.sample \in Fault
      /\ mon'.at = "apply" => mon'.fresh \/ mon'.sample # "healthy"
  <2>1. CASE ReadState
    <3>1. MonitorAt("engine") \/ Sampled("unknown")
      BY <2>1 DEF ReadState
    <3>2. QED
      BY <3>1, MonitorGoes, MonitorUnread, Places
  <2>2. CASE ReadEngine
    <3>1. /\ MihomoFailureReason \in Fault \cup {"healthy", "unknown"}
          /\ engine # "up" => MihomoFailureReason \in Fault
      BY DEF MihomoFailureReason, Fault, TypeOK
    <3>2. mon' = [at |-> IF engine = "up" THEN "apply" ELSE "recheck",
                  sample |-> MihomoFailureReason, fresh |-> TRUE]
      BY <2>2, Zenon DEF ReadEngine
    <3>3. QED
      BY <3>1, <3>2 DEF Monitor
  <2>3. CASE ReadStage
    <3>1. MonitorAt("apply") \/ Sampled("unknown")
      BY <2>3 DEF ReadStage
    <3>2. mon.sample \in Fault
      BY <2>3 DEF ReadStage, Safe, SampleSound
    <3>3. QED
      BY <3>1, <3>2, MonitorGoes, MonitorUnread, Places DEF Fault
  <2>4. QED
    BY <2>1, <2>2, <2>3
<1>4. TypeOK'
  BY <1>1, <1>2, <1>3 DEF TypeOK
<1>5. Safe'
  BY <1>1, <1>2, <1>3
  DEF TypeOK, Safe, AttemptSound, SampleSound, OperationSound, EngineSound, FreshSound,
      Restarting
<1>6. QED
  BY <1>4, <1>5

\* The history is reset only by the second healthy sample outside a restart.
LEMMA SampleCounted ==
    ASSUME TypeOK
    PROVE  LET i == Counted(incident) IN
           /\ i \in [restarts : 0..1, healthy : 0..1]
           /\ i.restarts = 1 => incident.restarts = 1
           /\ mon.sample = "healthy" /\ ~Restarting /\ i.restarts = 1 =>
                 incident.healthy = 0 /\ i.healthy = 1
<1>1. /\ [incident EXCEPT !.healthy = 0] \in [restarts : 0..1, healthy : 0..1]
      /\ [incident EXCEPT !.healthy = 1] \in [restarts : 0..1, healthy : 0..1]
      /\ [restarts |-> 0, healthy |-> 0] \in [restarts : 0..1, healthy : 0..1]
  BY DEF TypeOK
<1>2. /\ [incident EXCEPT !.healthy = 0].restarts = incident.restarts
      /\ [incident EXCEPT !.healthy = 1].restarts = incident.restarts
      /\ [incident EXCEPT !.healthy = 1].healthy = 1
  BY DEF TypeOK
<1>3. incident.healthy \in 0..1
  BY DEF TypeOK
<1>4. CASE mon.sample # "healthy" \/ Restarting
  <2>1. Counted(incident) = [incident EXCEPT !.healthy = 0]
    BY <1>4 DEF Counted
  <2>2. QED
    BY <1>1, <1>2, <1>4, <2>1
<1>5. CASE mon.sample = "healthy" /\ ~Restarting /\ incident.healthy = 1
  <2>1. Counted(incident) = [restarts |-> 0, healthy |-> 0]
    BY <1>5 DEF Counted
  <2>2. QED
    BY <1>1, <2>1
<1>6. CASE mon.sample = "healthy" /\ ~Restarting /\ incident.healthy # 1
  <2>1. Counted(incident) = [incident EXCEPT !.healthy = 1]
    BY <1>6 DEF Counted
  <2>2. QED
    BY <1>1, <1>2, <1>3, <1>6, <2>1
<1>7. QED
  BY <1>4, <1>5, <1>6

\* What a report makes of the controller.
LEMMA Applied ==
    ASSUME TypeOK, Apply
    PROVE  /\ ctl' \in Controller /\ ctl'.active = ctl.active
           /\ ctl.active => ctl' = ctl
           /\ ~ctl.active /\ mon.sample # "healthy" =>
                 ctl'.healthy = 0 /\ (ctl.attempted => ctl'.attempted)
           /\ ~ctl.active /\ mon.sample = "healthy" =>
                 IF ctl.attempted /\ ctl.healthy = 0
                 THEN ctl'.attempted /\ ctl'.healthy = 1
                 ELSE ~ctl'.attempted /\ ctl'.healthy = 0
<1>1. ctl \in Controller /\ mon.sample \in Fault \cup {"healthy", "unknown"}
  BY DEF TypeOK, Monitor
<1>2. CASE ctl.active
  <2>1. ctl' = ctl
    BY <1>2 DEF Apply
  <2>2. QED
    BY <1>1, <1>2, <2>1
<1>3. CASE ~ctl.active /\ mon.sample = "unknown"
  <2>1. ctl' = ObserveUnknown(ctl)
    BY <1>3 DEF Apply
  <2>2. QED
    BY <1>1, <1>3, <2>1, UnknownObserved
<1>4. CASE ~ctl.active /\ mon.sample = "healthy"
  <2>1. ctl' = ObserveHealthy(ctl)
    BY <1>4 DEF Apply
  <2>2. QED
    BY <1>1, <1>4, <2>1, HealthyObserved
<1>5. CASE ~ctl.active /\ mon.sample \in Fault
  <2>1. ctl' = ObserveFailure(ctl, mon.sample)
    BY <1>5 DEF Apply, Fault
  <2>2. QED
    BY <1>1, <1>5, <2>1, FailureObserved DEF Fault
<1>6. QED
  BY <1>1, <1>2, <1>3, <1>4, <1>5

\* A status is reported to the controller and to the history.
LEMMA ApplyStep ==
    ASSUME TypeOK, Safe, Apply
    PROVE  TypeOK' /\ Safe'
<1>1. /\ mon.at = "apply" /\ incident' = Counted(incident)
      /\ UNCHANGED <<engine, active, flock, mutex, op, left>>
  BY DEF Apply, world
<1>2. /\ mon' \in Monitor /\ mon'.at \in {"lock", "tick"}
      /\ mon'.at = "lock" => mon'.sample \in Fault
  <2>1. \/ MonitorAt("lock") /\ mon.sample \in Fault
        \/ MonitorAt("tick")
    BY DEF Apply
  <2>2. QED
    BY <2>1, MonitorGoes, Places
<1>3. /\ incident' \in [restarts : 0..1, healthy : 0..1]
      /\ incident'.restarts = 1 => incident.restarts = 1
      /\ mon.sample = "healthy" /\ ~Restarting /\ incident'.restarts = 1 =>
            incident.healthy = 0 /\ incident'.healthy = 1
  BY <1>1, SampleCounted
<1>4. TypeOK'
  BY <1>1, <1>2, <1>3, Applied DEF TypeOK
<1>5. AttemptSound'
  <2>1. ctl.active => ctl' = ctl /\ ctl.healthy = 0
    BY Applied DEF Safe, AttemptSound
  <2>2. ctl'.active => ctl'.healthy = 0
    BY <2>1, Applied
  <2>3. ASSUME incident'.restarts = 1
        PROVE  /\ ctl'.attempted /\ (Restarting' => ctl'.active)
               /\ ctl'.healthy = 1 => incident'.healthy = 1
    <3>1. /\ ctl.attempted /\ (Restarting => ctl.active)
          /\ ctl.healthy = 1 => incident.healthy = 1
      BY <1>3, <2>3 DEF Safe, AttemptSound
    <3>2. Restarting' = Restarting
      BY <1>1 DEF Restarting
    <3>3. ctl.healthy \in 0..1
      BY DEF TypeOK, Controller
    <3>4. CASE ctl.active
      BY <2>1, <3>1, <3>4
    <3>5. CASE ~ctl.active /\ mon.sample # "healthy"
      BY <3>1, <3>2, <3>5, Applied
    <3>6. CASE ~ctl.active /\ mon.sample = "healthy"
      <4>1. incident.healthy = 0 /\ incident'.healthy = 1
        BY <1>3, <2>3, <3>1, <3>6
      <4>2. ctl.healthy = 0
        BY <3>1, <3>3, <4>1
      <4>3. QED
        BY <3>1, <3>2, <3>6, <4>1, <4>2, Applied
    <3>7. QED
      BY <3>4, <3>5, <3>6
  <2>4. QED
    BY <1>2, <2>2, <2>3 DEF AttemptSound
<1>6. SampleSound' /\ OperationSound' /\ EngineSound' /\ FreshSound'
  BY <1>1, <1>2, Applied
  DEF TypeOK, Safe, SampleSound, OperationSound, EngineSound, FreshSound, Restarting
<1>7. QED
  BY <1>4, <1>5, <1>6 DEF Safe

\* lifecycleMu is tried, never waited for.
LEMMA TryLockStep ==
    ASSUME TypeOK, Safe, TryLock
    PROVE  TypeOK' /\ Safe'
<1>1. /\ mon.at = "lock" /\ UNCHANGED <<engine, active, flock, ctl, op, incident, left>>
  BY DEF TryLock, world
<1>2. /\ mon' \in Monitor /\ mon'.sample = mon.sample
      /\ \/ mutex = "free" /\ mutex' = "monitor" /\ mon'.at = "begin"
         \/ mutex' = mutex /\ mon'.at = "tick"
  BY MonitorGoes, Places DEF TryLock
<1>3. TypeOK'
  BY <1>1, <1>2 DEF TypeOK
<1>4. Safe'
  BY <1>1, <1>2
  DEF TypeOK, Safe, AttemptSound, SampleSound, OperationSound, EngineSound, FreshSound,
      Restarting
<1>5. QED
  BY <1>3, <1>4

\* Only an incident without an attempt begins an automatic restart.
LEMMA BeginStep ==
    ASSUME TypeOK, Safe, Begin
    PROVE  TypeOK' /\ Safe'
<1>1. /\ mon.at = "begin" /\ UNCHANGED <<engine, active, flock, op, incident, left>>
  BY DEF Begin, world
<1>2. mon.sample \in Fault
  BY <1>1 DEF Safe, SampleSound
<1>3. op.at = "none" /\ mutex = "monitor"
  BY <1>1 DEF TypeOK
<1>4. CASE MayBegin(ctl)
  <2>1. /\ ctl' \in Controller /\ ctl'.attempted /\ ctl'.active /\ ctl'.healthy = 0
    BY <1>2, <1>4, Begun DEF Begin, TypeOK
  <2>2. /\ mon' \in Monitor /\ mon'.at = "create" /\ mon'.sample = mon.sample
        /\ UNCHANGED mutex
    BY <1>4, MonitorGoes, Places DEF Begin
  <2>3. incident.restarts = 0
    BY <1>4 DEF MayBegin, Safe, AttemptSound, TypeOK
  <2>4. TypeOK'
    BY <1>1, <2>1, <2>2 DEF TypeOK
  <2>5. Safe'
    BY <1>1, <1>2, <1>3, <2>1, <2>2, <2>3
    DEF Safe, AttemptSound, SampleSound, OperationSound, EngineSound, FreshSound,
        Restarting
  <2>6. QED
    BY <2>4, <2>5
<1>5. CASE ~MayBegin(ctl)
  <2>1. /\ mon' \in Monitor /\ mon'.at = "tick" /\ mutex' = "free" /\ UNCHANGED ctl
    BY <1>5, MonitorGoes, Places DEF Begin
  <2>2. TypeOK'
    BY <1>1, <1>3, <2>1 DEF TypeOK
  <2>3. Safe'
    BY <1>1, <1>3, <2>1
    DEF Safe, AttemptSound, SampleSound, OperationSound, EngineSound, FreshSound,
        Restarting
  <2>4. QED
    BY <2>2, <2>3
<1>6. QED
  BY <1>4, <1>5

\* The one restart of the incident, or a store that refuses it.
LEMMA CreateAutomaticStep ==
    ASSUME TypeOK, Safe, CreateAutomatic
    PROVE  TypeOK' /\ Safe'
<1>1. /\ mon.at = "create" /\ UNCHANGED <<engine, active, flock, ctl>>
  BY DEF CreateAutomatic, world
<1>2. /\ incident.restarts = 0 /\ ctl.active /\ ctl.attempted /\ ctl.healthy = 0
      /\ op.at = "none" /\ op = NoOperation
  BY <1>1 DEF TypeOK, Safe, AttemptSound, OperationSound
<1>3. CASE /\ op' = [NoOperation EXCEPT !.kind = Restart, !.auto = TRUE, !.at = "spawned"]
           /\ mutex' = "op" /\ MonitorAt("tick")
           /\ incident' = [incident EXCEPT !.restarts = @ + 1]
           /\ UNCHANGED left
  <2>1. op' \in Operation /\ op'.at = "spawned" /\ op'.kind = Restart /\ op'.auto
    <3>1. "stop" \in Action
      BY DEF Action
    <3>2. QED
      BY <1>3, <3>1, OperationBegun
  <2>2. mon' \in Monitor /\ mon'.at = "tick"
    BY <1>3, MonitorGoes, Places
  <2>3. incident' \in [restarts : 0..1, healthy : 0..1]
    BY <1>2, <1>3 DEF TypeOK
  <2>4. TypeOK'
    BY <1>1, <1>3, <2>1, <2>2, <2>3 DEF TypeOK
  <2>5. Safe'
    BY <1>1, <1>2, <1>3, <2>1, <2>2
    DEF TypeOK, Safe, AttemptSound, SampleSound, OperationSound, EngineSound, FreshSound,
        Restarting, Action
  <2>6. QED
    BY <2>4, <2>5
<1>4. CASE /\ Spend("store") /\ mutex' = "free" /\ MonitorAt("clear")
           /\ UNCHANGED <<op, incident>>
  <2>1. mon' \in Monitor /\ mon'.at = "clear"
    BY <1>4, MonitorGoes, Places
  <2>2. left' \in [Bound -> Nat] /\ left'.store <= Quota.store
        /\ left'.store # Quota.store
    BY <1>4, SpendBounds DEF Disturbance, Safe
  <2>3. TypeOK'
    BY <1>1, <1>2, <1>4, <2>1, <2>2 DEF TypeOK
  <2>4. NoOperation.auto = FALSE
    BY DEF NoOperation
  <2>5. Safe'
    BY <1>1, <1>2, <1>4, <2>1, <2>2, <2>4
    DEF TypeOK, Safe, AttemptSound, SampleSound, OperationSound, EngineSound, FreshSound,
        Restarting
  <2>6. QED
    BY <2>3, <2>5
<1>5. QED
  BY <1>3, <1>4 DEF CreateAutomatic

\* The refused restart is over for the controller; the attempt stays counted.
LEMMA ClearAutomaticStep ==
    ASSUME TypeOK, Safe, ClearAutomatic
    PROVE  TypeOK' /\ Safe'
<1>1. /\ mon.at = "clear" /\ UNCHANGED <<engine, active, flock, mutex, op, incident, left>>
  BY DEF ClearAutomatic, world
<1>2. /\ ctl' \in Controller /\ ~ctl'.active /\ ctl'.healthy = ctl.healthy
  BY EndedAt DEF ClearAutomatic, TypeOK
<1>3. mon' \in Monitor /\ mon'.at = "tick"
  BY MonitorGoes, Places DEF ClearAutomatic
<1>4. TypeOK'
  BY <1>1, <1>2, <1>3 DEF TypeOK
<1>5. Safe'
  BY <1>1, <1>2, <1>3
  DEF Safe, AttemptSound, SampleSound, OperationSound, EngineSound, FreshSound,
      Restarting
<1>6. QED
  BY <1>4, <1>5

LEMMA WatchStep ==
    ASSUME TypeOK, Safe, Watch
    PROVE  TypeOK' /\ Safe'
BY ProbeStep, ProbeEndStep, ReadStep, ApplyStep, TryLockStep, BeginStep,
   CreateAutomaticStep, ClearAutomaticStep
DEF Watch

-----------------------------------------------------------------------------
(* The engine and the commands outside, and the whole.                     *)

\* An engine that dies or heals was there under a state file.
LEMMA EngineStep ==
    ASSUME TypeOK, Safe, Die \/ Heal
    PROVE  TypeOK' /\ Safe'
<1>1. /\ engine # "gone" /\ engine' \in {"up", "refusing", "gone"}
      /\ UNCHANGED <<active, flock, ctl, mutex, op, mon, incident>>
  BY DEF Die, Heal, TypeOK
<1>2. /\ left' \in [Bound -> Nat] /\ left'.store <= Quota.store
      /\ left'.store = Quota.store => left.store = Quota.store
  <2>1. CASE UNCHANGED left
    BY <2>1 DEF TypeOK, Safe, FreshSound
  <2>2. CASE Spend("death")
    BY <2>2, SpendBounds DEF Disturbance, Safe
  <2>3. QED
    BY <2>1, <2>2 DEF Die, Heal
<1>3. TypeOK'
  BY <1>1, <1>2 DEF TypeOK
<1>4. Safe'
  BY <1>1, <1>2
  DEF TypeOK, Safe, AttemptSound, SampleSound, OperationSound, EngineSound, FreshSound,
      Restarting
<1>5. QED
  BY <1>3, <1>4

\* A command of omg has the file lock for itself.
LEMMA CliStep ==
    ASSUME TypeOK, Safe, CliBegin \/ CliEnd
    PROVE  TypeOK' /\ Safe'
<1>1. UNCHANGED <<ctl, mutex, op, mon, incident>>
  BY DEF CliBegin, CliEnd
<1>2. /\ left' \in [Bound -> Nat] /\ left'.store <= Quota.store
      /\ left'.store = Quota.store => left.store = Quota.store
  <2>1. CASE UNCHANGED left
    BY <2>1 DEF TypeOK, Safe, FreshSound
  <2>2. CASE Spend("cli")
    BY <2>2, SpendBounds DEF Disturbance, Safe
  <2>3. QED
    BY <2>1, <2>2 DEF CliBegin, CliEnd
<1>3. /\ flock \in {"free", "cli"} /\ flock' \in {"free", "cli"}
      /\ engine' \in {"up", "gone"} /\ (~active' => engine' = "gone")
      /\ flock' = "cli" => engine' = "gone"
  BY DEF CliBegin, CliEnd
<1>4. active' \in BOOLEAN
  BY Zenon DEF CliBegin, CliEnd, TypeOK
<1>5. TypeOK'
  BY <1>1, <1>2, <1>3, <1>4 DEF TypeOK
<1>6. Safe'
  BY <1>1, <1>2, <1>3
  DEF TypeOK, Safe, AttemptSound, SampleSound, OperationSound, EngineSound, FreshSound,
      Restarting
<1>7. QED
  BY <1>5, <1>6

\* Init establishes the invariant.
LEMMA InitSound == Init => IInv
<1> SUFFICES ASSUME Init PROVE TypeOK /\ Safe
  BY DEF IInv
<1>1. /\ NoOperation \in Operation /\ NoOperation.at = "none"
      /\ NoOperation.kind = "none" /\ NoOperation.auto = FALSE
  BY DEF NoOperation, Operation
<1>2. ctl \in Controller /\ mon \in Monitor
  BY DEF Init, Controller, Monitor
<1>3. Quota \in [Bound -> Nat] /\ "store" \in Bound
  BY RecoveryAssumption DEF Bound, Disturbance
<1>4. TypeOK
  BY <1>1, <1>2, <1>3 DEF Init, TypeOK
<1>5. Safe
  BY <1>1, <1>3
  DEF Init, Safe, AttemptSound, SampleSound, OperationSound, EngineSound, FreshSound,
      Restarting, Restart
<1>6. QED
  BY <1>4, <1>5

\* Every step keeps it.
LEMMA StepSound == IInv /\ [Next]_vars => IInv'
<1> SUFFICES ASSUME TypeOK, Safe, [Next]_vars PROVE TypeOK' /\ Safe'
  BY DEF IInv
<1>1. CASE Next
  BY <1>1, RequestStep, OperateStep, WatchStep, EngineStep, CliStep DEF Next
<1>2. CASE UNCHANGED vars
  <2>1. UNCHANGED <<engine, active, flock, ctl, mutex, op, mon, incident, left>>
    BY <1>2 DEF vars
  <2>2. TypeOK'
    BY <2>1 DEF TypeOK
  <2>3. Safe'
    BY <2>1
    DEF Safe, AttemptSound, SampleSound, OperationSound, EngineSound, FreshSound,
        Restarting
  <2>4. QED
    BY <2>2, <2>3
<1>3. QED
  BY <1>1, <1>2

(* IInv holds in every state the service reaches. *)
THEOREM Invariant == Spec => []IInv
BY InitSound, StepSound, PTL DEF Spec

(* Until an incident is over, mihomo is restarted automatically at most    *)
(* once, whatever samples are in flight and whatever else is asked for,    *)
(* and however often anything goes wrong (observeFailure and begin in      *)
(* mihomo_recovery.go).                                                    *)
THEOREM OneRestartPerIncident == Spec => []OneAttempt
<1>1. IInv => OneAttempt
  BY DEF IInv, TypeOK, OneAttempt
<1>2. QED
  BY <1>1, Invariant, PTL

(* A stopped gateway has no engine: no automatic restart, however old the  *)
(* sample it was decided on, brings mihomo back after the stop.            *)
THEOREM StoppedStaysStopped == Spec => []StopRespected
<1>1. IInv => StopRespected
  BY DEF IInv, Safe, EngineSound, StopRespected
<1>2. QED
  BY <1>1, Invariant, PTL

\* Every other step leaves the controller alone.
LEMMA ControllerWriters ==
    ASSUME Next
    PROVE  Announce \/ Report \/ Apply \/ Begin \/ ClearAutomatic \/ UNCHANGED ctl
<1>1. ASSUME NEW kind \in Action, Request(kind) PROVE UNCHANGED ctl
  BY <1>1 DEF Request
<1>2. CASE Create \/ Acquire \/ TakeDown \/ Unlock
  BY <1>2 DEF Create, Acquire, TakeDown, Unlock
<1>3. CASE Refuse \/ Complete
  BY <1>3 DEF Refuse, Complete, Leave
<1>4. ASSUME NEW at, NEW next, Probe(at, next) \/ ProbeEnd(at, next)
      PROVE  UNCHANGED ctl
  BY <1>4 DEF Probe, ProbeEnd
<1>5. CASE ReadState \/ ReadEngine \/ ReadStage \/ TryLock \/ CreateAutomatic
  BY <1>5 DEF ReadState, ReadEngine, ReadStage, TryLock, CreateAutomatic
<1>6. CASE Die \/ Heal \/ CliBegin \/ CliEnd
  BY <1>6 DEF Die, Heal, CliBegin, CliEnd
<1>7. QED
  BY <1>1, <1>2, <1>3, <1>4, <1>5, <1>6 DEF Next, Operate, Watch

\* What the writers make of an attempt, and of a restart of the monitor.
LEMMA AttemptKept ==
    ASSUME TypeOK, Safe, Next
    PROVE  /\ ctl.attempted /\ ~ctl'.attempted /\ left.store = Quota.store => mon.fresh
           /\ op.auto /\ op.at \in {"spawned", "running", "replacing"} /\ mon.at = "apply"
                => UNCHANGED ctl
<1>1. CASE Announce
  <2>1. op.at = "created"
    BY <1>1 DEF Announce
  <2>2. op.kind = Restart => ctl'.attempted
    BY <1>1, Begun DEF Announce, TypeOK, Fault
  <2>3. op.kind # Restart => ctl' = ctl
    BY <1>1 DEF Announce
  <2>4. QED
    BY <2>1, <2>2, <2>3
<1>2. CASE Report
  <2>1. op.at = "returned"
    BY <1>2 DEF Report
  <2>2. ctl.attempted => ctl'.attempted
    BY <1>2, Reported
  <2>3. QED
    BY <2>1, <2>2
<1>3. CASE Apply
  <2>1. mon.at = "apply" /\ mon.sample \in Fault \cup {"healthy", "unknown"}
    BY <1>3 DEF Apply, TypeOK, Monitor
  <2>2. ASSUME ctl.attempted, ~ctl'.attempted, left.store = Quota.store
        PROVE  mon.fresh
    <3>1. ~ctl.active /\ mon.sample = "healthy" /\ ctl.healthy # 0
      BY <1>3, <2>2, Applied
    <3>2. QED
      BY <2>1, <2>2, <3>1 DEF Safe, FreshSound
  <2>3. ASSUME op.auto, op.at \in {"spawned", "running", "replacing"}
        PROVE  UNCHANGED ctl
    <3>1. ctl.active
      BY <2>3 DEF Safe, OperationSound, Restarting
    <3>2. QED
      BY <1>3, <3>1, Applied
  <2>4. QED
    BY <2>2, <2>3
<1>4. CASE Begin
  <2>1. mon.at = "begin" /\ mon.sample \in Fault
    BY <1>4 DEF Begin, Safe, SampleSound
  <2>2. ctl.attempted => ctl' = ctl
    BY <1>4 DEF Begin, MayBegin
  <2>3. QED
    BY <2>1, <2>2
<1>5. CASE ClearAutomatic
  <2>1. mon.at = "clear"
    BY <1>5 DEF ClearAutomatic
  <2>2. ctl.attempted => ctl'.attempted
    BY <1>5, EndedAt DEF ClearAutomatic, TypeOK
  <2>3. QED
    BY <2>1, <2>2
<1>6. CASE UNCHANGED ctl
  BY <1>6
<1>7. QED
  BY <1>1, <1>2, <1>3, <1>4, <1>5, <1>6, ControllerWriters

(* An incident that had a restart is closed only by a status read after    *)
(* the last restart had ended, as long as the store has refused nothing;   *)
(* and no sample touches the incident while the monitor's own restart      *)
(* runs (operationActive in mihomo_recovery.go).                           *)
THEOREM StaleSamplesCloseNothing == Spec => ClosedByFreshSample
<1> DEFINE A == /\ ctl.attempted /\ ~ctl'.attempted /\ left.store = Quota.store => mon.fresh
                /\ op.auto /\ op.at \in {"spawned", "running", "replacing"}
                      /\ mon.at = "apply" => UNCHANGED ctl
<1>1. IInv /\ [Next]_vars => [A]_vars
  <2> SUFFICES ASSUME IInv, Next PROVE A
    OBVIOUS
  <2> QED
    BY AttemptKept DEF IInv
<1>2. QED
  BY <1>1, Invariant, PTL DEF Spec, ClosedByFreshSample
-----------------------------------------------------------------------------
(* RecoveryWizard: handlers read the record, work for seconds and write    *)
(* what they have made of their copy; operations end in the record too.    *)
(* WizardInv says that with one web UI that waits none of these copies is  *)
(* out of date, what each handler and operation still may rely on, and     *)
(* that whatever may bring the gateway up has had a silent router.         *)

\* One web UI that waits for what it has asked for.
Alone == Patient /\ \A c, d \in Client : c = d

\* The stages in which the gateway may serve.
Taken == {Confirmed} \cup Serving
GatewayOperation == {"start", "stop", "reload"}

Consistent(r) == r.required <=> r.stage \notin Final

\* The alarm belongs to the stage in every copy of the record.
CopiesSound ==
    /\ Consistent(rec) /\ Consistent(task.before)
    /\ \A c \in Client : Consistent(req[c].copy)

\* No disturbance is given back.
BoundsSound == \A k \in Limit : budget[k] <= Allowance[k]

\* A handler and an operation never work at the same time.
TurnsSound ==
    /\ (task.kind = "none") <=> (task.at = "none")
    /\ \A c \in Client : /\ req[c].kind \in Kind => task.kind = "none" /\ req[c].at # "none"
                         /\ req[c].kind \notin Kind => req[c].at = "none"

Accepted(kind) == Offered(kind, rec) /\ Accepts(kind, rec)

\* What a handler has in hand to save, with the record, the Mac and the gateway as
\* they are, and whether the router has been found silent.
Ready(kind, copy, r, m, serves, silent) ==
    IF kind \in {"discard", "config"} THEN copy = r /\ (kind = "config" => ~serves)
    ELSE /\ IF kind = "abandon-takeover" THEN copy.stage \in {"complete", "complete_static"}
            ELSE copy.stage = Reached(kind)
         /\ IF kind = "prepare" THEN HasSnapshot(copy) ELSE copy.snapshot = r.snapshot
         /\ copy.stage = "complete" => m = "dhcp"
         /\ kind = "dhcp-probe" => silent

\* A handler is still entitled to what it was asked for.
HandlerSound ==
    \A c \in Client :
        /\ req[c].at = "work" => Accepted(req[c].kind) /\ req[c].copy = rec
        /\ req[c].at = "save" => Accepted(req[c].kind) /\ Ready(req[c].kind, req[c].copy, rec, mac, gw, proven)
        /\ req[c].at = "card" => req[c].kind = "prepare" /\ rec.stage = "prepared"

\* Nothing brings the gateway up but what a silent router has allowed.
TaskSound ==
    /\ task.auto => autostart /\ budget.crash < Allowance.crash
    /\ task.kind = "start" => proven /\ task.before.stage = Confirmed
    /\ task.kind # "none" => rec = task.before \/ (task.auto /\ task.kind = "start")
    /\ task.kind = "stop" /\ task.before.stage \in Taken => proven
    /\ task.kind = "reload" => task.before.stage \in Serving /\ proven
    /\ task.at = "run" /\ task.kind = "reload" => gw
    /\ task.at = "run" /\ ~gw => proven
    /\ task.at = "save" /\ task.kind = "stop" /\ task.ok => ~gw

\* A confirmed stage has been proven in this takeover.
ProvenSound == rec.stage \in Taken => proven

\* The flow is complete only with the Mac back on DHCP.
CompleteSound == rec.stage = "complete" => mac = "dhcp"

Kept(r) == r.stage \notin Final => HasSnapshot(r)

\* The record knows of a gateway that serves; only a start by autostart, after it
\* has stopped what was left, has it catch up at its end.
AlertSound ==
    Recorded =>
        /\ Kept(rec) /\ Kept(task.before)
        /\ gw => rec.stage \in Taken
                 \/ (rec.stage = Waiting /\ task.auto /\ task.kind = "start" /\ task.at = "save")
        /\ task.kind = "stop" => rec.stage \in Taken
        /\ task.kind = "start" => task.before = rec \/ rec.stage = Waiting
        /\ task.at = "save" /\ task.kind = "start" /\ ~task.ok /\ gw => ~autostart

WizardSafe == /\ CopiesSound /\ BoundsSound /\ TurnsSound /\ HandlerSound /\ TaskSound
        /\ ProvenSound /\ CompleteSound /\ AlertSound

WizardInv == WizardTypeOK /\ WizardSafe

-----------------------------------------------------------------------------
(* What is left of the disturbances.                                       *)

Fewer == budget' \in [Limit -> Nat] /\ \A k \in Limit : budget'[k] <= budget[k]

\* What happens is paid for.
LEMMA Spent ==
    ASSUME WizardTypeOK, NEW kind \in Limit, Afford(kind)
    PROVE  Fewer /\ budget'[kind] + 1 = budget[kind]
BY DEF WizardTypeOK, Afford, Fewer

\* Nothing else is.
LEMMA NothingSpent == ASSUME WizardTypeOK, UNCHANGED budget PROVE Fewer
BY DEF WizardTypeOK, Fewer

\* What has gone wrong stays so.
LEMMA RecordedBefore ==
    ASSUME WizardInv, Fewer, UNCHANGED autostart, Recorded'
    PROVE  Recorded
<1>1. {"lost", "kept", "crash"} \subseteq Limit
  BY DEF Limit
<1>2. \A k \in {"lost", "kept", "crash"} : budget'[k] <= budget[k] /\ budget[k] <= Allowance[k]
                                          /\ budget'[k] \in Nat /\ budget[k] \in Nat /\ Allowance[k] \in Nat
  BY <1>1, WizardAssumption DEF WizardInv, WizardTypeOK, WizardSafe, BoundsSound, Fewer
<1>3. QED
  BY <1>2 DEF Recorded

\* So no quota is exceeded.
LEMMA BoundsKept == ASSUME WizardInv, Fewer PROVE BoundsSound'
<1> SUFFICES ASSUME NEW k \in Limit PROVE budget'[k] <= Allowance[k]
  BY DEF BoundsSound
<1>1. budget'[k] <= budget[k] /\ budget[k] <= Allowance[k] /\ budget'[k] \in Nat /\ budget[k] \in Nat /\ Allowance[k] \in Nat
  BY WizardAssumption DEF WizardInv, WizardTypeOK, WizardSafe, BoundsSound, Fewer
<1>2. QED
  BY <1>1

\* A restart that was spent is never given back.
LEMMA CrashesLeft ==
    ASSUME WizardInv, Fewer, budget.crash < Allowance.crash
    PROVE  budget'.crash < Allowance.crash
<1>1. "crash" \in Limit
  BY DEF Limit
<1>2. budget'["crash"] <= budget["crash"] /\ budget'["crash"] \in Nat /\ budget["crash"] \in Nat /\ Allowance["crash"] \in Nat
  BY <1>1, WizardAssumption DEF WizardInv, WizardTypeOK, Fewer
<1>3. QED
  BY <1>2

-----------------------------------------------------------------------------
(* Records.                                                                *)

\* Moving a record sets the alarm and keeps the snapshot.
LEMMA MovedRecord ==
    ASSUME NEW r \in RecoveryState, NEW stage \in Stage
    PROVE  /\ Moved(r, stage) \in RecoveryState /\ Consistent(Moved(r, stage))
           /\ Moved(r, stage).stage = stage /\ Moved(r, stage).snapshot = r.snapshot
<1> DEFINE m == [r EXCEPT !.stage = stage]
<1>1. m \in RecoveryState /\ m.stage = stage /\ m.snapshot = r.snapshot
  BY DEF RecoveryState
<1>2. Moved(r, stage) = [m EXCEPT !.required = stage \notin Final]
  BY DEF Moved, RecoveryState
<1> HIDE DEF m
<1>3. QED
  BY <1>1, <1>2 DEF RecoveryState, Consistent

\* The empty record.
LEMMA IdleRecord == Idle \in RecoveryState /\ Consistent(Idle) /\ Idle.stage = "idle"
BY DEF Idle, RecoveryState, Consistent, Stage, Final

Asked == [kind : Kind \cup {"none", "operation"}, at : {"none", "work", "save", "card"}, copy : RecoveryState]

\* The one request there is.
LEMMA Answered ==
    ASSUME Alone, WizardTypeOK, NEW c \in Client, Answer(c)
    PROVE  req' \in [Client -> Asked] /\ \A d \in Client : req'[d] = NoRequest
<1>1. NoRequest \in Asked
  BY IdleRecord DEF NoRequest, Asked
<1>2. QED
  BY <1>1 DEF Alone, Answer, WizardTypeOK, Asked

\* And one that goes on to save.
LEMMA Saving ==
    ASSUME Alone, WizardTypeOK, NEW c \in Client, NEW copy \in RecoveryState, ToSave(c, copy)
    PROVE  /\ req' \in [Client -> Asked]
           /\ \A d \in Client : req'[d] = [kind |-> req[c].kind, at |-> "save", copy |-> copy]
<1> DEFINE new == [kind |-> req[c].kind, at |-> "save", copy |-> copy]
<1>1. req[c] \in Asked /\ req \in [Client -> Asked]
  BY DEF WizardTypeOK, Asked
<1>2. new \in Asked
  BY <1>1 DEF Asked
<1> DEFINE q == [req[c] EXCEPT !.at = "save"]
<1>3. [q EXCEPT !.copy = copy] = new
  <2>1. q = [kind |-> req[c].kind, at |-> "save", copy |-> req[c].copy]
    BY <1>1 DEF Asked
  <2> HIDE DEF q
  <2>2. QED
    BY <2>1
<1> DEFINE mid == [req EXCEPT ![c] = q]
<1>4. req' = [mid EXCEPT ![c] = [mid[c] EXCEPT !.copy = copy]]
  BY <1>1 DEF ToSave
<1>5. mid \in [Client -> Asked] /\ mid[c] = q
  BY <1>1 DEF Asked
<1> HIDE DEF new, q, mid
<1>6. req' = [mid EXCEPT ![c] = new]
  BY <1>3, <1>4, <1>5
<1>7. \A d \in Client : req'[d] = new
  BY <1>5, <1>6 DEF Alone
<1>8. QED
  BY <1>2, <1>5, <1>6, <1>7 DEF new

-----------------------------------------------------------------------------
(* What handlers do.                                                       *)

\* While a handler works, no operation does.
LEMMA Handling ==
    ASSUME WizardInv, NEW c \in Client, req[c].at # "none"
    PROVE  /\ req[c].kind \in Kind /\ task.kind = "none" /\ task.at = "none"
           /\ req[c].copy \in RecoveryState
BY DEF WizardInv, WizardSafe, TurnsSound, WizardTypeOK, Asked

\* Work on the network that ends with an answer or with something to save.
LEMMA WorkKeeps ==
    ASSUME Alone, WizardInv, NEW c \in Client, req[c].at = "work",
           UNCHANGED <<rec, card, router, gw, intent, task>>, Fewer,
           mac' \in Mode, mac' # mac => mac' = "dhcp" \/ rec.stage # "complete",
           proven' \in BOOLEAN, proven => proven',
           NEW k, k = req[c].kind,
           Answer(c) \/ \E copy \in RecoveryState : ToSave(c, copy) /\ Consistent(copy) /\ Ready(k, copy, rec', mac', gw', proven')
    PROVE  WizardInv'
<1> USE DEF network, intent
<1>1. k \in Kind /\ task.kind = "none" /\ task.at = "none"
  BY Handling
<1>2. req' \in [Client -> Asked]
      /\ \/ \A d \in Client : req'[d] = NoRequest
         \/ \E copy \in RecoveryState : Consistent(copy) /\ Ready(k, copy, rec', mac', gw', proven')
               /\ \A d \in Client : req'[d] = [kind |-> k, at |-> "save", copy |-> copy]
  BY Answered, Saving, ZenonT(60) DEF WizardInv
<1>3. Accepted(k)' /\ Accepted(k)
  <2>1. Accepted(k)
    BY DEF WizardInv, WizardSafe, HandlerSound
  <2>2. QED
    BY <2>1, <1>1 DEF Accepted, Offered, Accepts, AbandonAllowed, HasSnapshot
<1>4. NoRequest.kind = "none" /\ NoRequest.at = "none" /\ Consistent(NoRequest.copy)
  BY IdleRecord DEF NoRequest
<1>5. "none" \notin Kind
  BY DEF Kind
<1>6. WizardTypeOK'
  BY <1>2 DEF WizardInv, WizardTypeOK, Asked, Fewer
<1>7. CopiesSound'
  BY <1>2, <1>4 DEF WizardInv, WizardSafe, CopiesSound
<1>8. TurnsSound'
  BY <1>1, <1>2, <1>4, <1>5 DEF WizardInv, WizardSafe, TurnsSound
<1>9. HandlerSound'
  BY <1>2, <1>3, <1>4 DEF HandlerSound
<1>10. TaskSound'
  BY <1>1, CrashesLeft DEF WizardInv, WizardSafe, TaskSound, WizardTypeOK
<1>11. ProvenSound' /\ CompleteSound'
  BY DEF WizardInv, WizardSafe, ProvenSound, CompleteSound
<1>12. AlertSound'
  BY <1>1, RecordedBefore DEF WizardInv, WizardSafe, AlertSound, Kept, HasSnapshot
<1>13. QED
  BY <1>6, <1>7, <1>8, <1>9, <1>10, <1>11, <1>12, BoundsKept DEF WizardInv, WizardSafe

\* What a handler may leave in the record.
Fit(r) ==
    /\ r \in RecoveryState /\ Consistent(r)
    /\ r.stage \in Taken => proven
    /\ r.stage = "complete" => mac = "dhcp"
    /\ Recorded => Kept(r) /\ (gw => r.stage \in Taken)

\* A handler that has saved, or could not, and has answered or writes the card.
LEMMA RecordKeeps ==
    ASSUME Alone, WizardInv, NEW c \in Client, req[c].at # "none",
           UNCHANGED <<mac, router, gw, intent, task>>, Fewer, card' \in BOOLEAN,
           UNCHANGED <<rec, proven>> \/ \E r : Fit(r) /\ Remembers(r),
           req' \in [Client -> Asked],
           \/ \A d \in Client : req'[d] = NoRequest
           \/ /\ \A d \in Client : req'[d].kind = "prepare" /\ req'[d].at = "card" /\ Consistent(req'[d].copy)
              /\ rec'.stage = "prepared"
    PROVE  WizardInv'
<1> USE DEF intent
<1>1. task.kind = "none" /\ task.at = "none"
  BY Handling
<1>2. NoRequest.kind = "none" /\ NoRequest.at = "none" /\ Consistent(NoRequest.copy)
  BY IdleRecord DEF NoRequest
<1>3. "none" \notin Kind /\ "prepare" \in Kind
  BY DEF Kind
<1>4. rec' \in RecoveryState /\ Consistent(rec') /\ proven' \in BOOLEAN
  BY DEF WizardInv, WizardSafe, CopiesSound, WizardTypeOK, Fit, Remembers
<1>5. WizardTypeOK'
  BY <1>4 DEF WizardInv, WizardTypeOK, Asked, Fewer, Consistent
<1>6. CopiesSound'
  BY <1>2, <1>4 DEF WizardInv, WizardSafe, CopiesSound
<1>7. TurnsSound'
  BY <1>1, <1>2, <1>3 DEF WizardInv, WizardSafe, TurnsSound
<1>8. HandlerSound'
  BY <1>2 DEF HandlerSound
<1>9. TaskSound'
  BY <1>1, CrashesLeft DEF WizardInv, WizardSafe, TaskSound, WizardTypeOK
<1>10. ProvenSound' /\ CompleteSound'
  BY DEF WizardInv, WizardSafe, ProvenSound, CompleteSound, Fit, Remembers, Taken, Serving, Confirmed, Final
<1>11. AlertSound'
  <2> SUFFICES ASSUME Recorded' PROVE Recorded /\ Kept(rec') /\ Kept(task.before) /\ (gw => rec'.stage \in Taken)
    BY <1>1 DEF AlertSound, Kept, HasSnapshot
  <2>1. Recorded
    BY RecordedBefore
  <2>2. QED
    BY <1>1, <2>1 DEF WizardInv, WizardSafe, AlertSound, Fit, Remembers
<1>12. QED
  BY <1>5, <1>6, <1>7, <1>8, <1>9, <1>10, <1>11, BoundsKept DEF WizardInv, WizardSafe

\* A request is accepted by the record as it is.
LEMMA AskKeeps ==
    ASSUME Alone, WizardInv, NEW c \in Client, NEW kind \in Kind, Ask(c, kind)
    PROVE  WizardInv'
<1> USE DEF network, intent
<1> DEFINE new == [kind |-> kind, at |-> "work", copy |-> rec]
<1>1. task.kind = "none" /\ task.at = "none"
  BY DEF Ask, Alone, WizardInv, WizardSafe, TurnsSound
<1>2. Fewer
  BY Spent, NothingSpent DEF Ask, WizardInv, Limit
<1>3. req' \in [Client -> Asked] /\ \A d \in Client : req'[d] = new
  BY DEF Ask, Alone, WizardInv, WizardTypeOK, Asked
<1>4. WizardTypeOK'
  BY <1>2, <1>3 DEF Ask, WizardInv, WizardTypeOK, Asked, Fewer
<1>5. CopiesSound' /\ TurnsSound' /\ ProvenSound' /\ CompleteSound'
  BY <1>1, <1>3 DEF Ask, WizardInv, WizardSafe, CopiesSound, TurnsSound, ProvenSound, CompleteSound
<1>6. HandlerSound'
  <2>1. Accepted(kind)'
    BY DEF Ask, Accepted, Offered, Accepts, AbandonAllowed, HasSnapshot
  <2>2. QED
    BY <1>3, <2>1 DEF Ask, HandlerSound
<1>7. TaskSound'
  BY <1>1, <1>2, CrashesLeft DEF Ask, WizardInv, WizardSafe, TaskSound, WizardTypeOK
<1>8. AlertSound'
  BY <1>1, <1>2, RecordedBefore DEF Ask, WizardInv, WizardSafe, AlertSound, Kept, HasSnapshot
<1>9. QED
  BY <1>2, <1>4, <1>5, <1>6, <1>7, <1>8, BoundsKept DEF WizardInv, WizardSafe

\* A silent router is proven before the stage says so.
LEMMA ProbeKeeps ==
    ASSUME Alone, WizardInv, NEW c \in Client, ProbeRouter(c)
    PROVE  WizardInv'
<1> DEFINE k == req[c].kind
           r == Moved(req[c].copy, Reached(k))
<1>1. k \in {"dhcp-probe", "router-restored"} /\ req[c].at = "work" /\ req[c].copy = rec
  BY DEF ProbeRouter, WizardInv, WizardSafe, HandlerSound
<1>2. /\ r \in RecoveryState /\ Consistent(r) /\ r.stage = Reached(k) /\ r.snapshot = rec.snapshot
      /\ r.stage # "complete"
  BY <1>1, MovedRecord DEF Reached, Stage, Confirmed, WizardInv, WizardTypeOK
<1>3. Fewer /\ UNCHANGED <<rec, card, mac, router, gw, autostart, desired, task>> /\ proven' \in BOOLEAN
  BY NothingSpent DEF ProbeRouter, WizardInv, WizardTypeOK, network, intent
<1>4. proven => proven'
  BY DEF ProbeRouter
<1>5. Answer(c) \/ (ToSave(c, r) /\ (k = "dhcp-probe" => proven'))
  BY <1>1 DEF ProbeRouter
<1> HIDE DEF r
<1>6. k \notin {"prepare", "discard", "config", "abandon-takeover"}
  BY <1>1
<1>7. ASSUME ~Answer(c) PROVE ToSave(c, r) /\ Ready(k, r, rec', mac', gw', proven')
  <2>1. r.snapshot = rec'.snapshot
    BY <1>2, <1>3
  <2>2. ToSave(c, r) /\ (k = "dhcp-probe" => proven')
    BY <1>5, <1>7
  <2> HIDE DEF k
  <2>3. QED
    BY <1>2, <1>6, <2>1, <2>2 DEF Ready
<1>8. QED
  BY <1>1, <1>2, <1>3, <1>4, <1>5, <1>7, WorkKeeps DEF network, intent, WizardInv, WizardTypeOK

\* The Mac is back on DHCP before the flow is complete.
LEMMA RestoreMacKeeps ==
    ASSUME Alone, WizardInv, NEW c \in Client, RestoreMac(c)
    PROVE  WizardInv'
<1> DEFINE k == req[c].kind
           r == Moved(req[c].copy, "complete")
<1>1. k \in {"manual-finish", "restore-dhcp"} /\ req[c].at = "work" /\ req[c].copy = rec
  BY DEF RestoreMac, WizardInv, WizardSafe, HandlerSound
<1>2. r \in RecoveryState /\ Consistent(r) /\ r.stage = "complete" /\ r.snapshot = rec.snapshot
  BY <1>1, MovedRecord DEF Stage, Final, WizardInv, WizardTypeOK
<1>3. /\ Fewer /\ UNCHANGED <<rec, card, router, gw, autostart, desired, task, proven>>
      /\ mac' = "dhcp" /\ ToSave(c, r)
  BY NothingSpent DEF RestoreMac, WizardInv, intent
<1>4. Ready(k, r, rec', mac', gw', proven')
  BY <1>1, <1>2, <1>3 DEF Ready, Reached
<1> HIDE DEF r
<1>5. QED
  BY <1>1, <1>2, <1>3, <1>4, WorkKeeps DEF network, intent, Mode, WizardInv, WizardTypeOK

\* Or it stays static and the flow ends as such.
LEMMA AbandonKeeps ==
    ASSUME Alone, WizardInv, NEW c \in Client, AbandonTakeover(c)
    PROVE  WizardInv'
<1> DEFINE k == req[c].kind
<1>1. k = "abandon-takeover" /\ req[c].at = "work" /\ req[c].copy = rec
  BY DEF AbandonTakeover, WizardInv, WizardSafe, HandlerSound
<1>2. Fewer /\ UNCHANGED <<rec, card, router, gw, autostart, desired, task, proven>>
  BY NothingSpent DEF AbandonTakeover, WizardInv, intent
<1>3. \E r \in RecoveryState : Consistent(r) /\ ToSave(c, r) /\ Ready(k, r, rec', mac', gw', proven')
  <2>1. ASSUME NEW stage \in {"complete", "complete_static"}, stage = "complete" => mac' = "dhcp",
               ToSave(c, Moved(req[c].copy, stage))
        PROVE  <1>3!:
    <3> DEFINE r == Moved(req[c].copy, stage)
    <3>1. r \in RecoveryState /\ Consistent(r) /\ r.stage = stage /\ r.snapshot = rec.snapshot
      BY <1>1, MovedRecord DEF Stage, Final, WizardInv, WizardTypeOK
    <3>2. ToSave(c, r)
      BY <2>1
    <3> HIDE DEF r
    <3>3. Ready(k, r, rec', mac', gw', proven')
      BY <1>1, <1>2, <2>1, <3>1 DEF Ready
    <3>4. QED
      BY <3>1, <3>2, <3>3
  <2>2. QED
    BY <2>1 DEF AbandonTakeover
<1>4. mac' \in Mode /\ (mac' # mac => mac' = "dhcp")
  BY DEF AbandonTakeover, WizardInv, WizardTypeOK, Mode
<1>5. QED
  BY <1>1, <1>2, <1>3, <1>4, WorkKeeps DEF network, intent, WizardInv, WizardTypeOK

\* A preparation has a snapshot.
LEMMA DiscoverKeeps ==
    ASSUME Alone, WizardInv, NEW c \in Client, Discover(c)
    PROVE  WizardInv'
<1> DEFINE k == req[c].kind
           r == [stage |-> "prepared", required |-> TRUE, snapshot |-> mac]
<1>1. k = "prepare" /\ req[c].at = "work"
  BY DEF Discover
<1>2. r \in RecoveryState /\ Consistent(r) /\ r.stage = "prepared" /\ HasSnapshot(r)
  BY DEF RecoveryState, Stage, Consistent, Final, HasSnapshot, WizardInv, WizardTypeOK, Mode
<1>3. /\ Fewer /\ UNCHANGED <<rec, card, mac, router, gw, autostart, desired, task, proven>>
      /\ ToSave(c, r)
  BY NothingSpent DEF Discover, WizardInv, network, intent
<1> HIDE DEF r
<1>4. Ready(k, r, rec', mac', gw', proven')
  BY <1>1, <1>2, <1>3 DEF Ready, Reached, HasSnapshot
<1>5. QED
  BY <1>1, <1>2, <1>3, <1>4, WorkKeeps DEF network, intent, WizardInv, WizardTypeOK

\* The Mac becomes static only in a prepared takeover.
LEMMA ApplyStaticKeeps ==
    ASSUME Alone, WizardInv, NEW c \in Client, ApplyStatic(c)
    PROVE  WizardInv'
<1> DEFINE k == req[c].kind
           r == Moved(req[c].copy, "mac_static")
<1>1. k = "apply-static" /\ req[c].at = "work" /\ req[c].copy = rec /\ rec.stage = "prepared"
  BY DEF ApplyStatic, WizardInv, WizardSafe, HandlerSound, Accepted, Accepts
<1>2. r \in RecoveryState /\ Consistent(r) /\ r.stage = "mac_static" /\ r.snapshot = rec.snapshot
  BY <1>1, MovedRecord DEF Stage, Final, WizardInv, WizardTypeOK
<1>3. /\ Fewer /\ UNCHANGED <<rec, card, router, gw, autostart, desired, task, proven>>
      /\ mac' = "static" /\ (Answer(c) \/ ToSave(c, r))
  BY NothingSpent, Spent DEF ApplyStatic, WizardInv, intent, Limit
<1>4. Ready(k, r, rec', mac', gw', proven')
  BY <1>1, <1>2, <1>3 DEF Ready, Reached
<1> HIDE DEF r
<1>5. QED
  BY <1>1, <1>2, <1>3, <1>4, WorkKeeps DEF network, intent, Mode, WizardInv, WizardTypeOK

\* Decisions that need no work.
LEMMA DecideKeeps ==
    ASSUME Alone, WizardInv, NEW c \in Client, Decide(c)
    PROVE  WizardInv'
<1> DEFINE k == req[c].kind
           r == Moved(req[c].copy, Reached(k))
<1>1. req[c].at = "work" /\ req[c].copy = rec /\ rec \in RecoveryState /\ Consistent(rec)
  BY DEF Decide, WizardInv, WizardSafe, HandlerSound, CopiesSound, WizardTypeOK
<1>2. Fewer /\ UNCHANGED <<rec, card, mac, router, gw, autostart, desired, task, proven>>
  BY NothingSpent DEF Decide, WizardInv, network, intent
<1>3. CASE k \in {"client-validated", "client-validation-skip", "keep-static"} /\ ToSave(c, r)
  <2>1. /\ r \in RecoveryState /\ Consistent(r) /\ r.stage = Reached(k) /\ r.snapshot = rec.snapshot
        /\ r.stage # "complete"
    BY <1>1, <1>3, MovedRecord, SMTT(60) DEF Reached, Stage, Final, Serving
  <2> HIDE DEF r
  <2>2. Ready(k, r, rec', mac', gw', proven')
    BY <1>2, <1>3, <2>1 DEF Ready
  <2>3. QED
    BY <1>1, <1>2, <1>3, <2>1, <2>2, WorkKeeps DEF network, intent, WizardInv, WizardTypeOK
<1>4. CASE k = "discard" /\ ToSave(c, req[c].copy)
  <2>1. Ready(k, rec, rec', mac', gw', proven')
    BY <1>2, <1>4 DEF Ready
  <2>2. ToSave(c, rec)
    BY <1>1, <1>4
  <2>3. QED
    BY <1>1, <1>2, <2>1, <2>2, WorkKeeps DEF network, intent, WizardInv, WizardTypeOK
<1>5. CASE k = "config" /\ IF gw THEN Answer(c) ELSE ToSave(c, req[c].copy)
  <2>1. ~gw => Ready(k, rec, rec', mac', gw', proven')
    BY <1>2, <1>5 DEF Ready
  <2>2. Answer(c) \/ (~gw /\ ToSave(c, rec))
    BY <1>1, <1>5
  <2>3. QED
    BY <1>1, <1>2, <2>1, <2>2, WorkKeeps DEF network, intent, WizardInv, WizardTypeOK
<1>6. QED
  BY <1>3, <1>4, <1>5 DEF Decide

\* Work that fails has changed nothing.
LEMMA FailKeeps ==
    ASSUME Alone, WizardInv, NEW c \in Client, Fail(c)
    PROVE  WizardInv'
<1>1. /\ req[c].at = "work" /\ Answer(c) /\ Fewer
      /\ UNCHANGED <<rec, card, mac, router, gw, autostart, desired, task, proven>>
  BY Spent DEF Fail, WizardInv, Limit, network, intent
<1>2. QED
  BY <1>1, WorkKeeps DEF network, intent, WizardInv, WizardTypeOK

\* What a handler is ready to save fits whatever the gateway is by then.
LEMMA ReadyFits ==
    ASSUME WizardInv, NEW c \in Client, req[c].at = "save", req[c].kind \notin {"discard", "config"}
    PROVE  Fit(req[c].copy)
<1> DEFINE k == req[c].kind
           r == req[c].copy
<1>1. k \in Kind \ {"discard", "config"} /\ task.kind = "none" /\ r \in RecoveryState
  BY Handling
<1>2. Accepted(k) /\ Ready(k, r, rec, mac, gw, proven) /\ Consistent(r)
  BY DEF WizardInv, WizardSafe, HandlerSound, CopiesSound
<1>3. /\ IF k = "abandon-takeover" THEN r.stage \in {"complete", "complete_static"} ELSE r.stage = Reached(k)
      /\ IF k = "prepare" THEN HasSnapshot(r) ELSE r.snapshot = rec.snapshot
      /\ r.stage = "complete" => mac = "dhcp"
      /\ k = "dhcp-probe" => proven
  BY <1>1, <1>2 DEF Ready
<1>4. rec.stage \in Taken => proven
  BY DEF WizardInv, WizardSafe, ProvenSound
<1>5. Recorded => Kept(rec) /\ (gw => rec.stage \in Taken)
  BY <1>1 DEF WizardInv, WizardSafe, AlertSound
<1> HIDE DEF k, r
<1>6. r.stage \in Taken => proven
  BY <1>1, <1>2, <1>3, <1>4 DEF Accepted, Accepts, Reached, Taken, Serving, Confirmed, Final, Kind
<1>7. Recorded => Kept(r)
  <2>1. CASE k \in {"prepare", "apply-static", "router-restored"}
    BY <1>2, <1>3, <2>1 DEF Accepted, Accepts, Kept, HasSnapshot
  <2>2. CASE k \in {"dhcp-probe", "client-validated", "client-validation-skip"}
    BY <1>2, <1>3, <1>5, <2>2 DEF Accepted, Accepts, Kept, HasSnapshot, Final
  <2>3. CASE k \in {"abandon-takeover", "manual-finish", "keep-static", "restore-dhcp"}
    BY <1>3, <2>3 DEF Reached, Kept, Final
  <2>4. QED
    BY <1>1, <2>1, <2>2, <2>3 DEF Kind
<1>8. gw /\ rec.stage \in Taken => r.stage \in Taken
  BY <1>1, <1>2, <1>3 DEF Accepted, Offered, Accepts, AbandonAllowed, Reached, Taken, Serving, Confirmed, Waiting, Final, Kind
<1>9. Fit(r)
  BY <1>1, <1>2, <1>3, <1>5, <1>6, <1>7, <1>8 DEF Fit
<1>10. QED
  BY <1>9 DEF r

\* Save writes what was ready.
LEMMA SaveKeeps ==
    ASSUME Alone, WizardInv, NEW c \in Client, Save(c)
    PROVE  WizardInv'
<1> DEFINE r == req[c].copy
<1>1. req[c].at = "save" /\ req[c].kind \notin {"discard", "config"} /\ r \in RecoveryState /\ Consistent(r)
  BY Handling DEF Save, WizardInv, WizardSafe, CopiesSound
<1>2. UNCHANGED <<card, mac, router, gw, autostart, desired, task>> /\ Fewer /\ card' \in BOOLEAN
  BY Spent, NothingSpent DEF Save, WizardInv, WizardTypeOK, Limit, network, intent
<1>3. Fit(r)
  BY <1>1, ReadyFits
<1>4. CASE Remembers(r) /\ req[c].kind = "prepare" /\ req' = [req EXCEPT ![c].at = "card"]
  <2>1. rec'.stage = "prepared"
    BY <1>1, <1>4 DEF Remembers, WizardInv, WizardSafe, HandlerSound, Ready, Reached
  <2>2. req' \in [Client -> Asked] /\ \A d \in Client : req'[d] = [req[c] EXCEPT !.at = "card"]
    BY <1>4 DEF Alone, WizardInv, WizardTypeOK, Asked
  <2>3. [req[c] EXCEPT !.at = "card"].kind = "prepare" /\ [req[c] EXCEPT !.at = "card"].at = "card"
        /\ [req[c] EXCEPT !.at = "card"].copy = r
    BY <1>4 DEF WizardInv, WizardTypeOK
  <2>4. QED
    BY <1>1, <1>2, <1>3, <1>4, <2>1, <2>2, <2>3, RecordKeeps DEF network, intent
<1>5. CASE Remembers(r) /\ Answer(c)
  BY <1>1, <1>2, <1>3, <1>5, Answered, RecordKeeps DEF network, intent, WizardInv
<1>6. CASE Answer(c) /\ UNCHANGED <<rec, proven>>
  BY <1>1, <1>2, <1>6, Answered, RecordKeeps DEF network, intent, WizardInv
<1>7. QED
  BY <1>4, <1>5, <1>6 DEF Save

\* The record may be forgotten only under no gateway.
LEMMA IdleFits == ASSUME Recorded => ~gw PROVE Fit(Idle)
BY IdleRecord DEF Fit, Taken, Serving, Confirmed, Kept, Final

\* A preparation without its card is forgotten.
LEMMA SaveCardKeeps ==
    ASSUME Alone, WizardInv, NEW c \in Client, SaveCard(c)
    PROVE  WizardInv'
<1>1. req[c].at = "card" /\ rec.stage = "prepared" /\ task.kind = "none" /\ Answer(c)
  BY Handling DEF SaveCard, WizardInv, WizardSafe, HandlerSound
<1>2. UNCHANGED <<mac, router, gw, autostart, desired, task>> /\ Fewer /\ card' \in BOOLEAN
  BY Spent, NothingSpent DEF SaveCard, WizardInv, WizardTypeOK, Limit, network, intent
<1>3. Recorded => ~gw
  BY <1>1 DEF WizardInv, WizardSafe, AlertSound, Taken, Serving, Confirmed
<1>4. UNCHANGED <<rec, proven>> \/ Remembers(Idle)
  BY DEF SaveCard
<1>5. QED
  BY <1>1, <1>2, <1>3, <1>4, IdleFits, Answered, RecordKeeps DEF network, intent, WizardInv

\* Discarding looks at the stage once more.
LEMMA DiscardKeeps ==
    ASSUME Alone, WizardInv, NEW c \in Client, Discard(c)
    PROVE  WizardInv'
<1>1. req[c].at = "save" /\ task.kind = "none" /\ Answer(c)
  BY Handling DEF Discard
<1>2. UNCHANGED <<mac, router, gw, autostart, desired, task>> /\ Fewer /\ card' \in BOOLEAN
  BY Spent, NothingSpent DEF Discard, WizardInv, WizardTypeOK, Limit, network, intent
<1>3. rec.stage = "prepared" /\ Recorded => ~gw
  BY <1>1 DEF WizardInv, WizardSafe, AlertSound, Taken, Serving, Confirmed
<1>4. UNCHANGED <<rec, proven>> \/ (rec.stage = "prepared" /\ Remembers(Idle))
  BY DEF Discard
<1>5. QED
  BY <1>1, <1>2, <1>3, <1>4, IdleFits, Answered, RecordKeeps DEF network, intent, WizardInv

\* A configuration forgets the record of a stopped gateway.
LEMMA ReconfigureKeeps ==
    ASSUME Alone, WizardInv, NEW c \in Client, Reconfigure(c)
    PROVE  WizardInv'
<1>1. req[c].at = "save" /\ req[c].kind = "config" /\ Answer(c)
  BY DEF Reconfigure
<1>2. UNCHANGED <<mac, router, gw, autostart, desired, task>> /\ Fewer /\ card' \in BOOLEAN
  BY Spent, NothingSpent DEF Reconfigure, WizardInv, WizardTypeOK, Limit, network, intent
<1>3. ~gw
  BY <1>1 DEF WizardInv, WizardSafe, HandlerSound, Ready
<1>4. UNCHANGED <<rec, proven>> \/ Remembers(Idle)
  BY DEF Reconfigure
<1>5. QED
  BY <1>1, <1>2, <1>3, <1>4, IdleFits, Answered, RecordKeeps DEF network, intent, WizardInv

\* Every step of every handler.
LEMMA HandleKeeps ==
    ASSUME Alone, WizardInv, NEW c \in Client, Handle(c)
    PROVE  WizardInv'
BY ProbeKeeps, RestoreMacKeeps, AbandonKeeps, DiscoverKeeps, ApplyStaticKeeps, DecideKeeps, FailKeeps,
   SaveKeeps, SaveCardKeeps, DiscardKeeps, ReconfigureKeeps DEF Handle

-----------------------------------------------------------------------------
(* What operations do.                                                     *)

OperationRecord ==
    [kind : {"none", "start", "stop", "reload"}, at : {"none", "run", "save"},
     ok : BOOLEAN, back : BOOLEAN, auto : BOOLEAN, before : RecoveryState]

\* No operation.
LEMMA NoneRuns ==
    /\ NoTask \in OperationRecord /\ Consistent(NoTask.before)
    /\ NoTask.kind = "none" /\ NoTask.at = "none" /\ NoTask.auto = FALSE
    /\ NoTask.before = Idle
BY IdleRecord DEF NoTask, OperationRecord

\* While an operation works, no handler does.
LEMMA Operating ==
    ASSUME WizardInv, task.at # "none" \/ task.kind # "none"
    PROVE  task.kind \in GatewayOperation /\ task.at # "none" /\ \A c \in Client : req[c].at = "none" /\ req[c].kind \notin Kind
BY DEF WizardInv, WizardSafe, TurnsSound, WizardTypeOK, GatewayOperation

\* An operation is allowed by the record as it is.
LEMMA RequestKeeps ==
    ASSUME Alone, WizardInv, NEW c \in Client, NEW kind \in GatewayOperation, Order(c, kind)
    PROVE  WizardInv'
<1> USE DEF network, intent
<1> DEFINE new == [kind |-> kind, at |-> "run", ok |-> FALSE, back |-> FALSE, auto |-> FALSE, before |-> rec]
           q == [kind |-> "operation", at |-> "none", copy |-> req[c].copy]
<1>1. task.kind = "none" /\ req[c].kind = "none" /\ req[c].at = "none"
  BY DEF Order, WizardInv, WizardSafe, TurnsSound, Kind
<1>2. Fewer
  BY Spent, NothingSpent DEF Order, WizardInv, Limit, GatewayOperation
<1>3. task' = new
  BY DEF Order, NoTask
<1>4. new \in OperationRecord
  BY DEF WizardInv, WizardTypeOK, OperationRecord, GatewayOperation
<1>5. req' \in [Client -> Asked] /\ \A d \in Client : req'[d] = q
  <2>1. [req[c] EXCEPT !.kind = "operation"] = q
    BY <1>1 DEF WizardInv, WizardTypeOK
  <2>2. q \in Asked
    BY DEF Asked, WizardInv, WizardTypeOK
  <2> HIDE DEF q
  <2>3. QED
    BY <2>1, <2>2 DEF Order, Alone, WizardInv, WizardTypeOK, Asked
<1>6. desired' \in BOOLEAN /\ UNCHANGED <<rec, card, mac, router, gw, autostart, proven>>
  BY DEF Order, WizardInv, WizardTypeOK
<1>7. /\ kind = "start" => rec.stage = Confirmed /\ ~gw
      /\ kind = "reload" => gw /\ rec.stage \in Serving
      /\ kind = "stop" => gw \/ rec.stage \in Serving
  BY DEF Order, StartAllowed
<1>8. WizardTypeOK'
  BY <1>2, <1>3, <1>4, <1>5, <1>6 DEF WizardInv, WizardTypeOK, Asked, OperationRecord, Fewer
<1>9. CopiesSound' /\ TurnsSound' /\ HandlerSound'
  <2>1. "operation" \notin Kind /\ kind # "none"
    BY DEF Kind, GatewayOperation
  <2>2. Consistent(req[c].copy) /\ Consistent(rec)
    BY DEF WizardInv, WizardSafe, CopiesSound
  <2>3. QED
    BY <1>3, <1>5, <1>6, <2>1, <2>2 DEF CopiesSound, TurnsSound, HandlerSound
<1>10. ProvenSound' /\ CompleteSound'
  BY <1>6 DEF WizardInv, WizardSafe, ProvenSound, CompleteSound
<1>11. TaskSound'
  <2>1. rec.stage \in Taken => proven
    BY DEF WizardInv, WizardSafe, ProvenSound
  <2>2. QED
    BY <1>3, <1>6, <1>7, <2>1 DEF TaskSound, Taken, GatewayOperation
<1>12. AlertSound'
  <2> SUFFICES ASSUME Recorded' PROVE AlertSound'
    BY DEF AlertSound
  <2>1. Kept(rec) /\ (gw => rec.stage \in Taken)
    BY <1>1, <1>2, <1>6, RecordedBefore DEF WizardInv, WizardSafe, AlertSound
  <2>2. QED
    BY <1>3, <1>6, <1>7, <2>1 DEF AlertSound, Kept, HasSnapshot, Taken
<1>13. QED
  BY <1>2, <1>8, <1>9, <1>10, <1>11, <1>12, BoundsKept DEF WizardInv, WizardSafe

\* Whatever becomes of it, it brings the gateway up in a proven takeover only.
LEMMA RunKeeps ==
    ASSUME Alone, WizardInv, Run
    PROVE  WizardInv' /\ (~gw /\ gw' => proven)
<1> USE DEF network, intent
<1>1. /\ task.at = "run" /\ task.kind \in GatewayOperation
      /\ \A c \in Client : req[c].at = "none" /\ req[c].kind \notin Kind
  BY Operating DEF Run
<1>2. UNCHANGED <<rec, card, mac, router, autostart, desired, req, proven>>
  BY DEF Run
<1>3. Fewer
  BY Spent, NothingSpent DEF Run, WizardInv, Limit
<1>4. PICK up \in BOOLEAN, ok \in BOOLEAN, back \in BOOLEAN :
        /\ Ended(up, ok, back)
        /\ task.kind = "stop" /\ up => gw /\ ~ok
        /\ task.kind = "start" => (ok => up)
        /\ task.kind = "start" /\ ~ok /\ up => Afford("kept")
  <2>1. gw \in BOOLEAN
    BY DEF WizardInv, WizardTypeOK
  <2>2. CASE Ended(task.kind # "stop", TRUE, FALSE) /\ UNCHANGED budget
    BY <2>2
  <2>3. CASE task.kind = "start" /\ Afford("kept") /\ Ended(TRUE, FALSE, FALSE)
    BY <2>3
  <2>4. CASE task.kind = "start" /\ Ended(FALSE, FALSE, FALSE)
    BY <2>4
  <2>5. CASE task.kind \in {"stop", "reload"} /\ Ended(gw, FALSE, FALSE)
    BY <2>1, <2>5
  <2>6. CASE task.kind = "reload" /\ \E kept \in BOOLEAN : Ended(kept, FALSE, TRUE)
    BY <2>6
  <2>7. QED
    BY <2>2, <2>3, <2>4, <2>5, <2>6 DEF Run
<1> DEFINE new == [kind |-> task.kind, at |-> "save", ok |-> ok, back |-> back, auto |-> task.auto, before |-> task.before]
<1>5. task' = new /\ gw' = up
  BY <1>4 DEF Ended, WizardInv, WizardTypeOK
<1>6. new \in OperationRecord
  BY DEF WizardInv, WizardTypeOK, OperationRecord
<1>7. WizardTypeOK'
  BY <1>2, <1>3, <1>5, <1>6 DEF WizardInv, WizardTypeOK, Fewer, OperationRecord
<1>8. CopiesSound' /\ TurnsSound' /\ HandlerSound' /\ ProvenSound' /\ CompleteSound'
  BY <1>1, <1>2, <1>5 DEF WizardInv, WizardSafe, CopiesSound, TurnsSound, HandlerSound, ProvenSound, CompleteSound, GatewayOperation
<1>9. TaskSound'
  BY <1>1, <1>2, <1>3, <1>4, <1>5, CrashesLeft DEF WizardInv, WizardSafe, TaskSound, GatewayOperation
<1>10. AlertSound'
  <2> SUFFICES ASSUME Recorded' PROVE AlertSound'
    BY DEF AlertSound
  <2>1. Recorded
    BY <1>2, <1>3, RecordedBefore
  <2>2. task.kind \in {"stop", "reload"} => rec.stage \in Taken
    BY <1>1, <2>1 DEF WizardInv, WizardSafe, AlertSound, TaskSound, Taken
  <2>3. task.kind = "start" => (task.before = rec /\ rec.stage \in Taken) \/ (rec.stage = Waiting /\ task.auto)
    BY <1>1, <2>1 DEF WizardInv, WizardSafe, AlertSound, TaskSound, Taken, Confirmed, Waiting
  <2>4. task.kind = "start" /\ ~ok /\ up => ~autostart
    <3> SUFFICES ASSUME Afford("kept"), autostart PROVE FALSE
      BY <1>4
    <3>1. /\ budget'["kept"] + 1 = budget["kept"] /\ budget'["kept"] = Allowance["kept"] /\ budget["kept"] = Allowance["kept"]
          /\ budget'["kept"] \in Nat
      BY <1>2, <1>3, <2>1, Spent DEF Recorded, Limit, Fewer, WizardInv
    <3>2. QED
      BY <3>1
  <2>5. QED
    BY <1>1, <1>2, <1>4, <1>5, <2>1, <2>2, <2>3, <2>4 DEF WizardInv, WizardSafe, AlertSound, Kept, HasSnapshot, GatewayOperation
<1>11. ~gw => proven
  BY <1>1 DEF WizardInv, WizardSafe, TaskSound
<1>12. QED
  BY <1>3, <1>7, <1>8, <1>9, <1>10, <1>11, BoundsKept DEF WizardInv, WizardSafe

\* The record an operation leaves.
LEMMA AfterRecord ==
    ASSUME WizardInv, task.at = "save"
    PROVE  /\ AfterOperation(rec) \in RecoveryState /\ Consistent(AfterOperation(rec))
           /\ \/ AfterOperation(rec) = rec
              \/ /\ task.kind = "start" /\ AfterOperation(rec).stage \in {"gateway_active", Confirmed} /\ proven
                 /\ AfterOperation(rec).snapshot \in {rec.snapshot, task.before.snapshot}
                 /\ AfterOperation(rec).snapshot # rec.snapshot => task.before.stage = Confirmed
              \/ /\ task.kind = "stop" /\ task.ok /\ AfterOperation(rec).stage = Waiting
                 /\ AfterOperation(rec).snapshot = rec.snapshot
              \/ /\ task.kind = "reload" /\ AfterOperation(rec).stage = Confirmed /\ proven
                 /\ AfterOperation(rec).snapshot = task.before.snapshot /\ task.before.stage \in Serving
           /\ task.kind = "start" /\ AfterOperation(rec) = rec => (~task.ok /\ gw) \/ rec.stage \in Taken
           /\ task.kind = "stop" /\ AfterOperation(rec) = rec => ~task.ok \/ rec.stage = Waiting
<1> DEFINE a == AfterOperation(rec)
<1>1. /\ rec \in RecoveryState /\ Consistent(rec) /\ task.before \in RecoveryState /\ Consistent(task.before)
      /\ task.ok \in BOOLEAN /\ task.back \in BOOLEAN /\ gw \in BOOLEAN
  BY DEF WizardInv, WizardTypeOK, WizardSafe, CopiesSound
<1>2. task.kind \in GatewayOperation
  BY Operating
<1>3. task.kind = "start" => proven /\ task.before.stage = Confirmed
  BY DEF WizardInv, WizardSafe, TaskSound
<1>4. task.kind = "reload" => proven /\ task.before.stage \in Serving
  BY DEF WizardInv, WizardSafe, TaskSound
<1>5. "gateway_active" \in Stage /\ Confirmed \in Stage /\ Waiting \in Stage /\ {Confirmed, "gateway_active"} \subseteq Taken
  BY DEF Stage, Serving, Confirmed, Waiting, Taken
<1>6. CASE task.kind = "start" /\ task.ok
  <2>1. a = Moved(rec, "gateway_active")
    BY <1>6 DEF AfterOperation
  <2>2. QED
    BY <1>1, <1>3, <1>5, <1>6, <2>1, MovedRecord, SMTT(60)
<1>7. CASE task.kind = "stop" /\ task.ok
  <2>1. a = Moved(rec, Waiting)
    BY <1>7 DEF AfterOperation
  <2>2. QED
    BY <1>1, <1>5, <1>7, <2>1, MovedRecord, SMTT(60)
<1>8. CASE task.kind = "start" /\ ~task.ok /\ ~gw
  <2>1. a = Moved(task.before, Confirmed)
    BY <1>3, <1>8 DEF AfterOperation
  <2>2. QED
    BY <1>1, <1>3, <1>5, <1>8, <2>1, MovedRecord, SMTT(60)
<1>9. CASE task.kind = "start" /\ ~task.ok /\ gw
  <2>1. a = rec
    BY <1>9 DEF AfterOperation
  <2>2. QED
    BY <1>1, <1>9, <2>1
<1>10. CASE task.kind = "stop" /\ ~task.ok
  <2>1. a = rec
    BY <1>10 DEF AfterOperation
  <2>2. QED
    BY <1>1, <1>10, <2>1
<1>11. CASE task.kind = "reload" /\ ~task.ok /\ task.back
  <2>1. a = Moved(task.before, Confirmed)
    BY <1>11 DEF AfterOperation
  <2>2. QED
    BY <1>1, <1>4, <1>5, <1>11, <2>1, MovedRecord, SMTT(60)
<1>12. CASE task.kind = "reload" /\ (task.ok \/ ~task.back)
  <2>1. a = rec
    BY <1>1, <1>12 DEF AfterOperation
  <2>2. QED
    BY <1>1, <1>12, <2>1
<1>13. QED
  BY <1>1, <1>2, <1>6, <1>7, <1>8, <1>9, <1>10, <1>11, <1>12 DEF GatewayOperation

\* Its end catches up with the gateway.
LEMMA EndKeeps ==
    ASSUME Alone, WizardInv, EndOperation
    PROVE  WizardInv'
<1> USE DEF network, intent
<1>1. /\ task.at = "save" /\ task.kind \in GatewayOperation
      /\ \A c \in Client : req[c].at = "none" /\ req[c].kind \notin Kind
  BY Operating DEF EndOperation
<1>2. UNCHANGED <<card, mac, router, gw, autostart, desired>>
  BY DEF EndOperation
<1>3. Fewer
  BY Spent, NothingSpent DEF EndOperation, WizardInv, Limit
<1> DEFINE a == AfterOperation(rec)
<1>4. \/ rec' = a /\ proven' = (proven /\ a.stage \notin Final \cup {"prepared", "router_dhcp_restored"})
      \/ rec' = rec /\ proven' = proven /\ Afford("lost")
  BY DEF EndOperation, Remembers
<1>5. /\ rec' \in RecoveryState /\ Consistent(rec') /\ proven' \in BOOLEAN
      /\ rec \in RecoveryState /\ task.before \in RecoveryState /\ Consistent(task.before) /\ task.auto \in BOOLEAN
  BY <1>1, <1>4, AfterRecord DEF WizardInv, WizardTypeOK, WizardSafe, CopiesSound
<1> DEFINE goes == task.auto /\ task.kind = "stop" /\ task.ok /\ StartAllowed(task.before)
           new == [kind |-> "start", at |-> "run", ok |-> task.ok, back |-> task.back, auto |-> task.auto, before |-> task.before]
<1>6. /\ req' \in [Client -> Asked]
      /\ \A c \in Client : req'[c].at = "none" /\ req'[c].kind \notin Kind /\ Consistent(req'[c].copy)
  <2>1. NoRequest \in Asked /\ NoRequest.at = "none" /\ NoRequest.kind \notin Kind /\ Consistent(NoRequest.copy)
    BY IdleRecord DEF NoRequest, Asked, Kind
  <2>2. req \in [Client -> Asked] /\ \A c \in Client : Consistent(req[c].copy)
    BY DEF WizardInv, WizardTypeOK, Asked, WizardSafe, CopiesSound
  <2>3. UNCHANGED req \/ Released
    BY DEF EndOperation
  <2>4. QED
    BY <1>1, <2>1, <2>2, <2>3 DEF Released
<1>7. task' = IF goes THEN new ELSE NoTask
  BY DEF EndOperation, WizardInv, WizardTypeOK
<1>8. task' \in OperationRecord /\ Consistent(task'.before) /\ (task'.kind = "none" <=> task'.at = "none")
  BY <1>5, <1>7, NoneRuns DEF WizardInv, WizardTypeOK, OperationRecord
<1>9. WizardTypeOK'
  BY <1>2, <1>3, <1>5, <1>6, <1>8 DEF WizardInv, WizardTypeOK, Asked, Fewer, OperationRecord, Consistent
<1>10. CopiesSound' /\ TurnsSound' /\ HandlerSound'
  BY <1>5, <1>6, <1>8 DEF CopiesSound, TurnsSound, HandlerSound
<1>11. ProvenSound'
  <2>1. rec.stage \in Taken => proven
    BY DEF WizardInv, WizardSafe, ProvenSound
  <2>2. a.stage \in Taken => proven
    BY <1>1, <2>1, AfterRecord DEF Taken, Serving, Waiting, Confirmed
  <2>3. Taken \cap (Final \cup {"prepared", "router_dhcp_restored"}) = {}
    BY DEF Taken, Serving, Confirmed, Final
  <2> HIDE DEF a
  <2>4. CASE rec' = rec /\ proven' = proven
    BY <2>1, <2>4, Zenon DEF ProvenSound
  <2>5. CASE rec' = a /\ proven' = (proven /\ a.stage \notin Final \cup {"prepared", "router_dhcp_restored"})
    <3>1. a.stage \in Taken => a.stage \notin Final \cup {"prepared", "router_dhcp_restored"}
      BY <2>3
    <3>2. QED
      BY <2>2, <2>5, <3>1, Zenon DEF ProvenSound
  <2>6. QED
    BY <1>4, <2>4, <2>5
<1>12. CompleteSound'
  <2>1. a.stage = "complete" => a = rec
    BY <1>1, AfterRecord DEF Waiting, Confirmed
  <2>2. QED
    BY <1>2, <1>4, <2>1 DEF WizardInv, WizardSafe, CompleteSound
<1>13. goes => proven /\ proven' /\ task.before.stage = Confirmed /\ autostart /\ ~gw
  <2> SUFFICES ASSUME goes PROVE proven /\ proven' /\ task.before.stage = Confirmed /\ autostart /\ ~gw
    OBVIOUS
  <2>1. task.before.stage = Confirmed /\ proven /\ autostart /\ ~gw /\ rec = task.before
    BY <1>1 DEF WizardInv, WizardSafe, TaskSound, StartAllowed, Taken
  <2>2. rec.stage = Confirmed /\ a.stage \in {Waiting, Confirmed}
    BY <1>1, <2>1, AfterRecord
  <2>3. QED
    BY <1>4, <2>1, <2>2 DEF Waiting, Confirmed, Final
<1>14. TaskSound'
  <2>1. CASE goes
    <3>1. budget'.crash < Allowance.crash
      BY <1>3, <2>1, CrashesLeft DEF WizardInv, WizardSafe, TaskSound
    <3>2. QED
      BY <1>2, <1>7, <1>13, <2>1, <3>1 DEF TaskSound
  <2>2. CASE ~goes
    BY <1>7, <2>2, NoneRuns DEF TaskSound
  <2>3. QED
    BY <2>1, <2>2
<1>15. AlertSound'
  <2> SUFFICES ASSUME Recorded' PROVE AlertSound'
    BY DEF AlertSound
  <2>1. Recorded
    BY <1>2, <1>3, RecordedBefore
  <2>2. Kept(rec) /\ Kept(task.before)
    BY <2>1 DEF WizardInv, WizardSafe, AlertSound
  <2>3. Afford("lost") => ~autostart
    <3> SUFFICES ASSUME Afford("lost"), autostart PROVE FALSE
      OBVIOUS
    <3>1. /\ budget'["lost"] + 1 = budget["lost"] /\ budget'["lost"] = Allowance["lost"] /\ budget["lost"] = Allowance["lost"]
          /\ budget'["lost"] \in Nat
      BY <1>2, <1>3, <2>1, Spent DEF Recorded, Limit, Fewer, WizardInv
    <3>2. QED
      BY <3>1
  <2>4. task.auto => autostart
    BY DEF WizardInv, WizardSafe, TaskSound
  <2>5. Kept(a)
    <3>1. task.kind = "start" => HasSnapshot(rec) /\ HasSnapshot(task.before)
      BY <2>1, <2>2 DEF WizardInv, WizardSafe, AlertSound, TaskSound, Kept, Waiting, Confirmed, Final
    <3>2. task.kind = "stop" => HasSnapshot(rec)
      BY <2>1, <2>2 DEF WizardInv, WizardSafe, AlertSound, Kept, Taken, Serving, Confirmed, Final
    <3>3. task.kind = "reload" => HasSnapshot(task.before)
      BY <2>2 DEF WizardInv, WizardSafe, TaskSound, Kept, Serving, Final
    <3>4. QED
      BY <1>1, <2>2, <3>1, <3>2, <3>3, AfterRecord DEF Kept, HasSnapshot
  <2>6. gw => rec'.stage \in Taken
    <3> SUFFICES ASSUME gw PROVE rec'.stage \in Taken
      OBVIOUS
    <3>1. rec.stage \in Taken \/ (rec.stage = Waiting /\ task.auto /\ task.kind = "start")
      BY <2>1 DEF WizardInv, WizardSafe, AlertSound
    <3>2. CASE rec' = rec /\ Afford("lost")
      BY <2>3, <2>4, <3>1, <3>2
    <3>3. CASE rec' = a
      <4>1. task.kind = "start" /\ ~task.ok => ~task.auto
        BY <1>1, <2>1, <2>4 DEF WizardInv, WizardSafe, AlertSound
      <4>2. task.kind = "stop" => ~task.ok
        BY <1>1 DEF WizardInv, WizardSafe, TaskSound
      <4>3. {"gateway_active", Confirmed} \subseteq Taken
        BY DEF Taken, Serving
      <4>4. QED
        BY <1>1, <3>1, <3>3, <4>1, <4>2, <4>3, AfterRecord
    <3>4. QED
      BY <1>4, <3>2, <3>3
  <2>7. goes => rec'.stage = Waiting
    <3> SUFFICES ASSUME goes PROVE rec' = a /\ a.stage = Waiting
      OBVIOUS
    <3>1. rec' = a
      BY <1>4, <1>13, <2>3
    <3>2. a.stage = Waiting
      BY <1>1, AfterRecord
    <3>3. QED
      BY <3>1, <3>2
  <2>8. Kept(rec') /\ Kept(Idle)
    BY <1>4, <2>2, <2>5, IdleRecord DEF Kept, Final
  <2>9. QED
    BY <1>2, <1>7, <2>2, <2>6, <2>7, <2>8, NoneRuns DEF AlertSound, Kept, HasSnapshot
<1>16. QED
  BY <1>3, <1>9, <1>10, <1>11, <1>12, <1>14, <1>15, BoundsKept DEF WizardInv, WizardSafe

\* A restart may find the gateway up that was coming up.
LEMMA RestartKeeps ==
    ASSUME Alone, WizardInv, ServiceRestart
    PROVE  WizardInv' /\ (~gw /\ gw' => proven)
<1> USE DEF network, intent
<1>1. UNCHANGED <<rec, card, mac, router, autostart, desired, proven>> /\ gw' \in BOOLEAN
      /\ (task.at = "run" \/ gw' = gw)
  BY DEF ServiceRestart, WizardInv, WizardTypeOK
<1>2. Fewer /\ budget'["crash"] + 1 = budget["crash"]
  BY Spent DEF ServiceRestart, WizardInv, Limit
<1>3. /\ req' \in [Client -> Asked]
      /\ \A c \in Client : req'[c].at = "none" /\ req'[c].kind \notin Kind /\ Consistent(req'[c].copy)
  BY IdleRecord DEF ServiceRestart, NoRequest, Asked, Kind
<1> DEFINE new == [kind |-> IF gw' THEN "stop" ELSE "start", at |-> "run", ok |-> FALSE, back |-> FALSE,
                   auto |-> TRUE, before |-> rec]
<1>4. task' = NoTask \/ (task' = new /\ autostart /\ (gw' \/ rec.stage = Confirmed))
  BY DEF ServiceRestart, Autostart, NoTask, StartAllowed
<1>5. rec \in RecoveryState /\ Consistent(rec)
  BY DEF WizardInv, WizardTypeOK, WizardSafe, CopiesSound
<1>6. task' \in OperationRecord /\ Consistent(task'.before) /\ (task'.kind = "none" <=> task'.at = "none")
  <2>1. CASE task' = NoTask
    BY <2>1, NoneRuns
  <2>2. CASE task' = new
    <3>1. new \in OperationRecord
      BY <1>5 DEF OperationRecord
    <3>2. new.before = rec /\ new.kind # "none" /\ new.at # "none"
      OBVIOUS
    <3> HIDE DEF new
    <3>3. QED
      BY <1>5, <2>2, <3>1, <3>2
  <2>3. QED
    BY <1>4, <2>1, <2>2
<1>7. WizardTypeOK'
  BY <1>1, <1>2, <1>3, <1>6 DEF WizardInv, WizardTypeOK, Asked, Fewer, OperationRecord
<1>8. CopiesSound' /\ TurnsSound' /\ HandlerSound' /\ ProvenSound' /\ CompleteSound'
  BY <1>1, <1>3, <1>5, <1>6 DEF CopiesSound, TurnsSound, HandlerSound, ProvenSound, CompleteSound, WizardInv, WizardSafe
<1>9. budget.crash \in Nat /\ budget'.crash \in Nat /\ Allowance.crash \in Nat /\ budget.crash <= Allowance.crash /\ budget'.crash + 1 = budget.crash
  BY <1>2, WizardAssumption DEF WizardInv, WizardTypeOK, Fewer, Limit, WizardSafe, BoundsSound
<1>10. budget'.crash < Allowance.crash
  BY <1>9
<1>11. rec.stage \in Taken => proven
  BY DEF WizardInv, WizardSafe, ProvenSound
<1>12. TaskSound'
  <2>1. CASE task' = NoTask
    BY <2>1, NoneRuns DEF TaskSound
  <2>2. CASE task' = new /\ autostart /\ (gw' \/ rec.stage = Confirmed)
    BY <1>1, <1>10, <1>11, <2>2 DEF TaskSound, Taken
  <2>3. QED
    BY <1>4, <2>1, <2>2
<1>13. AlertSound'
  <2> SUFFICES ASSUME Recorded' PROVE AlertSound'
    BY DEF AlertSound
  <2>1. Recorded
    BY <1>1, <1>2, RecordedBefore
  <2>2. ~task.auto
    <3> SUFFICES ASSUME task.auto PROVE FALSE
      OBVIOUS
    <3>1. autostart /\ budget.crash < Allowance.crash
      BY DEF WizardInv, WizardSafe, TaskSound
    <3>2. budget'.crash + 1 >= Allowance.crash
      BY <1>1, <3>1 DEF Recorded
    <3>3. QED
      BY <1>9, <3>1, <3>2
  <2>3. Kept(rec)
    BY <2>1 DEF WizardInv, WizardSafe, AlertSound
  <2>4. gw' => rec.stage \in Taken
    <3>1. gw => rec.stage \in Taken
      BY <2>1, <2>2 DEF WizardInv, WizardSafe, AlertSound
    <3>2. task.at = "run" => rec.stage \in Taken
      BY <2>1, <2>2, Operating DEF WizardInv, WizardSafe, AlertSound, TaskSound, GatewayOperation, Taken
    <3>3. QED
      BY <1>1, <3>1, <3>2
  <2>5. Kept(Idle)
    BY IdleRecord DEF Kept, Final
  <2>6. CASE task' = NoTask
    BY <1>1, <2>3, <2>4, <2>5, <2>6, NoneRuns DEF AlertSound, Kept, HasSnapshot
  <2>7. CASE task' = new
    BY <1>1, <2>3, <2>4, <2>7 DEF AlertSound, Kept, HasSnapshot
  <2>8. QED
    BY <1>4, <2>6, <2>7
<1>14. task.at = "run" /\ ~gw => proven
  BY DEF WizardInv, WizardSafe, TaskSound
<1>15. QED
  BY <1>1, <1>2, <1>7, <1>8, <1>12, <1>13, <1>14, BoundsKept DEF WizardInv, WizardSafe

\* The router is not in the invariant.
LEMMA SwitchKeeps ==
    ASSUME Alone, WizardInv, SwitchRouter
    PROVE  WizardInv'
<1>1. UNCHANGED <<rec, card, mac, gw, autostart, desired, req, task, proven, budget>> /\ router' \in BOOLEAN
  BY DEF SwitchRouter, intent
<1>2. WizardTypeOK'
  BY <1>1 DEF WizardInv, WizardTypeOK
<1>3. WizardSafe'
  BY <1>1, ZenonT(60) DEF WizardInv, WizardSafe, CopiesSound, BoundsSound, TurnsSound, HandlerSound, Accepted, Accepts, AbandonAllowed,
              TaskSound, ProvenSound, CompleteSound, AlertSound, Recorded
<1>4. QED
  BY <1>2, <1>3 DEF WizardInv

\* The start.
LEMMA WizardInitInv == WizardInit => WizardInv
<1> SUFFICES ASSUME WizardInit PROVE WizardInv
  OBVIOUS
<1>1. /\ rec = Idle /\ task = NoTask /\ budget = Allowance /\ ~gw /\ gw \in BOOLEAN /\ mac = "dhcp"
      /\ \A c \in Client : req[c] = NoRequest
  BY DEF WizardInit
<1>2. NoRequest \in Asked /\ NoRequest.kind = "none" /\ NoRequest.at = "none" /\ NoRequest.copy = Idle /\ "none" \notin Kind
  BY IdleRecord DEF NoRequest, Asked, Kind
<1>3. WizardTypeOK
  BY <1>1, <1>2, IdleRecord, NoneRuns, WizardAssumption DEF WizardInit, WizardTypeOK, Asked, OperationRecord, Mode, Consistent
<1>4. CopiesSound /\ TurnsSound /\ HandlerSound
  BY <1>1, <1>2, IdleRecord, NoneRuns DEF CopiesSound, TurnsSound, HandlerSound
<1>5. BoundsSound
  BY <1>1, WizardAssumption DEF BoundsSound
<1>6. TaskSound
  BY <1>1, NoneRuns DEF TaskSound
<1>7. ProvenSound /\ CompleteSound /\ AlertSound
  BY <1>1, IdleRecord, NoneRuns DEF ProvenSound, CompleteSound, AlertSound, Taken, Serving, Confirmed, Kept, Final
<1>8. QED
  BY <1>3, <1>4, <1>5, <1>6, <1>7 DEF WizardInv, WizardSafe

\* Every step.
LEMMA WizardNextInv ==
    ASSUME Alone, WizardInv, [WizardNext]_wizardVars
    PROVE  WizardInv' /\ (~gw /\ gw' => proven)
<1>1. CASE UNCHANGED wizardVars
  <2>1. UNCHANGED <<rec, card, mac, router, gw, autostart, desired, req, task, proven, budget>>
    BY <1>1 DEF wizardVars
  <2>2. WizardTypeOK'
    BY <2>1 DEF WizardInv, WizardTypeOK
  <2>3. WizardSafe'
    BY <2>1, ZenonT(60) DEF WizardInv, WizardSafe, CopiesSound, BoundsSound, TurnsSound, HandlerSound, Accepted, Accepts, AbandonAllowed,
                TaskSound, ProvenSound, CompleteSound, AlertSound, Recorded
  <2>4. QED
    BY <2>1, <2>2, <2>3 DEF WizardInv
<1>2. CASE \E c \in Client, kind \in Kind : Ask(c, kind)
  <2>1. UNCHANGED gw
    BY <1>2 DEF Ask, network
  <2>2. QED
    BY <1>2, <2>1, AskKeeps
<1>3. CASE \E c \in Client : Handle(c)
  <2>1. UNCHANGED gw
    BY <1>3 DEF Handle, ProbeRouter, RestoreMac, AbandonTakeover, Discover, ApplyStatic, Decide, Fail,
                Save, SaveCard, Discard, Reconfigure, network
  <2>2. QED
    BY <1>3, <2>1, HandleKeeps
<1>4. CASE \E c \in Client, kind \in {"start", "stop", "reload"} : Order(c, kind)
  <2>1. UNCHANGED gw
    BY <1>4 DEF Order, network
  <2>2. QED
    BY <1>4, <2>1, RequestKeeps DEF GatewayOperation
<1>5. CASE Run
  BY <1>5, RunKeeps
<1>6. CASE EndOperation
  BY <1>6, EndKeeps DEF EndOperation, network
<1>7. CASE ServiceRestart
  BY <1>7, RestartKeeps
<1>8. CASE SwitchRouter
  BY <1>8, SwitchKeeps DEF SwitchRouter
<1>9. QED
  BY <1>1, <1>2, <1>3, <1>4, <1>5, <1>6, <1>7, <1>8 DEF WizardNext

\* With one web UI that waits, every state is consistent.
THEOREM WizardInvariant == Alone => (WizardSpec => []WizardInv)
<1> SUFFICES ASSUME Alone PROVE WizardSpec => []WizardInv
  OBVIOUS
<1>1. WizardInit => WizardInv
  BY WizardInitInv
<1>2. WizardInv /\ [WizardNext]_wizardVars => WizardInv'
  BY WizardNextInv
<1>3. QED
  BY <1>1, <1>2, PTL DEF WizardSpec

\* With one web UI that waits, however many failures and restarts there are: while
\* the gateway serves the LAN the alarm is up and the way back is kept, unless what
\* Recorded names has happened under autostart; and the flow is complete only with
\* the Mac back on DHCP (server.go, autostart.go).
THEOREM TakeoverIsAnnounced == Alone => (WizardSpec => []TakeoverAlerts)
<1> SUFFICES ASSUME Alone PROVE WizardSpec => []TakeoverAlerts
  OBVIOUS
<1>1. WizardInv => TakeoverAlerts
  <2> SUFFICES ASSUME WizardInv PROVE TakeoverAlerts
    OBVIOUS
  <2>1. gw /\ Recorded => rec.required /\ HasSnapshot(rec)
    BY DEF WizardInv, WizardSafe, CopiesSound, Consistent, AlertSound, Kept, Taken, Serving, Confirmed, Waiting, Final
  <2>2. QED
    BY <2>1 DEF WizardInv, WizardSafe, CompleteSound, TakeoverAlerts
<1>2. QED
  BY <1>1, WizardInvariant, PTL

\* With one web UI that waits, whatever fails and however often the service restarts,
\* the gateway's DHCP server comes up only in a takeover that found the router's
\* silent (handleDHCPProbe, handleGatewayAction, autostart.go).
THEOREM OneDHCPServer == Alone => (WizardSpec => SoleDHCPServer)
<1> SUFFICES ASSUME Alone PROVE WizardSpec => SoleDHCPServer
  OBVIOUS
<1>1. WizardInv /\ [WizardNext]_wizardVars => [~gw /\ gw' => proven]_wizardVars
  BY WizardNextInv
<1>2. QED
  BY <1>1, WizardInvariant, PTL DEF WizardSpec, SoleDHCPServer
=============================================================================
