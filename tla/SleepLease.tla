------------------------------ MODULE SleepLease ------------------------------
(***************************************************************************)
(* "Keep running with the lid closed": the control service holds a         *)
(* connection to the root helper as its lease (sleep_prevention.go), the   *)
(* helper counts holders and switches the system-wide SleepDisabled        *)
(* setting (sleep_prevention_helper.go). The setting outlives processes    *)
(* and reboots, so a marker file records that OpenSurge switched it on.    *)
(*                                                                         *)
(* The helper's mutex is the variable job: what holds it, and the step it  *)
(* has come to. Either process may end between two steps.                  *)
(***************************************************************************)
EXTENDS Naturals, FiniteSets

CONSTANTS
    Conn,   \* connections: one is free again when both ends have left it
    None,   \* no connection
    Quota   \* how often each disturbance may happen

Bound == {"enable", "fault", "applied", "service", "helper", "other"}

ASSUME SleepAssumption ==
    IsFiniteSet(Conn) /\ None \notin Conn /\ Quota \in [Bound -> Nat]

VARIABLES
    ctl,      \* sleepPreventionController
    near,     \* the service's end of each connection
    far,      \* the helper's end of each connection
    up,       \* the helper: ended, reconciling, or accepting connections
    holders,  \* systemSleepLeaseManager.holders
    retry,    \* a goroutine is retrying a release
    job,      \* what holds systemSleepLeaseManager.mu, and where it is
    marker,   \* sleep-prevention-owned exists
    sleep,    \* the system's SleepDisabled, and who wrote it last
    left      \* disturbances that may still happen

service == <<ctl, near>>
helper == <<up, holders, retry, job>>
system == <<marker, sleep>>
vars == <<ctl, near, far, up, holders, retry, job, marker, sleep, left>>

Setting == [disabled : BOOLEAN, by : {"nobody", "opensurge", "other"}]
Off == [requested |-> FALSE, changing |-> "no", lease |-> None, conn |-> None]
Unlocked == [who |-> "nobody", conn |-> None, at |-> "none"]
Written(value) == [disabled |-> value, by |-> "opensurge"]

Init ==
    /\ ctl = Off /\ near = [c \in Conn |-> "none"] /\ far = [c \in Conn |-> "none"]
    /\ up = "reconcile" /\ holders = 0 /\ retry = FALSE
    /\ job = [who |-> "reconcile", conn |-> None, at |-> "stat"]
    /\ marker = FALSE /\ sleep = [disabled |-> FALSE, by |-> "nobody"]
    /\ left = Quota

Spend(kind) == left[kind] > 0 /\ left' = [left EXCEPT ![kind] = @ - 1]

-----------------------------------------------------------------------------
(* The control service. SetEnabled lets go of its mutex while it waits.    *)

Enable ==
    /\ ctl.changing = "no" /\ ctl.lease = None /\ Spend("enable")
    /\ ctl' = [ctl EXCEPT !.changing = "dial", !.requested = TRUE]
    /\ UNCHANGED <<near, far, helper, system>>

Failed == [ctl EXCEPT !.changing = "no", !.requested = FALSE, !.conn = None]

Dial ==
    /\ ctl.changing = "dial"
    /\ IF up = "accept"
       THEN \E c \in Conn :
              /\ near[c] = "none" /\ far[c] = "none"
              /\ near' = [near EXCEPT ![c] = "open"]
              /\ far' = [far EXCEPT ![c] = "acquire"]
              /\ ctl' = [ctl EXCEPT !.changing = "wait", !.conn = c]
       ELSE ctl' = Failed /\ UNCHANGED <<near, far>>
    /\ UNCHANGED <<helper, system, left>>

\* The helper's answer, or the end of the connection without one.
Answer ==
    /\ ctl.changing = "wait"
    /\ LET c == ctl.conn IN
       \/ /\ far[c] = "held" /\ UNCHANGED near
          /\ ctl' = [ctl EXCEPT !.changing = "no", !.lease = c, !.conn = None]
       \/ /\ far[c] \in {"refused", "none"}
          /\ near' = [near EXCEPT ![c] = "none"] /\ ctl' = Failed
    /\ UNCHANGED <<far, helper, system, left>>

\* Ten seconds are over. The helper may still be at work for this connection.
Timeout ==
    /\ ctl.changing = "wait" /\ far[ctl.conn] # "none" /\ Spend("fault")
    /\ near' = [near EXCEPT ![ctl.conn] = "none"] /\ ctl' = Failed
    /\ UNCHANGED <<far, helper, system>>

Disable ==
    /\ ctl.changing = "no" /\ ctl.lease # None
    /\ ctl' = [requested |-> FALSE, changing |-> "close", lease |-> None,
               conn |-> ctl.lease]
    /\ UNCHANGED <<near, far, helper, system, left>>

CloseLease ==
    /\ ctl.changing = "close"
    /\ near' = [near EXCEPT ![ctl.conn] = "none"]
    /\ ctl' = [ctl EXCEPT !.changing = "no", !.conn = None]
    /\ UNCHANGED <<far, helper, system, left>>

\* The watcher reads the end of the connection.
Observe(c) ==
    /\ near[c] = "open" /\ far[c] = "none" /\ ctl.conn # c
    /\ near' = [near EXCEPT ![c] = "none"]
    /\ ctl' = IF ctl.lease = c THEN [ctl EXCEPT !.lease = None, !.requested = FALSE]
              ELSE ctl
    /\ UNCHANGED <<far, helper, system, left>>

\* Shutdown (Close, and the process ends) or a crash; it comes up again at once.
ServiceEnds ==
    /\ Spend("service")
    /\ ctl' = Off /\ near' = [c \in Conn |-> "none"]
    /\ UNCHANGED <<far, helper, system>>

-----------------------------------------------------------------------------
(* The helper: who takes the mutex.                                        *)

Lock(who, c, at) == job' = [who |-> who, conn |-> c, at |-> at]

AcquireBegin(c) ==
    /\ up = "accept" /\ job = Unlocked /\ far[c] = "acquire"
    /\ IF holders > 0
       THEN /\ holders' = holders + 1 /\ far' = [far EXCEPT ![c] = "held"]
            /\ UNCHANGED job
       ELSE Lock("acquire", c, "stat") /\ UNCHANGED <<holders, far>>
    /\ UNCHANGED <<service, up, retry, system, left>>

\* A refused connection is closed at once, one whose client is gone is released.
Hangup(c) ==
    /\ far[c] = "refused" /\ near[c] = "none" /\ far' = [far EXCEPT ![c] = "none"]
    /\ UNCHANGED <<service, helper, system, left>>

Release(c) ==
    /\ up = "accept" /\ job = Unlocked /\ far[c] = "held" /\ near[c] = "none"
    /\ holders' = holders - 1 /\ far' = [far EXCEPT ![c] = "none"]
    /\ IF holders = 1 THEN Lock("release", None, "stat") ELSE UNCHANGED job
    /\ UNCHANGED <<service, up, retry, system, left>>

\* Mutant: a retry does not look whether somebody holds the setting again.
RetryBlind ==
    /\ up # "ended" /\ retry /\ job = Unlocked
    /\ Lock("retry", None, "stat") /\ UNCHANGED retry
    /\ UNCHANGED <<service, far, up, holders, system, left>>

Retry ==
    /\ up # "ended" /\ retry /\ job = Unlocked
    /\ IF holders > 0 THEN retry' = FALSE /\ UNCHANGED job
       ELSE Lock("retry", None, "stat") /\ UNCHANGED retry
    /\ UNCHANGED <<service, far, up, holders, system, left>>

(* What happens under the mutex: first releaseOwnedLocked ...              *)

Goto(at) == job' = [job EXCEPT !.at = at]

\* A release that fails is retried; so is a failing reconciliation.
EndRelease(ok) ==
    /\ IF ok /\ job.who = "acquire" THEN Goto("inspect") ELSE job' = Unlocked
    /\ far' = IF ~ok /\ job.who = "acquire"
              THEN [far EXCEPT ![job.conn] = "refused"] ELSE far
    /\ retry' = CASE job.who = "acquire" -> retry
                  [] job.who = "retry" -> ~ok
                  [] OTHER -> retry \/ ~ok
    /\ up' = IF job.who = "reconcile" THEN "accept" ELSE up

Stat ==
    /\ job.at = "stat"
    /\ IF marker THEN Goto("clear") /\ UNCHANGED <<far, retry, up>>
       ELSE EndRelease(TRUE)
    /\ UNCHANGED <<service, holders, system, left>>

\* pmset may fail, and may have done its work when it is reported to fail.
Clear ==
    /\ job.at = "clear"
    /\ \/ /\ Goto("remove") /\ sleep' = Written(FALSE)
          /\ UNCHANGED <<far, retry, up, left>>
       \/ Spend("fault") /\ EndRelease(FALSE) /\ UNCHANGED sleep
       \/ Spend("applied") /\ EndRelease(FALSE) /\ sleep' = Written(FALSE)
    /\ UNCHANGED <<service, holders, marker>>

Remove ==
    /\ job.at = "remove"
    /\ \/ marker' = FALSE /\ EndRelease(TRUE) /\ UNCHANGED left
       \/ Spend("fault") /\ EndRelease(FALSE) /\ UNCHANGED marker
    /\ UNCHANGED <<service, holders, sleep>>

(* ... then the rest of Acquire.                                           *)

Refuse ==
    /\ far' = [far EXCEPT ![job.conn] = "refused"] /\ job' = Unlocked

Inspect ==
    /\ job.at = "inspect"
    /\ \/ sleep.disabled /\ Refuse /\ UNCHANGED left
       \/ Spend("fault") /\ Refuse
       \/ ~sleep.disabled /\ Goto("mark") /\ UNCHANGED <<far, left>>
    /\ UNCHANGED <<service, up, holders, retry, system>>

\* Mutant: the marker is left for after the setting.
MarkLate ==
    /\ job.at = "mark" /\ Goto("set")
    /\ UNCHANGED <<service, far, up, holders, retry, system, left>>

Mark ==
    /\ job.at = "mark"
    /\ \/ marker' = TRUE /\ Goto("set") /\ UNCHANGED <<far, left>>
       \/ Spend("fault") /\ Refuse /\ UNCHANGED marker
    /\ UNCHANGED <<service, up, holders, retry, sleep>>

Set ==
    /\ job.at = "set"
    /\ \/ /\ sleep' = Written(TRUE) /\ holders' = 1 /\ job' = Unlocked
          /\ far' = [far EXCEPT ![job.conn] = "held"] /\ UNCHANGED <<marker, left>>
       \/ /\ Spend("fault") /\ Refuse /\ marker' = FALSE
          /\ UNCHANGED <<sleep, holders>>
       \/ /\ Spend("applied") /\ Refuse /\ marker' = FALSE
          /\ sleep' = Written(TRUE) /\ UNCHANGED holders
    /\ UNCHANGED <<service, up, retry>>

-----------------------------------------------------------------------------
\* A crash, a stop (nobody waits for the handlers) or a reboot of the Mac.
HelperEnds ==
    /\ up # "ended" /\ Spend("helper")
    /\ up' = "ended" /\ holders' = 0 /\ retry' = FALSE /\ job' = Unlocked
    /\ far' = [c \in Conn |-> "none"]
    /\ UNCHANGED <<service, system>>

\* Mutant: a helper that comes up trusts what it finds.
HelperStartsBlind ==
    /\ up = "ended" /\ up' = "accept"
    /\ UNCHANGED <<service, far, holders, retry, job, system, left>>

\* launchd starts it again. Connections are accepted after the reconciliation.
HelperStarts ==
    /\ up = "ended" /\ up' = "reconcile" /\ Lock("reconcile", None, "stat")
    /\ UNCHANGED <<service, far, holders, retry, system, left>>

\* Another tool, or the user, runs pmset.
OtherTool ==
    /\ Spend("other") /\ sleep' = [disabled |-> ~sleep.disabled, by |-> "other"]
    /\ UNCHANGED <<service, far, helper, marker>>

Locked == Stat \/ Clear \/ Remove \/ Inspect \/ Mark \/ Set
Serve(c) == AcquireBegin(c) \/ Release(c) \/ Hangup(c)

Next ==
    \/ Enable \/ Dial \/ Answer \/ Timeout \/ Disable \/ CloseLease \/ ServiceEnds
    \/ \E c \in Conn : Observe(c) \/ Serve(c)
    \/ Retry \/ Locked \/ HelperEnds \/ HelperStarts \/ OtherTool

\* Goroutines run, a blocked mutex is obtained, launchd restarts the helper.
Fairness ==
    /\ WF_vars(Dial) /\ WF_vars(Answer) /\ WF_vars(CloseLease)
    /\ \A c \in Conn : WF_vars(Observe(c)) /\ SF_vars(Serve(c))
    /\ SF_vars(Retry) /\ WF_vars(Locked) /\ WF_vars(HelperStarts)

Spec == Init /\ [][Next]_vars /\ Fairness

-----------------------------------------------------------------------------
TypeOK ==
    /\ ctl \in [requested : BOOLEAN, changing : {"no", "dial", "wait", "close"},
                lease : Conn \cup {None}, conn : Conn \cup {None}]
    /\ near \in [Conn -> {"none", "open"}]
    /\ far \in [Conn -> {"none", "acquire", "held", "refused"}]
    /\ up \in {"ended", "reconcile", "accept"} /\ holders \in 0 .. Cardinality(Conn)
    /\ retry \in BOOLEAN /\ marker \in BOOLEAN /\ sleep \in Setting
    /\ job \in [who : {"nobody", "reconcile", "acquire", "release", "retry"},
                conn : Conn \cup {None},
                at : {"none", "stat", "clear", "remove", "inspect", "mark", "set"}]
    /\ left \in [Bound -> Nat]

\* No call of pmset has done what it was reported to fail at: Acquire takes its
\* marker back after such a call, and the setting is nobody's.
Unambiguous == left.applied = Quota.applied

(* The setting is never left on without the marker by which a helper       *)
(* started later knows that it must be switched off: whoever crashed or    *)
(* failed, at every step of Acquire and Release. TypeOK is checked as a    *)
(* part of it.                                                             *)
MarkerCoversSleep ==
    /\ TypeOK
    /\ Unambiguous /\ sleep = Written(TRUE) => marker

(* A connection that counts as held keeps the Mac awake: neither the       *)
(* release for another connection nor a late retry takes it away.          *)
LeaseKeepsAwake ==
    \A c \in Conn : far[c] = "held" => sleep.disabled \/ sleep.by = "other"

(* When nobody wants the lease any more, however that came about, the Mac  *)
(* can sleep again; and a lease whose helper has gone does not stay on     *)
(* display as active.                                                      *)
SleepRestored ==
    /\ <>[](Unambiguous /\ ~ctl.requested) => <>[](sleep # Written(TRUE))
    /\ \A c \in Conn : (ctl.lease = c /\ far[c] = "none") ~> (ctl.lease # c)
=============================================================================
