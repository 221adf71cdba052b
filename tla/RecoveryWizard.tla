---------------------------- MODULE RecoveryWizard ----------------------------
(***************************************************************************)
(* The recovery state machine of a same-LAN DHCP takeover: the handlers    *)
(* under /api/v1/recovery and /api/v1/network in controlapi/server.go, and *)
(* what the gateway operations write into it (runOperation, autostart.go). *)
(*                                                                         *)
(* A handler reads the persisted record, checks its stage, does slow work  *)
(* on the network and saves the copy it read with a new stage. Nothing     *)
(* holds other handlers or the gateway operation back meanwhile. A client  *)
(* is a Web UI: it offers what the stage allows and is busy until what it  *)
(* asked for has ended, operations included. Outside the model: the notes  *)
(* of POST /recovery, and users who change the Mac's network elsewhere.    *)
(***************************************************************************)
EXTENDS Naturals, FiniteSets

CONSTANTS
    Client,   \* web UIs open at the same time
    Patient,  \* they ask for nothing while autostart is at work
    Allowance \* how often each disturbance, and each takeover step, may happen

Limit == {"prepare", "start", "reload", "fault", "kept", "store", "lost",
          "crash"}

ASSUME WizardAssumption ==
    Client # {} /\ Patient \in BOOLEAN /\ Allowance \in [Limit -> Nat]

VARIABLES
    rec,      \* recovery.json: the stage and what it remembers
    card,     \* the offline recovery card is on disk
    mac,      \* how this Mac gets its IPv4 address
    router,   \* the router's DHCP server answers
    gw,       \* a runtime state is on disk: the gateway serves the LAN
    autostart, \* the service was started with --autostart-gateway
    desired,  \* the intent that autostart follows
    req,      \* the handler each client is waiting for
    task,     \* the gateway operation that holds lifecycleMu
    proven,   \* history: the router was found silent in this takeover
    budget    \* disturbances that may still happen

network == <<mac, router, gw>>
wizardVars == <<rec, card, mac, router, gw, autostart, desired, req, task, proven, budget>>
intent == <<autostart, desired>>

Final == {"idle", "complete", "complete_static"}
Serving == {"gateway_active", "client_validated", "client_validation_skipped"}
Stage == Final \cup Serving \cup
    {"prepared", "mac_static", "router_dhcp_disabled_confirmed",
     "gateway_stopped_waiting_router_dhcp", "router_dhcp_restored"}
Confirmed == "router_dhcp_disabled_confirmed"
Waiting == "gateway_stopped_waiting_router_dhcp"

Mode == {"dhcp", "static"}
Kind == {"prepare", "discard", "apply-static", "dhcp-probe", "abandon-takeover",
         "client-validated", "client-validation-skip", "router-restored",
         "manual-finish", "keep-static", "restore-dhcp", "config"}
\* "static": the saved network configuration has a fixed address of its own.
RecoveryState == [stage : Stage, required : BOOLEAN, snapshot : Mode \cup {"none"}]

Idle == [stage |-> "idle", required |-> FALSE, snapshot |-> "none"]
NoRequest == [kind |-> "none", at |-> "none", copy |-> Idle]
NoTask == [kind |-> "none", at |-> "none", ok |-> FALSE, back |-> FALSE,
                auto |-> FALSE, before |-> Idle]

WizardInit ==
    /\ rec = Idle /\ card = FALSE
    /\ mac = "dhcp" /\ router = TRUE /\ gw = FALSE
    /\ autostart \in BOOLEAN /\ desired = TRUE /\ proven = FALSE
    /\ req = [c \in Client |-> NoRequest] /\ task = NoTask
    /\ budget = Allowance

Afford(kind) == budget[kind] > 0 /\ budget' = [budget EXCEPT ![kind] = @ - 1]

-----------------------------------------------------------------------------
(* What a handler asks of the record before it starts.                     *)

HasSnapshot(r) == r.snapshot # "none"

\* Mutant: nobody looks for a runtime that is still there.
AbandonAllowedServing(r) == r.stage \in {"mac_static", Confirmed} /\ HasSnapshot(r)
\* Mutant: no way back once the probe has confirmed the router's silence.
AbandonAllowedEarly(r) == r.stage = "mac_static" /\ HasSnapshot(r) /\ ~gw

AbandonAllowed(r) == r.stage \in {"mac_static", Confirmed} /\ HasSnapshot(r) /\ ~gw

Accepts(kind, r) ==
    CASE kind = "prepare" -> TRUE
      [] kind = "discard" -> r.stage = "prepared"
      [] kind = "apply-static" -> r.stage = "prepared" /\ HasSnapshot(r)
      [] kind = "dhcp-probe" -> r.stage = "mac_static"
      [] kind = "abandon-takeover" -> AbandonAllowed(r)
      [] kind \in {"client-validated", "client-validation-skip"} ->
            r.stage = "gateway_active"
      [] kind \in {"router-restored", "manual-finish"} ->
            r.stage = Waiting /\ HasSnapshot(r)
      [] kind = "keep-static" ->
            r.stage \in {Waiting, "router_dhcp_restored"} /\ HasSnapshot(r)
      [] kind = "restore-dhcp" -> r.stage = "router_dhcp_restored" /\ HasSnapshot(r)
      [] kind = "config" -> r.required => r.stage = "prepared"

\* The Web UI has a button for it: only preparation needs one that the
\* server does not ask for itself.
Offered(kind, r) == kind = "prepare" => r.stage \in Final

(* The stage a handler saves when its work succeeds.                       *)
Reached(kind) ==
    CASE kind = "prepare" -> "prepared"
      [] kind = "apply-static" -> "mac_static"
      [] kind = "dhcp-probe" -> Confirmed
      [] kind = "client-validated" -> "client_validated"
      [] kind = "client-validation-skip" -> "client_validation_skipped"
      [] kind = "router-restored" -> "router_dhcp_restored"
      [] kind \in {"manual-finish", "restore-dhcp"} -> "complete"
      [] kind = "keep-static" -> "complete_static"

Moved(r, stage) == [r EXCEPT !.stage = stage, !.required = stage \notin Final]

-----------------------------------------------------------------------------
Ask(c, kind) ==
    /\ req[c].kind = "none" /\ (Patient => task.kind = "none")
    /\ Offered(kind, rec) /\ Accepts(kind, rec)
    /\ IF kind = "prepare" THEN Afford("prepare") ELSE UNCHANGED budget
    /\ req' = [req EXCEPT ![c] = [kind |-> kind, at |-> "work", copy |-> rec]]
    /\ UNCHANGED <<rec, card, network, intent, task, proven>>

Answer(c) == req' = [req EXCEPT ![c] = NoRequest]
ToSave(c, copy) == req' = [req EXCEPT ![c].at = "save", ![c].copy = copy]

\* The probe asks for OFFERs for three seconds.
ProbeRouter(c) ==
    LET kind == req[c].kind IN
    /\ req[c].at = "work" /\ kind \in {"dhcp-probe", "router-restored"}
    /\ IF router <=> kind = "router-restored"
       THEN ToSave(c, Moved(req[c].copy, Reached(kind)))
       ELSE Answer(c)
    /\ proven' = (proven \/ (kind = "dhcp-probe" /\ ~router))
    /\ UNCHANGED <<rec, card, network, intent, task, budget>>

RestoreMac(c) ==
    /\ req[c].at = "work" /\ req[c].kind \in {"manual-finish", "restore-dhcp"}
    /\ mac' = "dhcp" /\ ToSave(c, Moved(req[c].copy, "complete"))
    /\ UNCHANGED <<rec, card, router, gw, intent, task, proven, budget>>

AbandonTakeover(c) ==
    /\ req[c].at = "work" /\ req[c].kind = "abandon-takeover"
    /\ IF router
       THEN mac' = "dhcp" /\ ToSave(c, Moved(req[c].copy, "complete"))
       ELSE UNCHANGED mac /\ ToSave(c, Moved(req[c].copy, "complete_static"))
    /\ UNCHANGED <<rec, card, router, gw, intent, task, proven, budget>>

\* The snapshot is what the Mac uses now; notes and flags start over.
Discover(c) ==
    /\ req[c].at = "work" /\ req[c].kind = "prepare"
    /\ ToSave(c, [stage |-> "prepared", required |-> TRUE, snapshot |-> mac])
    /\ UNCHANGED <<rec, card, network, intent, task, proven, budget>>

\* SetManual may have been done when the read-back or the ping fails.
ApplyStatic(c) ==
    /\ req[c].at = "work" /\ req[c].kind = "apply-static"
    /\ mac' = "static"
    /\ \/ ToSave(c, Moved(req[c].copy, "mac_static")) /\ UNCHANGED budget
       \/ Afford("fault") /\ Answer(c)
    /\ UNCHANGED <<rec, card, router, gw, intent, task, proven>>

\* These only write; applying a configuration needs a stopped gateway.
Decide(c) ==
    /\ req[c].at = "work"
    /\ \/ /\ req[c].kind \in {"client-validated", "client-validation-skip", "keep-static"}
          /\ ToSave(c, Moved(req[c].copy, Reached(req[c].kind)))
       \/ req[c].kind = "discard" /\ ToSave(c, req[c].copy)
       \/ /\ req[c].kind = "config"
          /\ IF gw THEN Answer(c) ELSE ToSave(c, req[c].copy)
    /\ UNCHANGED <<rec, card, network, intent, task, proven, budget>>

Fail(c) ==
    /\ req[c].at = "work" /\ Afford("fault") /\ Answer(c)
    /\ UNCHANGED <<rec, card, network, intent, task, proven>>

-----------------------------------------------------------------------------
(* Saving. The store takes its own lock for one read or one write.         *)

Remembers(r) ==
    /\ rec' = r
    /\ proven' = (proven /\ r.stage \notin Final \cup {"prepared", "router_dhcp_restored"})

Save(c) ==
    /\ req[c].at = "save" /\ req[c].kind \notin {"discard", "config"}
    /\ \/ /\ Remembers(req[c].copy) /\ UNCHANGED budget
          /\ IF req[c].kind = "prepare" THEN req' = [req EXCEPT ![c].at = "card"]
             ELSE Answer(c)
       \/ Afford("store") /\ Answer(c) /\ UNCHANGED <<rec, proven>>
    /\ UNCHANGED <<card, network, intent, task>>

\* Without its card a preparation is taken back.
SaveCard(c) ==
    /\ req[c].at = "card" /\ Answer(c)
    /\ \/ card' = TRUE /\ UNCHANGED <<rec, proven, budget>>
       \/ Afford("store") /\ Remembers(Idle) /\ UNCHANGED card
    /\ UNCHANGED <<network, intent, task>>

\* DiscardPreparedRecovery reads the stage again under the store's lock.
Discard(c) ==
    /\ req[c].at = "save" /\ Answer(c)
    /\ \/ req[c].kind = "discard"
       \/ req[c].kind = "config" /\ req[c].copy.stage = "prepared"
    /\ \/ /\ UNCHANGED budget
          /\ IF rec.stage = "prepared" THEN Remembers(Idle) /\ card' = FALSE
             ELSE UNCHANGED <<rec, proven, card>>
       \/ Afford("store") /\ UNCHANGED <<rec, proven, card>>
    /\ UNCHANGED <<network, intent, task>>

Reconfigure(c) ==
    /\ req[c].at = "save" /\ req[c].kind = "config" /\ Answer(c)
    /\ req[c].copy.stage # "prepared"
    /\ \/ Remembers(Idle) /\ UNCHANGED budget
       \/ Afford("store") /\ UNCHANGED <<rec, proven>>
    /\ UNCHANGED <<card, network, intent, task>>

Handle(c) ==
    \/ ProbeRouter(c) \/ RestoreMac(c) \/ AbandonTakeover(c) \/ Discover(c)
    \/ ApplyStatic(c) \/ Decide(c) \/ Fail(c)
    \/ Save(c) \/ SaveCard(c) \/ Discard(c) \/ Reconfigure(c)

-----------------------------------------------------------------------------
(* Gateway operations. The client waits for the one it has asked for.      *)

\* Mutant: a start needs the Mac's fixed address and no more.
StartAllowedEarly(r) == r.stage \in {"mac_static", Confirmed}

StartAllowed(r) == r.stage = Confirmed

Order(c, kind) ==
    /\ req[c].kind = "none" /\ task.kind = "none"
    /\ CASE kind = "start" -> StartAllowed(rec) /\ ~gw /\ Afford("start")
         [] kind = "reload" -> gw /\ rec.stage \in Serving /\ Afford("reload")
         [] kind = "stop" -> (gw \/ rec.stage \in Serving) /\ UNCHANGED budget
    /\ task' = [NoTask EXCEPT !.kind = kind, !.at = "run", !.before = rec]
    /\ req' = [req EXCEPT ![c].kind = "operation"]
    /\ desired' = IF kind = "reload" THEN desired ELSE kind = "start"
    /\ UNCHANGED <<rec, card, network, autostart, proven>>

\* Ended(up, ok, back): the state file is there or not, the operation
\* succeeded or not, and a reload stopped the gateway and failed to start it.
\* A start that fails and cannot be rolled back keeps its state file.
Ended(up, ok, back) ==
    /\ gw' = up
    /\ task' = [task EXCEPT !.at = "save", !.ok = ok, !.back = back]

Run ==
    /\ task.at = "run"
    /\ \/ Ended(task.kind # "stop", TRUE, FALSE) /\ UNCHANGED budget
       \/ task.kind = "start" /\ Afford("kept") /\ Ended(TRUE, FALSE, FALSE)
       \/ /\ Afford("fault")
          /\ \/ task.kind = "start" /\ Ended(FALSE, FALSE, FALSE)
             \/ task.kind = "stop" /\ Ended(gw, FALSE, FALSE)
             \/ task.kind = "reload" /\ Ended(gw, FALSE, FALSE)
             \/ task.kind = "reload" /\ \E kept \in BOOLEAN : Ended(kept, FALSE, TRUE)
    /\ UNCHANGED <<rec, card, mac, router, intent, req, proven>>

\* A success moves the record as it is now; a failure restores the copy that
\* was read when the operation was asked for. Errors of the save are ignored.
AfterOperation(r) ==
    CASE task.ok /\ task.kind = "start" -> Moved(r, "gateway_active")
      [] task.ok /\ task.kind = "stop" -> Moved(r, Waiting)
      [] ~task.ok /\ task.kind = "start" /\ task.before.stage = Confirmed /\ ~gw ->
            Moved(task.before, Confirmed)
      [] ~task.ok /\ task.kind = "reload" /\ task.back -> Moved(task.before, Confirmed)
      [] OTHER -> r

Waits(c) == req[c].kind = "operation"
Released == req' = [c \in Client |-> IF Waits(c) THEN NoRequest ELSE req[c]]

\* Autostart goes on to a start when it has stopped a left-over runtime.
EndOperation ==
    /\ task.at = "save"
    /\ \/ Remembers(AfterOperation(rec)) /\ UNCHANGED budget
       \/ Afford("lost") /\ UNCHANGED <<rec, proven>>
    /\ IF task.auto /\ task.kind = "stop" /\ task.ok /\ StartAllowed(task.before)
       THEN task' = [task EXCEPT !.kind = "start", !.at = "run"] /\ UNCHANGED req
       ELSE task' = NoTask /\ Released
    /\ UNCHANGED <<card, network, intent>>

\* A runtime that is up and healthy is left to itself.
Autostart(r, up) ==
    IF autostart /\ desired /\ (up \/ StartAllowed(r))
    THEN {[NoTask EXCEPT !.kind = IF up THEN "stop" ELSE "start",
                              !.at = "run", !.auto = TRUE, !.before = r]}
         \cup IF up THEN {NoTask} ELSE {}
    ELSE {NoTask}

\* The control service comes up again: requests are gone, an operation is cut
\* off and what it was about to save is lost. If the last intent was to run,
\* autostart stops a left-over runtime and starts a confirmed takeover.
ServiceRestart ==
    /\ Afford("crash")
    /\ req' = [c \in Client |-> NoRequest]
    /\ gw' \in IF task.at = "run" THEN BOOLEAN ELSE {gw}
    /\ task' \in Autostart(rec, gw')
    /\ UNCHANGED <<rec, card, mac, router, intent, proven>>

\* The user, at the router's own page.
SwitchRouter ==
    /\ rec.stage \in {"mac_static", Waiting}
    /\ \A c \in Client : req[c].kind = "none"
    /\ router' = (rec.stage = Waiting) /\ router' # router
    /\ UNCHANGED <<rec, card, mac, gw, intent, req, task, proven, budget>>

WizardNext ==
    \/ \E c \in Client, kind \in Kind : Ask(c, kind)
    \/ \E c \in Client : Handle(c)
    \/ \E c \in Client, kind \in {"start", "stop", "reload"} : Order(c, kind)
    \/ Run \/ EndOperation \/ ServiceRestart \/ SwitchRouter

\* Somebody who wants the takeover to end.
WayOut == {"discard", "abandon-takeover", "manual-finish", "keep-static", "restore-dhcp"}
GoBack(c) == (\E kind \in WayOut : Ask(c, kind)) \/ Order(c, "stop")

WizardFairness ==
    /\ \A c \in Client : WF_wizardVars(Handle(c)) /\ SF_wizardVars(GoBack(c))
    /\ WF_wizardVars(Run) /\ WF_wizardVars(EndOperation)

WizardSpec == WizardInit /\ [][WizardNext]_wizardVars /\ WizardFairness

-----------------------------------------------------------------------------
(* The types; no copy in flight is older than its handler, and the alarm   *)
(* is up exactly in the stages between the preparation and the end.        *)
WizardTypeOK ==
    /\ rec \in RecoveryState /\ card \in BOOLEAN
    /\ mac \in Mode /\ router \in BOOLEAN /\ gw \in BOOLEAN /\ autostart \in BOOLEAN
    /\ desired \in BOOLEAN
    /\ req \in [Client -> [kind : Kind \cup {"none", "operation"},
                           at : {"none", "work", "save", "card"}, copy : RecoveryState]]
    /\ task \in [kind : {"none", "start", "stop", "reload"}, at : {"none", "run", "save"},
               ok : BOOLEAN, back : BOOLEAN, auto : BOOLEAN, before : RecoveryState]
    /\ proven \in BOOLEAN /\ budget \in [Limit -> Nat]
    /\ rec.required <=> rec.stage \notin Final

\* Autostart saves the stage of a stopped gateway before it starts the gateway
\* again. From there three things leave a served LAN without its record: an
\* operation ignores that it cannot save what it reached, a failed start that
\* leaves its state file behind does not touch the record, and a second restart
\* cuts the start off and leaves to itself what it finds up.
Recorded ==
    autostart => /\ budget.lost = Allowance.lost /\ budget.kept = Allowance.kept
                 /\ budget.crash + 1 >= Allowance.crash

(* While the gateway serves the LAN the alarm is up and the configuration  *)
(* to go back to is kept: nothing ends the takeover under it. And a flow   *)
(* ends in "complete" only with the Mac back on automatic DHCP: handlers   *)
(* save that stage after the privileged SetDHCP has succeeded. TypeOK is   *)
(* checked as a part of it.                                                *)
TakeoverAlerts ==
    /\ WizardTypeOK
    /\ gw /\ Recorded => rec.required /\ HasSnapshot(rec)
    /\ rec.stage = "complete" => mac = "dhcp"

(* The gateway's DHCP server comes up only in a takeover in which a probe  *)
(* found the router's silent, restarts and autostart included.             *)
SoleDHCPServer == [][~gw /\ gw' => proven]_wizardVars

(* Whatever else failed or was cut off, somebody who insists gets out: the *)
(* flow ends, and does not end with the gateway still up. (After one of    *)
(* the two a stop can end in the alarm with no snapshot, where no handler  *)
(* that leaves it is accepted.)                                            *)
WayOutExists == <>[](Recorded => rec.stage \in Final /\ ~gw)
=============================================================================
