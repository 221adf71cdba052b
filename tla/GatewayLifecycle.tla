--------------------------- MODULE GatewayLifecycle ---------------------------
(***************************************************************************)
(* The gateway lifecycle manager (internal/gateway/manager.go): start,     *)
(* rollback, stop, reload, restart-mihomo and the clean-up after a reboot, *)
(* against the host it takes over (forwarding, PF, IPv6 alias, system DNS, *)
(* system proxy, three child processes) and the runtime state file that is *)
(* its only memory.                                                        *)
(*                                                                         *)
(* One session runs at a time: the runtime lifecycle lock is an exclusive, *)
(* non-blocking flock, so an action that starts a session is enabled only  *)
(* when pc = "idle", and the kernel releases the lock when the process     *)
(* that holds it dies (Crash). Every host command and every write of the   *)
(* state file is a step of its own, so a crash, a reboot, a cancelled      *)
(* request, a user editing DNS or the death of a child may come between    *)
(* any two of them.                                                        *)
(***************************************************************************)
EXTENDS Naturals, FiniteSets

CONSTANTS
    Pid,         \* process identities: a PID together with its fingerprint
    NoPid,       \* PID 0: nothing recorded
    UserDNS,     \* DNS settings a user may choose for the network service
    ManagedDNS,  \* the DNS setting that points the Mac at the gateway
    Config,      \* the feature sets a start may be asked for
    DisableTwice, \* does pfctl -d accept a PF that is disabled already?
    Quota        \* how often each disturbance, and all in total, may happen

Service == {"mihomo", "broker", "dnsmasq"}
Disturbance == {"fault", "sync", "cancel", "crash", "reboot", "user", "death"}
Bound == Disturbance \cup {"total"}
DNSSetting == UserDNS \cup {ManagedDNS}

ASSUME ConstantsAssumption ==
    /\ NoPid \notin Pid
    /\ ManagedDNS \notin UserDNS
    /\ UserDNS # {}
    /\ Config \subseteq [ipv6 : BOOLEAN, dns : BOOLEAN, proxy : BOOLEAN]
    /\ DisableTwice \in BOOLEAN
    /\ Quota \in [Bound -> Nat]

VARIABLES
    boot,     \* the boot session of the host
    journal,  \* runtime/state.json; exists = FALSE when there is no file
    live,     \* the running children of each service, tracked or not
    host,     \* the host settings the gateway changes
    own,      \* what the user wants those settings to be (history)
    pc,       \* where the session that holds the lifecycle lock is
    op,       \* what that session is doing
    mem,      \* its in-memory copy of the state
    errs,     \* cleanupErr # nil
    left      \* disturbances that may still happen

vars == <<boot, journal, live, host, own, pc, op, mem, errs, left>>

State ==
    [exists : BOOLEAN, boot : Nat, pid : [Service -> Pid \cup {NoPid}],
     fwdBefore : BOOLEAN, pfBefore : BOOLEAN, pf : BOOLEAN,
     ipv6 : BOOLEAN, alias : BOOLEAN,
     dns : {"off", "prepared", "owned"}, servers : DNSSetting,
     proxy : BOOLEAN]

Host ==
    [fwd : BOOLEAN, pfOn : BOOLEAN, anchor : BOOLEAN, alias : BOOLEAN,
     dns : DNSSetting, proxy : BOOLEAN]

\* What LoadState returns when there is no state file.
Blank ==
    [exists |-> FALSE, boot |-> 0, pid |-> [s \in Service |-> NoPid],
     fwdBefore |-> FALSE, pfBefore |-> FALSE, pf |-> FALSE,
     ipv6 |-> FALSE, alias |-> FALSE,
     dns |-> "off", servers |-> ManagedDNS, proxy |-> FALSE]

TakeoverPc ==
    {"forwarding", "mihomo", "mihomo_save", "broker", "broker_save",
     "alias_intent", "alias", "dnsmasq", "dnsmasq_save", "pf", "pf_verify",
     "dns_intent", "dns", "proxy", "final"}
UndoPc ==
    {"undo_dns", "undo_proxy", "undo_dnsmasq", "undo_alias", "undo_broker",
     "undo_mihomo", "undo_pf", "undo_forwarding", "clear"}
RestartPc ==
    {"restart_dns", "restart_mark", "restart_stop", "restart_start",
     "restart_save", "restart_reapply", "restart_proxy", "restart_kill"}
Stage == {"idle", "begin", "save_state"} \cup TakeoverPc \cup UndoPc \cup RestartPc
Operation ==
    {"none", "start", "rollback", "rollback_proxy", "stop", "interrupted",
     "reload", "restart"}

Init ==
    /\ boot = 1
    /\ journal = Blank
    /\ live = [s \in Service |-> {}]
    /\ own \in [fwd : BOOLEAN, pfOn : BOOLEAN, dns : UserDNS]
    /\ host = [fwd |-> own.fwd, pfOn |-> own.pfOn, anchor |-> FALSE,
               alias |-> FALSE, dns |-> own.dns, proxy |-> FALSE]
    /\ pc = "idle" /\ op = "none" /\ mem = Blank /\ errs = FALSE
    /\ left = Quota

-----------------------------------------------------------------------------
(* Disturbances, control flow and the state file.                          *)

Spend(kind, n) ==
    /\ left[kind] >= n /\ left["total"] >= n
    /\ left' = [left EXCEPT ![kind] = @ - n, !["total"] = @ - n]

Goto(at) == pc' = at /\ UNCHANGED <<op, errs>>

\* The action returns; the deferred Release drops the lifecycle lock.
Return == pc' = "idle" /\ op' = "none" /\ mem' = Blank /\ errs' = FALSE

\* rollback(..., restoreSystemProxy) is called with the state in memory.
Rollback(restoreProxy) ==
    /\ pc' = "undo_dns"
    /\ op' = IF restoreProxy THEN "rollback_proxy" ELSE "rollback"
    /\ errs' = FALSE

\* SaveState: temporary file, fsync, rename, fsync of the directory.
Saved(st) == journal' = st /\ UNCHANGED left

\* A failed SaveState leaves the old file, unless it is the fsync of the
\* directory after the rename that failed: then the new file is there.
SaveFailed(st) ==
    \/ Spend("fault", 1) /\ UNCHANGED journal
    \/ Spend("sync", 1) /\ journal' = st

\* A host command that reports an error may or may not have taken effect.
CommandFailed(h) == Spend("fault", 1) /\ host' \in {host, h}
CommandDone(h) == host' = h /\ UNCHANGED left

-----------------------------------------------------------------------------
(* What the host services do.                                              *)

ForwardingSet(value) == [host EXCEPT !.fwd = value]

\* pf.Manager.Load: load the anchor, enable PF if it was not enabled.
AnchorLoaded(enablePF) ==
    [host EXCEPT !.anchor = TRUE, !.pfOn = @ \/ enablePF]

\* pf.Manager.Unload: flush the anchor and, whatever that said, disable PF.
AnchorUnloaded(disablePF) ==
    [host EXCEPT !.anchor = FALSE, !.pfOn = @ /\ ~disablePF]

\* Mutant: Enable does not look at the current setting.
DNSEnableUnchecked(st) == st \in State

\* SystemDNS.Enable writes only over the snapshot or over its own value.
DNSEnableAllowed(st) == host.dns \in {st.servers, ManagedDNS}
DNSEnabled == [host EXCEPT !.dns = ManagedDNS]

\* SystemDNS.Restore: a value that is not ours is left alone.
DNSRestored(st) ==
    [host EXCEPT !.dns = IF @ = ManagedDNS THEN st.servers ELSE @]
DNSStillOwned(st) == host.dns \in {st.servers, ManagedDNS}

\* The servers of the service that Prepare takes down; its checks of the proxy.
DNSPrepared == host.dns
ProxyPrepareAllowed == ~host.proxy
ProxyEnabled == [host EXCEPT !.proxy = TRUE]
ProxyRestored == [host EXCEPT !.proxy = FALSE]

\* A new child has an identity that nobody runs under or has on record; when
\* none is left the process table is full and the fork fails.
FreshPid(s) == Pid \ (live[s] \cup {journal.pid[s]})
ForkFails(s) == (FreshPid(s) = {} /\ UNCHANGED left) \/ Spend("fault", 1)
Alive(s, p) == p \in live[s]

-----------------------------------------------------------------------------
(* Start.                                                                  *)

Captured(c) ==
    [exists |-> TRUE, boot |-> boot, pid |-> [s \in Service |-> NoPid],
     fwdBefore |-> host.fwd, pfBefore |-> host.pfOn, pf |-> FALSE,
     ipv6 |-> c.ipv6, alias |-> FALSE,
     dns |-> IF c.dns THEN "prepared" ELSE "off",
     servers |-> IF c.dns THEN DNSPrepared ELSE ManagedDNS,
     proxy |-> c.proxy]

\* Everything start does before its first write: refuse an existing state,
\* an IPv6 alias it does not own or an active system proxy, then read the
\* host settings it will have to restore. Reload comes here from "begin".
BeginStart(c) ==
    /\ pc \in {"idle", "begin"}
    /\ ~journal.exists
    /\ c.ipv6 => ~host.alias
    /\ c.proxy => ProxyPrepareAllowed
    /\ mem' = Captured(c)
    /\ pc' = "save_state" /\ op' = "start" /\ errs' = FALSE
    /\ UNCHANGED <<boot, journal, live, host, own, left>>

\* The start inside reload fails validation: the gateway stays stopped.
RefuseStart ==
    /\ pc = "begin"
    /\ Return
    /\ UNCHANGED <<boot, journal, live, host, own, left>>

SaveInitialState ==
    /\ pc = "save_state"
    /\ \/ Saved(mem) /\ Goto("forwarding") /\ UNCHANGED mem
       \/ SaveFailed(mem) /\ Return
    /\ UNCHANGED <<boot, live, host, own>>

CancelPoint ==
    {"forwarding", "mihomo", "broker", "alias", "dnsmasq", "pf",
     "dns_intent", "proxy", "final"}

\* checkCanceled: a cancelled request is noticed before the next stage.
Cancel ==
    /\ pc \in CancelPoint
    /\ Spend("cancel", 1)
    /\ Rollback(pc = "final")
    /\ UNCHANGED <<boot, journal, live, host, own, mem>>

EnableForwarding ==
    /\ pc = "forwarding"
    /\ \/ CommandDone(ForwardingSet(TRUE)) /\ Goto("mihomo")
       \/ CommandFailed(ForwardingSet(TRUE)) /\ Rollback(FALSE)
    /\ UNCHANGED <<boot, journal, live, own, mem>>

\* A Start that fails has stopped the child it forked.
StartService(s, at, next) ==
    /\ pc = at
    /\ \/ \E p \in FreshPid(s) :
             /\ live' = [live EXCEPT ![s] = @ \cup {p}]
             /\ mem' = [mem EXCEPT !.pid[s] = p]
             /\ Goto(next)
             /\ UNCHANGED left
       \/ ForkFails(s) /\ Rollback(FALSE) /\ UNCHANGED <<live, mem>>
    /\ UNCHANGED <<boot, journal, host, own>>

\* The fingerprint is read and saved; a child that is gone already has none.
RecordService(s, at, next) ==
    /\ pc = at
    /\ \/ Alive(s, mem.pid[s]) /\ Saved(mem) /\ Goto(next)
       \/ SaveFailed(mem) /\ Rollback(FALSE)
       \/ ~Alive(s, mem.pid[s]) /\ Rollback(FALSE) /\ UNCHANGED <<journal, left>>
    /\ UNCHANGED <<boot, live, host, own, mem>>

AfterMihomo == IF mem.ipv6 THEN "broker" ELSE "dnsmasq"

StartMihomo == StartService("mihomo", "mihomo", "mihomo_save")
RecordMihomo == RecordService("mihomo", "mihomo_save", AfterMihomo)
StartBroker == StartService("broker", "broker", "broker_save")
RecordBroker == RecordService("broker", "broker_save", "alias_intent")
StartDNSMasq == StartService("dnsmasq", "dnsmasq", "dnsmasq_save")
RecordDNSMasq == RecordService("dnsmasq", "dnsmasq_save", "pf")

\* Mutant: the alias intent is only kept in memory.
RecordAliasInMemory ==
    /\ pc = "alias_intent"
    /\ mem' = [mem EXCEPT !.alias = TRUE] /\ Goto("alias")
    /\ UNCHANGED <<boot, journal, live, host, own, left>>

\* Ownership of the alias is saved before the interface is touched.
RecordAliasIntent ==
    /\ pc = "alias_intent"
    /\ mem' = [mem EXCEPT !.alias = TRUE]
    /\ \/ Saved(mem') /\ Goto("alias")
       \/ SaveFailed(mem') /\ Rollback(FALSE)
    /\ UNCHANGED <<boot, live, host, own>>

AddAlias ==
    /\ pc = "alias"
    /\ LET added == [host EXCEPT !.alias = TRUE] IN
       \/ CommandDone(added) /\ Goto("dnsmasq")
       \/ CommandFailed(added) /\ Rollback(FALSE)
    /\ UNCHANGED <<boot, journal, live, own, mem>>

\* If PF cannot be enabled Load flushes the anchor again, ignoring an error.
LoadPF ==
    /\ pc = "pf"
    /\ \/ /\ CommandDone(AnchorLoaded(~mem.pfBefore))
          /\ mem' = [mem EXCEPT !.pf = TRUE]
          /\ Goto("pf_verify")
       \/ Spend("fault", 1) /\ Rollback(FALSE) /\ UNCHANGED <<host, mem>>
       \/ /\ ~mem.pfBefore /\ Spend("fault", 2)
          /\ host' = AnchorLoaded(FALSE)
          /\ Rollback(FALSE) /\ UNCHANGED mem
    /\ UNCHANGED <<boot, journal, live, own>>

AfterDNS == IF mem.proxy THEN "proxy" ELSE "final"
AfterPF == IF mem.dns = "off" THEN AfterDNS ELSE "dns_intent"

\* Loaded() and the save that records the anchor; either may fail.
VerifyPF ==
    /\ pc = "pf_verify"
    /\ \/ Saved(mem) /\ Goto(AfterPF)
       \/ SaveFailed(mem) /\ Rollback(FALSE)
    /\ UNCHANGED <<boot, live, host, own, mem>>

\* Mutant: DNS is enabled first and recorded with VerifiedAt.
RecordDNSInMemory ==
    /\ pc = "dns_intent"
    /\ mem' = [mem EXCEPT !.dns = "owned"] /\ Goto("dns")
    /\ UNCHANGED <<boot, journal, live, host, own, left>>

\* Owned = TRUE is saved before networksetup; undone in memory on failure.
RecordDNSIntent ==
    /\ pc = "dns_intent"
    /\ LET owned == [mem EXCEPT !.dns = "owned"] IN
       \/ Saved(owned) /\ mem' = owned /\ Goto("dns")
       \/ SaveFailed(owned) /\ Rollback(FALSE) /\ UNCHANGED mem
    /\ UNCHANGED <<boot, live, host, own>>

\* Enable refuses a setting that changed since Prepare. A failed save of
\* VerifiedAt rolls back with DNS already managed, like a failed Enable.
EnableDNS ==
    /\ pc = "dns"
    /\ \/ DNSEnableAllowed(mem) /\ CommandDone(DNSEnabled) /\ Goto(AfterDNS)
       \/ DNSEnableAllowed(mem) /\ CommandFailed(DNSEnabled) /\ Rollback(FALSE)
       \/ ~DNSEnableAllowed(mem) /\ Rollback(FALSE) /\ UNCHANGED <<host, left>>
    /\ UNCHANGED <<boot, journal, live, own, mem>>

EnableProxy ==
    /\ pc = "proxy"
    /\ \/ CommandDone(ProxyEnabled) /\ Goto("final")
       \/ CommandFailed(ProxyEnabled) /\ Rollback(TRUE)
    /\ UNCHANGED <<boot, journal, live, own, mem>>

FinishStart ==
    /\ pc = "final"
    /\ Return
    /\ UNCHANGED <<boot, journal, live, host, own, left>>

-----------------------------------------------------------------------------
(* Stop, rollback and the clean-up of an interrupted runtime. Stop works   *)
(* from the state file, rollback from the state in memory.                 *)

\* Mutant: a state file of another boot is taken for a running gateway.
BootIgnored(st) == st.exists

BelongsToBoot(st) == st.boot = boot

BeginStop ==
    /\ pc = "idle"
    /\ journal.exists
    /\ mem' = journal
    /\ pc' = "undo_dns" /\ errs' = FALSE
    /\ op' = IF BelongsToBoot(journal) THEN "stop" ELSE "interrupted"
    /\ UNCHANGED <<boot, journal, live, host, own, left>>

TrackedRunning(s) == Alive(s, journal.pid[s])

\* reload requires a gateway of this boot that is not degraded, and validates
\* the candidate before it stops anything.
BeginReload ==
    /\ pc = "idle"
    /\ journal.exists /\ BelongsToBoot(journal)
    /\ TrackedRunning("dnsmasq") /\ TrackedRunning("mihomo")
    /\ journal.ipv6 => TrackedRunning("broker")
    /\ mem' = journal
    /\ pc' = "undo_dns" /\ op' = "reload" /\ errs' = FALSE
    /\ UNCHANGED <<boot, journal, live, host, own, left>>

\* restoreSystemDNS; on an error services and state are retained.
UndoDNS ==
    /\ pc = "undo_dns"
    /\ \/ mem.dns # "owned" /\ UNCHANGED <<host, left, mem>> /\ Goto("undo_proxy")
       \/ /\ mem.dns = "owned" /\ CommandDone(DNSRestored(mem))
          /\ Goto("undo_proxy") /\ UNCHANGED mem
       \/ mem.dns = "owned" /\ CommandFailed(DNSRestored(mem)) /\ Return
    /\ UNCHANGED <<boot, journal, live, own>>

MustRestoreProxy == mem.proxy /\ op # "rollback"

AfterUndoProxy == IF op = "interrupted" THEN "clear" ELSE "undo_dnsmasq"

UndoProxy ==
    /\ pc = "undo_proxy"
    /\ \/ ~MustRestoreProxy /\ UNCHANGED <<host, left, mem>> /\ Goto(AfterUndoProxy)
       \/ /\ MustRestoreProxy /\ CommandDone(ProxyRestored)
          /\ Goto(AfterUndoProxy) /\ UNCHANGED mem
       \/ MustRestoreProxy /\ CommandFailed(ProxyRestored) /\ Return
    /\ UNCHANGED <<boot, journal, live, own>>

\* Mutant: a process that is gone already is an error.
UndoServiceStrict(s, at, next) ==
    /\ pc = at
    /\ IF Alive(s, mem.pid[s])
       THEN live' = [live EXCEPT ![s] = @ \ {mem.pid[s]}] /\ Goto(next)
       ELSE pc' = next /\ errs' = TRUE /\ UNCHANGED <<live, op>>
    /\ UNCHANGED <<boot, journal, host, own, mem, left>>

\* stopTrackedProcess: a process that is not the recorded one is not touched.
UndoService(s, at, next) ==
    /\ pc = at
    /\ \/ /\ live' = [live EXCEPT ![s] = @ \ {mem.pid[s]}]
          /\ Goto(next) /\ UNCHANGED left
       \/ /\ Alive(s, mem.pid[s]) /\ Spend("fault", 1)
          /\ pc' = next /\ errs' = TRUE /\ UNCHANGED <<live, op>>
    /\ UNCHANGED <<boot, journal, host, own, mem>>

UndoDNSMasq == UndoService("dnsmasq", "undo_dnsmasq", "undo_alias")
UndoBroker == UndoService("broker", "undo_broker", "undo_mihomo")
UndoMihomo == UndoService("mihomo", "undo_mihomo", "undo_pf")

\* A best-effort clean-up command: an error is collected and the next one
\* still runs. A command that failed has left the host in one of broken.
UndoCommand(at, next, needed, done, broken) ==
    /\ pc = at
    /\ \/ ~needed /\ UNCHANGED <<host, left>> /\ Goto(next)
       \/ needed /\ CommandDone(done) /\ Goto(next)
       \/ /\ needed /\ Spend("fault", 1) /\ host' \in broken
          /\ pc' = next /\ errs' = TRUE /\ UNCHANGED op
    /\ UNCHANGED <<boot, journal, live, own, mem>>

UndoAlias ==
    LET removed == [host EXCEPT !.alias = FALSE] IN
    UndoCommand("undo_alias", "undo_broker", mem.alias, removed, {host, removed})
UndoForwarding ==
    LET restored == ForwardingSet(mem.fwdBefore) IN
    UndoCommand("undo_forwarding", "clear", TRUE, restored, {host, restored})

\* Flushing and disabling fail independently. A pfctl that rejects disabling
\* twice fails whenever PF is off already.
DisableRejected == ~mem.pfBefore /\ ~host.pfOn /\ ~DisableTwice
UndoPF ==
    \/ /\ ~DisableRejected
       /\ UndoCommand("undo_pf", "undo_forwarding", mem.pf,
              AnchorUnloaded(~mem.pfBefore),
              {host, AnchorUnloaded(FALSE), AnchorUnloaded(~mem.pfBefore),
               [host EXCEPT !.pfOn = @ /\ mem.pfBefore]})
    \/ /\ pc = "undo_pf" /\ DisableRejected
       /\ IF mem.pf
          THEN host' = AnchorUnloaded(TRUE) /\ errs' = TRUE
          ELSE UNCHANGED <<host, errs>>
       /\ pc' = "undo_forwarding"
       /\ UNCHANGED <<boot, journal, live, own, op, mem, left>>

\* The state file goes only after a clean-up without errors.
ClearState ==
    /\ pc = "clear"
    /\ \/ errs /\ Return /\ UNCHANGED <<journal, left>>
       \/ /\ ~errs /\ Saved(Blank)
          /\ IF op = "reload"
             THEN pc' = "begin" /\ op' = op /\ mem' = Blank /\ errs' = FALSE
             ELSE Return
       \/ ~errs /\ Spend("fault", 1) /\ journal' \in {journal, Blank} /\ Return
    /\ UNCHANGED <<boot, live, host, own>>

-----------------------------------------------------------------------------
(* restart-mihomo: only the engine is replaced. previousPID stays in       *)
(* mem.pid until the old engine is stopped; Forget is what is saved.       *)

\* Mutant: the record of every child is dropped instead of the engine's.
ForgetAll(st) == [st EXCEPT !.pid = NoPid]

Forget(st) == [st EXCEPT !.pid["mihomo"] = NoPid]

BeginRestart ==
    /\ pc = "idle"
    /\ journal.exists /\ BelongsToBoot(journal)
    /\ mem' = journal
    /\ pc' = "restart_dns" /\ op' = "restart" /\ errs' = FALSE
    /\ UNCHANGED <<boot, journal, live, host, own, left>>

\* Mutant: DNS stays with the gateway while the engine is replaced.
RestartKeepsDNS ==
    /\ pc = "restart_dns" /\ Goto("restart_mark")
    /\ UNCHANGED <<boot, journal, live, host, own, mem, left>>

\* DNS leaves the old engine while it still runs; a setting the user took
\* back is dropped from the state for good.
RestartReleaseDNS ==
    /\ pc = "restart_dns"
    /\ \/ /\ mem.dns # "owned" /\ mem' = [mem EXCEPT !.dns = "off"]
          /\ Goto("restart_mark") /\ UNCHANGED <<host, left>>
       \/ /\ mem.dns = "owned" /\ CommandDone(DNSRestored(mem))
          /\ mem' = [mem EXCEPT !.dns = IF DNSStillOwned(mem) THEN @ ELSE "off"]
          /\ Goto("restart_mark")
       \/ mem.dns = "owned" /\ CommandFailed(DNSRestored(mem)) /\ Return
    /\ UNCHANGED <<boot, journal, live, own>>

RestartMark ==
    /\ pc = "restart_mark"
    /\ \/ Saved(Forget(mem)) /\ Goto("restart_stop") /\ UNCHANGED mem
       \/ SaveFailed(Forget(mem)) /\ Return
    /\ UNCHANGED <<boot, live, host, own>>

\* A signal that fails leaves the engine running and its PID is put back; if
\* the identity check itself fails twice the running engine is forgotten.
RestartStop ==
    /\ pc = "restart_stop"
    /\ LET old == mem.pid["mihomo"] IN
       \/ /\ live' = [live EXCEPT !["mihomo"] = @ \ {old}]
          /\ Goto("restart_start") /\ UNCHANGED <<journal, left, mem>>
       \/ /\ Alive("mihomo", old) /\ Return /\ UNCHANGED live
          /\ \/ Spend("fault", 1) /\ journal' = mem
             \/ Spend("fault", 2) /\ UNCHANGED journal
       \/ /\ Alive("mihomo", old) /\ Spend("fault", 2)
          /\ mem' = Forget(mem) /\ Goto("restart_proxy")
          /\ UNCHANGED <<journal, live>>
    /\ UNCHANGED <<boot, host, own>>

\* Archiving the log or starting the new engine may fail.
RestartStart ==
    /\ pc = "restart_start"
    /\ \/ \E p \in FreshPid("mihomo") :
             /\ live' = [live EXCEPT !["mihomo"] = @ \cup {p}]
             /\ mem' = [mem EXCEPT !.pid["mihomo"] = p]
             /\ Goto("restart_save") /\ UNCHANGED left
       \/ /\ ForkFails("mihomo")
          /\ mem' = Forget(mem)
          /\ Goto("restart_proxy") /\ UNCHANGED live
    /\ UNCHANGED <<boot, journal, host, own>>

RestartSave ==
    /\ pc = "restart_save"
    /\ \/ /\ Alive("mihomo", mem.pid["mihomo"]) /\ Saved(mem)
          /\ IF mem.dns = "owned"
             THEN Goto("restart_reapply") /\ UNCHANGED mem
             ELSE Return
       \/ SaveFailed(mem) /\ Goto("restart_proxy") /\ UNCHANGED mem
       \/ /\ ~Alive("mihomo", mem.pid["mihomo"])
          /\ Goto("restart_proxy") /\ UNCHANGED <<journal, left, mem>>
    /\ UNCHANGED <<boot, live, host, own>>

\* A restart that failed gives the proxy back and stops the engine it may
\* have started; both errors are only reported.
RestartRestoreProxy ==
    /\ pc = "restart_proxy"
    /\ \/ ~mem.proxy /\ UNCHANGED <<host, left>>
       \/ mem.proxy /\ CommandDone(ProxyRestored)
       \/ mem.proxy /\ CommandFailed(ProxyRestored)
    /\ Goto("restart_kill")
    /\ UNCHANGED <<boot, journal, live, own, mem>>

RestartKill ==
    /\ pc = "restart_kill"
    /\ LET new == mem.pid["mihomo"] IN
       \/ live' = [live EXCEPT !["mihomo"] = @ \ {new}] /\ UNCHANGED left
       \/ Alive("mihomo", new) /\ Spend("fault", 1) /\ UNCHANGED live
    /\ Return
    /\ UNCHANGED <<boot, journal, host, own>>

\* Enable again; if that fails DNS is restored once more.
RestartReapplyDNS ==
    /\ pc = "restart_reapply"
    /\ \/ DNSEnableAllowed(mem) /\ CommandDone(DNSEnabled)
       \/ ~DNSEnableAllowed(mem) /\ UNCHANGED <<host, left>>
       \/ Spend("fault", 1) /\ host' = DNSRestored(mem)
       \/ DNSEnableAllowed(mem) /\ Spend("fault", 2) /\ host' = DNSEnabled
    /\ Return
    /\ UNCHANGED <<boot, journal, live, own>>

-----------------------------------------------------------------------------
(* The environment.                                                        *)

\* The CLI or the Helper dies; its children were forked into groups of their
\* own and survive, the lifecycle lock does not.
Crash ==
    /\ pc # "idle"
    /\ Spend("crash", 1)
    /\ Return
    /\ UNCHANGED <<boot, journal, live, host, own>>

\* A reboot takes every process, PF anchor and interface alias with it;
\* network service settings are persistent, forwarding and PF start anew.
Reboot ==
    /\ Spend("reboot", 1)
    /\ boot' = boot + 1
    /\ live' = [s \in Service |-> {}]
    /\ \E fwd, pfOn \in BOOLEAN :
          /\ own' = [own EXCEPT !.fwd = fwd, !.pfOn = pfOn]
          /\ host' = [host EXCEPT !.fwd = fwd, !.pfOn = pfOn,
                                  !.anchor = FALSE, !.alias = FALSE]
    /\ Return
    /\ UNCHANGED journal

UserSetsDNS(d) ==
    /\ host.dns # d
    /\ Spend("user", 1)
    /\ host' = [host EXCEPT !.dns = d]
    /\ own' = [own EXCEPT !.dns = d]
    /\ UNCHANGED <<boot, journal, live, pc, op, mem, errs>>

ServiceDies(s) ==
    /\ Spend("death", 1)
    /\ \E p \in live[s] : live' = [live EXCEPT ![s] = @ \ {p}]
    /\ UNCHANGED <<boot, journal, host, own, pc, op, mem, errs>>

-----------------------------------------------------------------------------

Takeover ==
    \/ SaveInitialState \/ Cancel \/ EnableForwarding
    \/ StartMihomo \/ RecordMihomo \/ StartBroker \/ RecordBroker
    \/ RecordAliasIntent \/ AddAlias \/ StartDNSMasq \/ RecordDNSMasq
    \/ LoadPF \/ VerifyPF \/ RecordDNSIntent \/ EnableDNS \/ EnableProxy
    \/ FinishStart

Undo ==
    \/ UndoDNS \/ UndoProxy \/ UndoDNSMasq \/ UndoAlias \/ UndoBroker
    \/ UndoMihomo \/ UndoPF \/ UndoForwarding \/ ClearState

Restart ==
    \/ RestartReleaseDNS \/ RestartMark \/ RestartStop \/ RestartStart
    \/ RestartSave \/ RestartReapplyDNS \/ RestartRestoreProxy \/ RestartKill

Request ==
    \/ \E c \in Config : BeginStart(c)
    \/ RefuseStart \/ BeginStop \/ BeginReload \/ BeginRestart

Environment ==
    \/ Crash \/ Reboot
    \/ \E d \in UserDNS : UserSetsDNS(d)
    \/ \E s \in Service : ServiceDies(s)

Next == Takeover \/ Undo \/ Restart \/ Request \/ Environment

Spec == Init /\ [][Next]_vars

\* A session that holds the lock keeps running, and an operator who finds a
\* state file keeps asking for stop until it is gone.
Session == Takeover \/ Undo \/ Restart \/ RefuseStart
FairSpec == Spec /\ WF_vars(Session) /\ SF_vars(BeginStop)

-----------------------------------------------------------------------------
(* Properties.                                                             *)

\* The shape of the state: one type invariant for every variable.
TypeOK ==
    /\ boot \in Nat
    /\ journal \in State
    /\ live \in [Service -> SUBSET Pid]
    /\ host \in Host
    /\ own \in [fwd : BOOLEAN, pfOn : BOOLEAN, dns : UserDNS]
    /\ pc \in Stage
    /\ op \in Operation
    /\ mem \in State
    /\ errs \in BOOLEAN
    /\ left \in [Bound -> Nat]

Used(kind) == Quota[kind] - left[kind]

\* A setting that survives its process is changed only after the state file
\* says so, and the file keeps saying so until the setting is restored: at
\* every crash, failed command or failed save, a later stop finds in the file
\* what to undo (saves before AddGateway, Enable and the sysctl in start; the
\* order of the steps of stop).
AliasClaimed ==
    host.alias => journal.exists /\ journal.boot = boot /\ journal.alias
DNSClaimed == host.dns = ManagedDNS => journal.exists /\ journal.dns = "owned"
ProxyClaimed == host.proxy => journal.exists /\ journal.proxy
ForwardingClaimed ==
    host.fwd # own.fwd =>
        journal.exists /\ journal.boot = boot /\ journal.fwdBefore = own.fwd
WriteAhead == AliasClaimed /\ DNSClaimed /\ ProxyClaimed /\ ForwardingClaimed

\* System DNS is either the gateway's or the user's latest choice, and while
\* it is the gateway's the file remembers that choice: neither enable nor
\* restore, in any order with the user's edits, overwrites a newer setting.
UserDNSRespected ==
    /\ host.dns \in {ManagedDNS, own.dns}
    /\ host.dns = ManagedDNS => journal.servers = own.dns

\* No process crash, no torn save and at most one failed command.
Orderly == Used("crash") = 0 /\ Used("sync") = 0 /\ Used("fault") <= 1

\* The state file is of an earlier boot and waits for its clean-up.
Interrupted == journal.exists /\ ~BelongsToBoot(journal)

\* In an orderly run two engines never share the ports and the TUN device, and
\* when the state file is gone after start, rollback, stop, reload or restart,
\* nothing of the gateway is left on the host.
StopLeavesNothing ==
    Orderly =>
        /\ Cardinality(live["mihomo"]) <= 1
        /\ pc = "idle" /\ ~journal.exists =>
              /\ \A s \in Service : live[s] = {}
              /\ ~host.anchor /\ host.pfOn = own.pfOn /\ host.fwd = own.fwd

\* The Mac's own DNS never points at a gateway whose engine the manager has
\* stopped: DNS is restored before the engine goes, in stop, rollback, reload
\* and restart, whatever fails or crashes in between. Nor does an orderly run
\* leave the system proxy at rest without an engine behind it.
DNSNeverDangling ==
    ~Interrupted /\ Used("death") = 0 =>
        /\ host.dns = ManagedDNS => live["mihomo"] # {}
        /\ pc = "idle" /\ host.proxy /\ Orderly => live["mihomo"] # {}

\* An operator who keeps asking for stop gets a clean host: no reachable state
\* file, left by whatever failure or crash, makes stop fail for ever.
StopSucceeds == []<>(~journal.exists)

-----------------------------------------------------------------------------
(* The abstract promise about settings that survive the process.           *)

Claims ==
    IF ~journal.exists THEN {}
    ELSE {"forwarding"} \cup {r \in {"alias"} : journal.alias}
         \cup {r \in {"dns"} : journal.dns = "owned"}
         \cup {r \in {"proxy"} : journal.proxy}
Altered ==
    {r \in {"forwarding"} : host.fwd # own.fwd}
    \cup {r \in {"alias"} : host.alias}
    \cup {r \in {"dns"} : host.dns = ManagedDNS}
    \cup {r \in {"proxy"} : host.proxy}

Ownership == INSTANCE WriteAheadOwnership WITH
    Resource <- {"forwarding", "alias", "dns", "proxy"},
    claims <- Claims, altered <- Altered

\* The lifecycle manager implements write-ahead ownership.
Implements == Ownership!Spec
=============================================================================
