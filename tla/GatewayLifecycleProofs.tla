------------------------ MODULE GatewayLifecycleProofs ------------------------
(***************************************************************************)
(* Proofs about GatewayLifecycle for every set of processes, every set of  *)
(* DNS settings, every set of features and every number of disturbances.   *)
(*                                                                         *)
(* WriteAhead is not inductive: that stop leaves nothing altered when it   *)
(* drops the state file depends on what the earlier steps of the session   *)
(* have restored, and on the copy of the state the session works from.     *)
(* IInv adds, stage by stage, what the code has established so far.        *)
(* StopLeavesNothing and DNSNeverDangling depend on who knows of each      *)
(* child and of the anchor; Clean says that, and is inductive under IInv.  *)
(***************************************************************************)
EXTENDS GatewayLifecycle, FiniteSetTheorems, TLAPS

InSession == TakeoverPc \cup UndoPc \cup RestartPc

\* The file's own consistency: it is never of a later boot, a file of this
\* boot remembers the user's forwarding, a DNS snapshot is a user's setting.
FileSound ==
    journal.exists =>
        /\ journal.boot <= boot
        /\ journal.boot = boot => journal.fwdBefore = own.fwd
        /\ journal.dns # "off" => journal.servers # ManagedDNS

\* While a session runs, the file is there and the copy in memory agrees with
\* it on what it will restore and claims all that is altered.
CopySound ==
    pc \in InSession =>
        /\ journal.exists /\ mem.exists
        /\ mem.boot = journal.boot
        /\ mem.fwdBefore = journal.fwdBefore
        /\ mem.servers = journal.servers
        /\ mem.proxy = journal.proxy
        /\ mem.dns # "off" => mem.servers # ManagedDNS
        /\ host.alias => mem.alias
        /\ host.dns = ManagedDNS => mem.dns = "owned"

\* Before the first save there is no file and the copy is a fresh snapshot.
SnapshotSound ==
    /\ pc \in {"begin", "save_state"} => ~journal.exists
    /\ pc = "save_state" =>
          /\ mem.exists /\ mem.boot = boot /\ mem.fwdBefore = own.fwd
          /\ mem.dns # "off" => mem.servers # ManagedDNS

TakeoverSound ==
    /\ pc \in TakeoverPc \cup RestartPc => journal.boot = boot
    /\ pc \in TakeoverPc \ {"final"} => ~host.proxy
    /\ pc = "alias" => mem.alias /\ journal.alias
    /\ pc \in {"dns", "restart_reapply"} =>
          mem.dns = "owned" /\ journal.dns = "owned"
    /\ pc \in RestartPc \ {"restart_dns", "restart_reapply"} =>
          host.dns # ManagedDNS
    /\ pc = "proxy" => mem.proxy
    /\ pc = "dns_intent" => mem.dns # "off"

\* What the steps of the clean-up have restored by now.
UndoSound ==
    pc \in UndoPc =>
        /\ op = "rollback" => ~host.proxy
        /\ op \in {"rollback", "rollback_proxy", "stop", "reload", "interrupted"}
        /\ op = "interrupted" =>
              /\ journal.boot # boot
              /\ pc \in {"undo_dns", "undo_proxy", "clear"}
        /\ op # "interrupted" => journal.boot = boot
        /\ pc # "undo_dns" => host.dns # ManagedDNS
        /\ pc \notin {"undo_dns", "undo_proxy"} => ~host.proxy
        /\ pc \in {"undo_broker", "undo_mihomo", "undo_pf",
                   "undo_forwarding", "clear"} /\ ~errs => ~host.alias
        /\ pc = "clear" /\ ~errs => host.fwd = own.fwd

Safe ==
    /\ WriteAhead /\ UserDNSRespected
    /\ FileSound /\ CopySound /\ SnapshotSound /\ TakeoverSound /\ UndoSound

IInv == TypeOK /\ Safe

-----------------------------------------------------------------------------
(* Type correctness.                                                       *)

\* A disturbance is spent one by one.
LEMMA SpendType ==
    ASSUME TypeOK
    PROVE  \A kind \in Disturbance, n \in Nat :
              Spend(kind, n) => left' \in [Bound -> Nat]
BY DEF TypeOK, Spend, Bound, Disturbance

LEMMA BlankType == Blank \in State
BY ConstantsAssumption DEF Blank, State, DNSSetting, Service

\* The updates the actions make keep the shape of a state and of the host.
LEMMA StateUpdates ==
    ASSUME NEW st \in State
    PROVE  /\ [st EXCEPT !.alias = TRUE] \in State
           /\ [st EXCEPT !.pf = TRUE] \in State
           /\ [st EXCEPT !.dns = "owned"] \in State
           /\ [st EXCEPT !.dns = "off"] \in State
           /\ Forget(st) \in State
           /\ \A s \in Service, p \in Pid : [st EXCEPT !.pid[s] = p] \in State
<1>1. [st EXCEPT !.alias = TRUE] \in State /\ [st EXCEPT !.pf = TRUE] \in State
  BY DEF State
<1>2. [st EXCEPT !.dns = "owned"] \in State /\ [st EXCEPT !.dns = "off"] \in State
  BY DEF State
<1>3. Forget(st) \in State
  BY DEF State, Forget, Service
<1>4. ASSUME NEW s \in Service, NEW p \in Pid
      PROVE  [st EXCEPT !.pid[s] = p] \in State
  BY DEF State, Service
<1>5. QED BY <1>1, <1>2, <1>3, <1>4

\* The settings of the host, one at a time.
LEMMA HostUpdates ==
    ASSUME host \in Host, NEW st \in State
    PROVE  /\ \A b \in BOOLEAN : ForwardingSet(b) \in Host
           /\ \A b \in BOOLEAN : AnchorLoaded(b) \in Host
           /\ \A b \in BOOLEAN : AnchorUnloaded(b) \in Host
           /\ DNSEnabled \in Host /\ DNSRestored(st) \in Host
           /\ ProxyRestored \in Host
           /\ st.fwdBefore \in BOOLEAN /\ st.pfBefore \in BOOLEAN
<1>1. /\ \A b \in BOOLEAN : ForwardingSet(b) \in Host
      /\ \A b \in BOOLEAN : AnchorLoaded(b) \in Host
      /\ \A b \in BOOLEAN : AnchorUnloaded(b) \in Host
  BY DEF Host, ForwardingSet, AnchorLoaded, AnchorUnloaded
<1>2. DNSEnabled \in Host /\ ProxyRestored \in Host
  BY DEF Host, DNSEnabled, ProxyRestored, DNSSetting
<1>3. DNSRestored(st) \in Host
  BY DEF Host, State, DNSRestored
<1>4. st.fwdBefore \in BOOLEAN /\ st.pfBefore \in BOOLEAN
  BY DEF State
<1>5. QED BY <1>1, <1>2, <1>3, <1>4

LEMMA StartServiceType ==
    ASSUME TypeOK, NEW s \in Service, NEW at, NEW next \in Stage,
           StartService(s, at, next)
    PROVE  TypeOK'
<1>1. CASE \E p \in FreshPid(s) :
              /\ live' = [live EXCEPT ![s] = @ \cup {p}]
              /\ mem' = [mem EXCEPT !.pid[s] = p]
              /\ Goto(next)
              /\ UNCHANGED left
  <2>1. PICK p \in Pid :
              /\ live' = [live EXCEPT ![s] = @ \cup {p}]
              /\ mem' = [mem EXCEPT !.pid[s] = p]
              /\ Goto(next)
              /\ UNCHANGED left
    BY <1>1 DEF FreshPid
  <2>2. live' \in [Service -> SUBSET Pid]
    BY <2>1 DEF TypeOK
  <2>3. mem' \in State
    BY <2>1, StateUpdates DEF TypeOK
  <2>4. QED
    BY <2>1, <2>2, <2>3 DEF TypeOK, StartService, Goto
<1>2. CASE ForkFails(s) /\ Rollback(FALSE) /\ UNCHANGED <<live, mem>>
  <2>1. left' \in [Bound -> Nat]
    BY <1>2, SpendType DEF ForkFails, Disturbance, TypeOK
  <2>2. QED
    BY <1>2, <2>1 DEF TypeOK, StartService, Rollback, Stage, UndoPc, Operation
<1>3. QED
  BY <1>1, <1>2 DEF StartService

LEMMA TypeTakeover == TypeOK /\ Takeover => TypeOK'
<1> SUFFICES ASSUME TypeOK, Takeover PROVE TypeOK'
  OBVIOUS
<1> USE SpendType, BlankType, StateUpdates, HostUpdates DEF TypeOK, Stage, Operation, Disturbance, Goto, Return,
    Rollback, Saved, SaveFailed, CommandFailed, CommandDone
<1>1. CASE SaveInitialState
  BY <1>1 DEF SaveInitialState, Service, TakeoverPc, UndoPc
<1>2. CASE Cancel
  BY <1>2 DEF Cancel, CancelPoint, DNSSetting, Service, TakeoverPc, UndoPc
<1>3. CASE EnableForwarding
  BY <1>3 DEF EnableForwarding, ForwardingSet, Host, Service, TakeoverPc, UndoPc
<1>4. CASE StartMihomo
  BY <1>4, StartServiceType DEF StartMihomo, Service, TakeoverPc
<1>5. CASE RecordMihomo
  BY <1>5 DEF RecordMihomo, RecordService, Alive, AfterMihomo, DNSSetting, Service, TakeoverPc, UndoPc
<1>6. CASE StartBroker
  BY <1>6, StartServiceType DEF StartBroker, Service, TakeoverPc
<1>7. CASE RecordBroker
  BY <1>7 DEF RecordBroker, RecordService, Alive, DNSSetting, Service, TakeoverPc, UndoPc
<1>8. CASE RecordAliasIntent
  BY <1>8, ZenonT(60) DEF RecordAliasIntent, TakeoverPc, UndoPc
<1>9. CASE AddAlias
  BY <1>9 DEF AddAlias, Host, DNSSetting, Service, TakeoverPc, UndoPc
<1>10. CASE StartDNSMasq
  BY <1>10, StartServiceType DEF StartDNSMasq, Service, TakeoverPc
<1>11. CASE RecordDNSMasq
  BY <1>11 DEF RecordDNSMasq, RecordService, Alive, DNSSetting, Service, TakeoverPc, UndoPc
<1>12. CASE LoadPF
  BY <1>12 DEF LoadPF, TakeoverPc, UndoPc
<1>13. CASE VerifyPF
  BY <1>13 DEF VerifyPF, AfterPF, AfterDNS, DNSSetting, Service, TakeoverPc, UndoPc
<1>14. CASE RecordDNSIntent
  BY <1>14 DEF RecordDNSIntent, TakeoverPc, UndoPc
<1>15. CASE EnableDNS
  BY <1>15 DEF EnableDNS, DNSEnabled, AfterDNS, Host, DNSSetting, Service, TakeoverPc, UndoPc
<1>16. CASE EnableProxy
  BY <1>16 DEF EnableProxy, ProxyEnabled, Host, Service, TakeoverPc, UndoPc
<1>17. CASE FinishStart
  BY <1>17 DEF FinishStart, Service, TakeoverPc, UndoPc
<1>18. QED
  BY <1>1, <1>2, <1>3, <1>4, <1>5, <1>6, <1>7, <1>8, <1>9, <1>10, <1>11, <1>12, <1>13, <1>14, <1>15, <1>16, <1>17 DEF Takeover

LEMMA TypeUndo == TypeOK /\ Undo => TypeOK'
<1> SUFFICES ASSUME TypeOK, Undo PROVE TypeOK'
  OBVIOUS
<1> USE SpendType, BlankType, StateUpdates, HostUpdates DEF TypeOK, Stage, Operation, Disturbance, Goto, Return,
    Rollback, Saved, SaveFailed, CommandFailed, CommandDone
<1>1. CASE UndoDNS
  BY <1>1 DEF UndoDNS, UndoPc
<1>2. CASE UndoProxy
  BY <1>2 DEF UndoProxy, AfterUndoProxy, ProxyRestored, Host, DNSSetting, Service, UndoPc
<1>3. CASE UndoDNSMasq
  BY <1>3 DEF UndoDNSMasq, UndoService, Alive, DNSSetting, Service, UndoPc
<1>4. CASE UndoAlias
  BY <1>4 DEF UndoAlias, UndoCommand, Host, Service, UndoPc
<1>5. CASE UndoBroker
  BY <1>5 DEF UndoBroker, UndoService, Alive, Service, UndoPc
<1>6. CASE UndoMihomo
  BY <1>6 DEF UndoMihomo, UndoService, Alive, Service, UndoPc
<1>7. CASE UndoPF
  BY <1>7, ZenonT(60) DEF UndoPF, UndoCommand, AnchorUnloaded, DisableRejected, Host, Service, UndoPc
<1>8. CASE UndoForwarding
  BY <1>8 DEF UndoForwarding, UndoCommand, UndoPc
<1>9. CASE ClearState
  BY <1>9 DEF ClearState
<1>10. QED
  BY <1>1, <1>2, <1>3, <1>4, <1>5, <1>6, <1>7, <1>8, <1>9 DEF Undo

LEMMA TypeRestart == TypeOK /\ Restart => TypeOK'
<1> SUFFICES ASSUME TypeOK, Restart PROVE TypeOK'
  OBVIOUS
<1> USE SpendType, BlankType, StateUpdates, HostUpdates DEF TypeOK, Stage, Operation, Disturbance, Goto, Return,
    Rollback, Saved, SaveFailed, CommandFailed, CommandDone
<1>1. CASE RestartReleaseDNS
  BY <1>1, ZenonT(60) DEF RestartReleaseDNS, RestartPc
<1>2. CASE RestartMark
  BY <1>2 DEF RestartMark, RestartPc
<1>3. CASE RestartStop
  BY <1>3 DEF RestartStop, RestartPc, Service
<1>4. CASE RestartStart
  BY <1>4 DEF RestartStart, Forget, FreshPid, ForkFails, State, Service, RestartPc
<1>5. CASE RestartSave
  BY <1>5 DEF RestartSave, Alive, DNSSetting, Service, RestartPc
<1>6. CASE RestartRestoreProxy
  BY <1>6 DEF RestartRestoreProxy, ProxyRestored, Host, Service, RestartPc
<1>7. CASE RestartKill
  BY <1>7 DEF RestartKill, Alive, Service, RestartPc
<1>8. CASE RestartReapplyDNS
  BY <1>8 DEF RestartReapplyDNS
<1>9. QED
  BY <1>1, <1>2, <1>3, <1>4, <1>5, <1>6, <1>7, <1>8 DEF Restart
LEMMA CapturedType ==
    ASSUME TypeOK, NEW c \in Config
    PROVE  Captured(c) \in State
<1>1. c.ipv6 \in BOOLEAN /\ c.dns \in BOOLEAN /\ c.proxy \in BOOLEAN
  BY ConstantsAssumption
<1>2. host.fwd \in BOOLEAN /\ host.pfOn \in BOOLEAN /\ host.dns \in DNSSetting
  BY DEF TypeOK, Host
<1>3. QED
  BY <1>1, <1>2, ConstantsAssumption DEF Captured, DNSPrepared, State, DNSSetting, TypeOK

LEMMA TypeRequest == TypeOK /\ Request => TypeOK'
<1> SUFFICES ASSUME TypeOK, Request PROVE TypeOK'
  OBVIOUS
<1> USE DEF TypeOK, Stage, Operation
<1>1. CASE \E c \in Config : BeginStart(c)
  BY <1>1, CapturedType DEF BeginStart
<1>2. CASE RefuseStart
  BY <1>2, BlankType DEF RefuseStart, Return
<1>3. CASE BeginStop
  BY <1>3 DEF BeginStop, UndoPc
<1>4. CASE BeginReload
  BY <1>4 DEF BeginReload, UndoPc
<1>5. CASE BeginRestart
  BY <1>5 DEF BeginRestart, RestartPc
<1>6. QED
  BY <1>1, <1>2, <1>3, <1>4, <1>5 DEF Request

LEMMA TypeEnvironment == TypeOK /\ Environment => TypeOK'
<1> SUFFICES ASSUME TypeOK, Environment PROVE TypeOK'
  OBVIOUS
<1> USE SpendType DEF TypeOK, Disturbance
<1>1. CASE Crash
  BY <1>1, BlankType DEF Crash, Return, Stage, Operation
<1>2. CASE Reboot
  <2>1. boot' \in Nat /\ live' \in [Service -> SUBSET Pid]
    BY <1>2 DEF Reboot
  <2>2. host' \in Host /\ own' \in [fwd : BOOLEAN, pfOn : BOOLEAN, dns : UserDNS]
    BY <1>2 DEF Reboot, Host
  <2>3. QED
    BY <1>2, <2>1, <2>2, BlankType DEF Reboot, Return, Stage, Operation
<1>3. CASE \E d \in UserDNS : UserSetsDNS(d)
  BY <1>3 DEF UserSetsDNS, Host, DNSSetting
<1>4. CASE \E s \in Service : ServiceDies(s)
  BY <1>4 DEF ServiceDies
<1>5. QED
  BY <1>1, <1>2, <1>3, <1>4 DEF Environment

LEMMA TypeInit == Init => TypeOK
<1> SUFFICES ASSUME Init PROVE TypeOK
  OBVIOUS
<1>1. host \in Host
  BY DEF Init, Host, DNSSetting
<1>2. QED
  BY <1>1, BlankType, ConstantsAssumption DEF Init, TypeOK, Stage, Operation, Service

LEMMA TypeNext == TypeOK /\ [Next]_vars => TypeOK'
<1>1. TypeOK /\ UNCHANGED vars => TypeOK'
  BY DEF TypeOK, vars
<1>2. QED
  BY <1>1, TypeTakeover, TypeUndo, TypeRestart, TypeRequest, TypeEnvironment
     DEF Next

\* Every variable keeps its shape: the state file is always a state LoadState
\* can return, and no disturbance is spent twice.
THEOREM TypeCorrect == Spec => []TypeOK
BY TypeInit, TypeNext, PTL DEF Spec

-----------------------------------------------------------------------------
(* The inductive invariant, one action at a time.                          *)

LEMMA SafeTakeover == IInv /\ Takeover => Safe'
<1> SUFFICES ASSUME IInv, Takeover PROVE Safe'
  OBVIOUS
<1> USE ConstantsAssumption DEF IInv, TypeOK, Safe, WriteAhead, AliasClaimed, DNSClaimed,
    ProxyClaimed, ForwardingClaimed, UserDNSRespected, FileSound, CopySound,
    SnapshotSound, TakeoverSound, UndoSound, InSession, TakeoverPc, UndoPc,
    RestartPc, State, Host, DNSSetting, Service, Goto, Return, Rollback, Saved,
    SaveFailed, CommandFailed, CommandDone
<1>1. CASE SaveInitialState
  BY <1>1 DEF SaveInitialState
<1>2. CASE Cancel
  BY <1>2 DEF Cancel, CancelPoint
<1>3. CASE EnableForwarding
  BY <1>3 DEF EnableForwarding, ForwardingSet
<1>4. CASE StartMihomo
  BY <1>4 DEF StartMihomo, StartService, FreshPid, ForkFails
<1>5. CASE RecordMihomo
  BY <1>5 DEF RecordMihomo, RecordService, Alive, AfterMihomo
<1>6. CASE StartBroker
  BY <1>6 DEF StartBroker, StartService, FreshPid, ForkFails
<1>7. CASE RecordBroker
  BY <1>7 DEF RecordBroker, RecordService, Alive
<1>8. CASE RecordAliasIntent
  BY <1>8 DEF RecordAliasIntent
<1>9. CASE AddAlias
  BY <1>9 DEF AddAlias
<1>10. CASE StartDNSMasq
  BY <1>10 DEF StartDNSMasq, StartService, FreshPid, ForkFails
<1>11. CASE RecordDNSMasq
  BY <1>11 DEF RecordDNSMasq, RecordService, Alive
<1>12. CASE LoadPF
  <2>1. CASE CommandDone(AnchorLoaded(~mem.pfBefore))
             /\ mem' = [mem EXCEPT !.pf = TRUE] /\ Goto("pf_verify")
    BY <1>12, <2>1 DEF LoadPF, AnchorLoaded
  <2>2. CASE Rollback(FALSE) /\ UNCHANGED <<host, mem>>
    BY <1>12, <2>2 DEF LoadPF
  <2>3. CASE host' = AnchorLoaded(FALSE) /\ Rollback(FALSE) /\ UNCHANGED mem
    BY <1>12, <2>3 DEF LoadPF, AnchorLoaded
  <2>4. QED
    BY <1>12, <2>1, <2>2, <2>3 DEF LoadPF
<1>13. CASE VerifyPF
  BY <1>13 DEF VerifyPF, AfterPF, AfterDNS
<1>14. CASE RecordDNSIntent
  BY <1>14 DEF RecordDNSIntent
<1>15. CASE EnableDNS
  BY <1>15 DEF EnableDNS, DNSEnabled, AfterDNS, DNSEnableAllowed
<1>16. CASE EnableProxy
  BY <1>16 DEF EnableProxy, ProxyEnabled
<1>17. CASE FinishStart
  BY <1>17 DEF FinishStart
<1>18. QED
  BY <1>1, <1>2, <1>3, <1>4, <1>5, <1>6, <1>7, <1>8, <1>9, <1>10, <1>11, <1>12, <1>13, <1>14, <1>15, <1>16, <1>17 DEF Takeover

LEMMA SafeUndo == IInv /\ Undo => Safe'
<1> SUFFICES ASSUME IInv, Undo PROVE Safe'
  OBVIOUS
<1> USE ConstantsAssumption DEF IInv, TypeOK, Safe, WriteAhead, AliasClaimed, DNSClaimed,
    ProxyClaimed, ForwardingClaimed, UserDNSRespected, FileSound, CopySound,
    SnapshotSound, TakeoverSound, UndoSound, InSession, TakeoverPc, UndoPc,
    RestartPc, State, Host, DNSSetting, Service, Goto, Return, Rollback, Saved,
    SaveFailed, CommandFailed, CommandDone
<1>1. CASE UndoDNS
  BY <1>1 DEF UndoDNS, DNSRestored
<1>2. CASE UndoProxy
  BY <1>2 DEF UndoProxy, AfterUndoProxy, ProxyRestored, MustRestoreProxy
<1>3. CASE UndoDNSMasq
  BY <1>3 DEF UndoDNSMasq, UndoService, Alive
<1>4. CASE UndoAlias
  BY <1>4 DEF UndoAlias, UndoCommand
<1>5. CASE UndoBroker
  BY <1>5 DEF UndoBroker, UndoService, Alive
<1>6. CASE UndoMihomo
  BY <1>6 DEF UndoMihomo, UndoService, Alive
<1>7. CASE UndoPF
  <2>1. pc = "undo_pf" /\ pc' = "undo_forwarding"
    BY <1>7 DEF UndoPF, UndoCommand
  <2>2. UNCHANGED <<journal, own, op, mem, boot>>
    BY <1>7 DEF UndoPF, UndoCommand
  <2>3. host'.alias = host.alias /\ host'.dns = host.dns /\ host'.proxy = host.proxy
          /\ host'.fwd = host.fwd
    BY <1>7, ZenonT(60) DEF UndoPF, UndoCommand, AnchorUnloaded
  <2>4. errs => errs'
    BY <1>7 DEF UndoPF, UndoCommand
  <2>5. WriteAhead' /\ UserDNSRespected' /\ FileSound'
    BY <2>1, <2>2, <2>3
  <2>6. CopySound' /\ SnapshotSound' /\ TakeoverSound'
    BY <2>1, <2>2, <2>3
  <2>7. UndoSound'
    BY <2>1, <2>2, <2>3, <2>4
  <2>8. QED
    BY <2>5, <2>6, <2>7
<1>8. CASE UndoForwarding
  BY <1>8 DEF UndoForwarding, UndoCommand, ForwardingSet
<1>9. CASE ClearState
  BY <1>9 DEF ClearState, Blank
<1>10. QED
  BY <1>1, <1>2, <1>3, <1>4, <1>5, <1>6, <1>7, <1>8, <1>9 DEF Undo

LEMMA SafeRestart == IInv /\ Restart => Safe'
<1> SUFFICES ASSUME IInv, Restart PROVE Safe'
  OBVIOUS
<1> USE ConstantsAssumption DEF IInv, TypeOK, Safe, WriteAhead, AliasClaimed, DNSClaimed,
    ProxyClaimed, ForwardingClaimed, UserDNSRespected, FileSound, CopySound,
    SnapshotSound, TakeoverSound, UndoSound, InSession, TakeoverPc, UndoPc,
    RestartPc, State, Host, DNSSetting, Service, Goto, Return, Rollback, Saved,
    SaveFailed, CommandFailed, CommandDone
<1>1. CASE RestartReleaseDNS
  BY <1>1 DEF RestartReleaseDNS, DNSRestored, DNSStillOwned
<1>2. CASE RestartMark
  BY <1>2 DEF RestartMark, Forget
<1>3. CASE RestartStop
  BY <1>3 DEF RestartStop, Forget, Alive
<1>4. CASE RestartStart
  BY <1>4 DEF RestartStart, Forget, FreshPid, ForkFails
<1>5. CASE RestartSave
  BY <1>5 DEF RestartSave, Alive, Forget
<1>6. CASE RestartRestoreProxy
  BY <1>6 DEF RestartRestoreProxy, ProxyRestored
<1>7. CASE RestartKill
  BY <1>7 DEF RestartKill, Alive
<1>8. CASE RestartReapplyDNS
  BY <1>8 DEF RestartReapplyDNS, DNSEnabled, DNSRestored, DNSEnableAllowed
<1>9. QED
  BY <1>1, <1>2, <1>3, <1>4, <1>5, <1>6, <1>7, <1>8 DEF Restart

LEMMA SafeRequest == IInv /\ Request => Safe'
<1> SUFFICES ASSUME IInv, Request PROVE Safe'
  OBVIOUS
<1> USE ConstantsAssumption DEF IInv, TypeOK, Safe, WriteAhead, AliasClaimed, DNSClaimed,
    ProxyClaimed, ForwardingClaimed, UserDNSRespected, FileSound, CopySound,
    SnapshotSound, TakeoverSound, UndoSound, InSession, TakeoverPc, UndoPc,
    RestartPc, State, Host, DNSSetting, Service, Return
<1>1. CASE \E c \in Config : BeginStart(c)
  BY <1>1 DEF BeginStart, Captured, DNSPrepared, ProxyPrepareAllowed
<1>2. CASE RefuseStart
  BY <1>2 DEF RefuseStart
<1>3. CASE BeginStop
  BY <1>3 DEF BeginStop, BelongsToBoot
<1>4. CASE BeginReload
  BY <1>4 DEF BeginReload, BelongsToBoot
<1>5. CASE BeginRestart
  BY <1>5 DEF BeginRestart, BelongsToBoot
<1>6. QED
  BY <1>1, <1>2, <1>3, <1>4, <1>5 DEF Request

LEMMA SafeEnvironment == IInv /\ Environment => Safe'
<1> SUFFICES ASSUME IInv, Environment PROVE Safe'
  OBVIOUS
<1> USE ConstantsAssumption DEF IInv, TypeOK, Safe, WriteAhead, AliasClaimed, DNSClaimed,
    ProxyClaimed, ForwardingClaimed, UserDNSRespected, FileSound, CopySound,
    SnapshotSound, TakeoverSound, UndoSound, InSession, TakeoverPc, UndoPc,
    RestartPc, State, Host, DNSSetting, Service, Return
<1>1. CASE Crash
  BY <1>1 DEF Crash
<1>2. CASE Reboot
  BY <1>2 DEF Reboot
<1>3. CASE \E d \in UserDNS : UserSetsDNS(d)
  BY <1>3 DEF UserSetsDNS
<1>4. CASE \E s \in Service : ServiceDies(s)
  BY <1>4 DEF ServiceDies
<1>5. QED
  BY <1>1, <1>2, <1>3, <1>4 DEF Environment

LEMMA InitIInv == Init => IInv
<1>1. Init => Safe
  BY ConstantsAssumption
     DEF Init, Safe, WriteAhead, AliasClaimed, DNSClaimed, ProxyClaimed,
         ForwardingClaimed, UserDNSRespected, FileSound, CopySound,
         SnapshotSound, TakeoverSound, UndoSound, InSession, TakeoverPc,
         UndoPc, RestartPc, Blank
<1>2. QED
  BY <1>1, TypeInit DEF IInv

LEMMA NextIInv == IInv /\ [Next]_vars => IInv'
<1>1. IInv /\ UNCHANGED vars => Safe'
  BY DEF IInv, Safe, WriteAhead, AliasClaimed, DNSClaimed, ProxyClaimed,
         ForwardingClaimed, UserDNSRespected, FileSound, CopySound,
         SnapshotSound, TakeoverSound, UndoSound, vars
<1>2. IInv /\ Next => Safe'
  BY SafeTakeover, SafeUndo, SafeRestart, SafeRequest, SafeEnvironment DEF Next
<1>3. QED
  BY <1>1, <1>2, TypeNext DEF IInv

LEMMA Inductive == Spec => []IInv
BY InitIInv, NextIInv, PTL DEF Spec

\* At every moment of every run, whatever command fails and whenever the
\* process or the host goes down, the state file claims all that is altered.
THEOREM WriteAheadHolds == Spec => []WriteAhead
<1>1. IInv => WriteAhead
  BY DEF IInv, Safe
<1>2. QED
  BY <1>1, Inductive, PTL

\* The gateway never overwrites, and never loses, the DNS the user wants.
THEOREM UserDNSHolds == Spec => []UserDNSRespected
<1>1. IInv => UserDNSRespected
  BY DEF IInv, Safe
<1>2. QED
  BY <1>1, Inductive, PTL

-----------------------------------------------------------------------------
(* The refinement of WriteAheadOwnership.                                  *)

\* No step writes both the state file and the host.
LEMMA OneDevice == Next => UNCHANGED journal \/ UNCHANGED <<host, own>>
<1>1. Takeover => UNCHANGED journal \/ UNCHANGED <<host, own>>
  BY DEF Takeover, SaveInitialState, Cancel, EnableForwarding, StartMihomo,
         RecordMihomo, StartBroker, RecordBroker, StartDNSMasq, RecordDNSMasq,
         StartService, RecordService, RecordAliasIntent, AddAlias, LoadPF,
         VerifyPF, RecordDNSIntent, EnableDNS, EnableProxy, FinishStart
<1>2. Undo => UNCHANGED journal \/ UNCHANGED <<host, own>>
  BY DEF Undo, UndoDNS, UndoProxy, UndoDNSMasq, UndoAlias, UndoBroker,
         UndoMihomo, UndoPF, UndoForwarding, UndoService, UndoCommand, ClearState
<1>3. Restart => UNCHANGED journal \/ UNCHANGED <<host, own>>
  BY DEF Restart, RestartReleaseDNS, RestartMark, RestartStop, RestartStart,
         RestartSave, RestartRestoreProxy, RestartKill, RestartReapplyDNS
<1>4. Request => UNCHANGED journal
  BY DEF Request, BeginStart, RefuseStart, BeginStop, BeginReload, BeginRestart
<1>5. Environment => UNCHANGED journal
  BY DEF Environment, Crash, Reboot, UserSetsDNS, ServiceDies
<1>6. QED
  BY <1>1, <1>2, <1>3, <1>4, <1>5 DEF Next

LEMMA AlteredClaimed == WriteAhead => Altered \subseteq Claims
BY DEF WriteAhead, AliasClaimed, DNSClaimed, ProxyClaimed, ForwardingClaimed,
       Altered, Claims

LEMMA StepImplements ==
    ASSUME IInv, IInv', [Next]_vars
    PROVE  [Ownership!Next]_(Ownership!vars)
<1>1. Altered \subseteq Claims /\ Altered' \subseteq Claims'
  <2>1. WriteAhead /\ WriteAhead'
    BY DEF IInv, Safe
  <2>2. Altered \subseteq Claims
    BY <2>1, AlteredClaimed
  <2>3. Altered' \subseteq Claims'
    BY <2>1 DEF WriteAhead, AliasClaimed, DNSClaimed, ProxyClaimed,
                ForwardingClaimed, Altered, Claims
  <2>4. QED
    BY <2>2, <2>3
<1>2. CASE UNCHANGED journal
  <2>1. Claims' = Claims
    BY <1>2 DEF Claims
  <2>2. Ownership!Touch
    BY <1>1, <2>1 DEF Ownership!Touch
  <2>3. QED
    BY <2>2 DEF Ownership!Next
<1>3. CASE UNCHANGED <<host, own>>
  <2>1. Altered' = Altered
    BY <1>3 DEF Altered
  <2>2. Claims' \in SUBSET {"forwarding", "alias", "dns", "proxy"}
    BY DEF Claims
  <2>3. Ownership!Record
    BY <1>1, <2>1, <2>2 DEF Ownership!Record
  <2>4. QED
    BY <2>3 DEF Ownership!Next
<1>4. QED
  BY <1>2, <1>3, OneDevice DEF vars

\* The lifecycle manager implements write-ahead ownership: every step writes
\* the record, touches what it claims, or changes neither.
THEOREM ImplementsOwnership == Spec => Implements
<1>1. Init => Ownership!Init
  BY ConstantsAssumption DEF Init, Ownership!Init, Claims, Altered, Blank
<1>2. IInv /\ IInv' /\ [Next]_vars => [Ownership!Next]_(Ownership!vars)
  BY StepImplements
<1>3. QED
  BY <1>1, <1>2, Inductive, PTL DEF Spec, Implements, Ownership!Spec

-----------------------------------------------------------------------------
(* What is left behind. StopLeavesNothing and DNSNeverDangling speak of    *)
(* runs with few disturbances, and depend on who knows of each child and   *)
(* of the anchor at every stage: the state file between sessions, the copy *)
(* in memory during one, and both until a first failure is behind.         *)

NoDeath == Used("death") = 0

LeftSound == left \in [Bound -> Nat] /\ \A k \in Bound : left[k] <= Quota[k]

\* What a state says is running is all that runs, and PF is as the user left
\* it unless the state says that the anchor was loaded.
Tracks(st) ==
    /\ \A s \in Service : live[s] \subseteq {st.pid[s]}
    /\ host.anchor => st.pf
    /\ host.pfOn # own.pfOn => st.pf /\ host.pfOn

NothingRuns ==
    /\ \A s \in Service : live[s] = {}
    /\ ~host.anchor /\ host.pfOn = own.pfOn

\* The file that is not there, and the file of an earlier boot.
FileTracks ==
    /\ ~journal.exists => journal = Blank
    /\ Interrupted => NothingRuns /\ host.fwd = own.fwd
    /\ journal.exists /\ journal.boot = boot => journal.pfBefore = own.pfOn
    /\ (pc = "save_state" \/ (pc \in InSession /\ journal.boot = boot)) =>
          mem.pfBefore = own.pfOn

TakeoverTracks ==
    pc \in TakeoverPc =>
        /\ Tracks(mem)
        /\ pc \in {"forwarding", "mihomo"} => live["mihomo"] = {}
        /\ pc \in {"forwarding", "mihomo", "mihomo_save", "broker"} =>
              live["broker"] = {}
        /\ pc \in {"forwarding", "mihomo", "mihomo_save", "broker",
                   "broker_save", "alias_intent", "alias", "dnsmasq"} =>
              live["dnsmasq"] = {}
        /\ pc # "mihomo_save" => mem.pid["mihomo"] = journal.pid["mihomo"]
        /\ pc # "broker_save" => mem.pid["broker"] = journal.pid["broker"]
        /\ pc # "dnsmasq_save" => mem.pid["dnsmasq"] = journal.pid["dnsmasq"]
        /\ pc # "pf_verify" => mem.pf = journal.pf

\* A session that has failed once and is cleaning up will not fail again.
NeverFailed == Used("fault") = 0
Failed == Used("fault") = 1
OnlyFailure == Failed /\ ~errs

UndoTracks ==
    pc \in UndoPc =>
        /\ Tracks(mem)
        /\ Tracks(journal) \/ OnlyFailure
        /\ ~errs /\ pc \notin {"undo_dns", "undo_proxy", "undo_dnsmasq"} =>
              live["dnsmasq"] = {}
        /\ ~errs /\ pc \in {"undo_mihomo", "undo_pf", "undo_forwarding", "clear"} =>
              live["broker"] = {}
        /\ ~errs /\ pc \in {"undo_pf", "undo_forwarding", "clear"} =>
              live["mihomo"] = {}
        /\ ~errs /\ pc \in {"undo_forwarding", "clear"} =>
              ~host.anchor /\ host.pfOn = own.pfOn

RestartTracks ==
    pc \in RestartPc =>
        /\ Tracks(mem)
        /\ mem.pf = journal.pf
        /\ mem.pid["broker"] = journal.pid["broker"]
        /\ mem.pid["dnsmasq"] = journal.pid["dnsmasq"]
        /\ pc \in {"restart_dns", "restart_mark", "restart_reapply"} =>
              mem.pid["mihomo"] = journal.pid["mihomo"]
        /\ pc = "restart_start" => live["mihomo"] = {}
        /\ pc \in {"restart_stop", "restart_start"} =>
              journal.pid["mihomo"] = NoPid
        /\ pc \in {"restart_proxy", "restart_kill"} =>
              live["mihomo"] = {} \/ Failed

AllTracks ==
    /\ pc = "idle" => Tracks(journal)
    /\ pc \in {"begin", "save_state"} => NothingRuns
    /\ FileTracks /\ TakeoverTracks /\ UndoTracks /\ RestartTracks

TrackSound == Orderly => AllTracks

\* Where an engine has been started and nothing but a death can end it.
EngineStarted ==
    (TakeoverPc \ {"forwarding", "mihomo"}) \cup {"restart_save", "restart_reapply"}

EngineSound ==
    /\ pc \in EngineStarted \/ host.proxy => Pid # {}
    /\ NoDeath =>
          /\ pc \in EngineStarted => live["mihomo"] # {}
          /\ pc = "restart_save" => Alive("mihomo", mem.pid["mihomo"])
          /\ host.dns = ManagedDNS /\ ~Interrupted => live["mihomo"] # {}
    /\ NoDeath /\ Orderly =>
          /\ host.proxy /\ ~Interrupted =>
                live["mihomo"] # {} \/ pc \in {"restart_start", "restart_proxy"}
          /\ host.proxy /\ pc = "restart_proxy" => Failed
          /\ pc = "restart_kill" => ~host.proxy

Clean == LeftSound /\ TrackSound /\ EngineSound

\* What an action spends decides what a later state may still rely on.
LEMMA Spending ==
    ASSUME LeftSound
    PROVE  /\ \A kind \in Disturbance, n \in Nat : Spend(kind, n) => LeftSound'
           /\ Spend("fault", 1) =>
                 /\ Orderly' => Orderly /\ NeverFailed /\ Failed'
                 /\ NoDeath' => NoDeath
           /\ ~(Spend("fault", 2) /\ Orderly')
           /\ Spend("fault", 2) => (NoDeath' => NoDeath)
           /\ ~(Spend("sync", 1) /\ Orderly')
           /\ Spend("sync", 1) => (NoDeath' => NoDeath)
           /\ ~(Spend("crash", 1) /\ Orderly')
           /\ Spend("crash", 1) => (NoDeath' => NoDeath)
           /\ ~(Spend("death", 1) /\ NoDeath')
           /\ Spend("death", 1) =>
                 (Orderly' => Orderly) /\ Failed' = Failed
           /\ \A kind \in {"cancel", "reboot", "user"} : Spend(kind, 1) =>
                 /\ Orderly' => Orderly
                 /\ Failed' = Failed
                 /\ NoDeath' => NoDeath
           /\ UNCHANGED left =>
                 /\ LeftSound'
                 /\ Orderly' = Orderly
                 /\ Failed' = Failed
                 /\ NoDeath' = NoDeath
<1>1. Quota \in [Bound -> Nat] /\ left \in [Bound -> Nat]
          /\ \A k \in Bound : left[k] <= Quota[k]
  BY ConstantsAssumption DEF LeftSound
<1>2. ASSUME NEW kind \in Disturbance, NEW n \in Nat, Spend(kind, n)
      PROVE  /\ left' \in [Bound -> Nat]
             /\ left'[kind] = left[kind] - n /\ left[kind] >= n
             /\ \A k \in Disturbance \ {kind} : left'[k] = left[k]
             /\ \A k \in Bound : left'[k] <= left[k]
  <2>1. left' = [left EXCEPT ![kind] = @ - n, !["total"] = @ - n]
    BY <1>2 DEF Spend
  <2>2. kind # "total" /\ kind \in Bound /\ "total" \in Bound
    BY DEF Bound, Disturbance
  <2>3. left[kind] \in Nat /\ left["total"] \in Nat /\ left[kind] >= n /\ left["total"] >= n
    BY <1>1, <1>2, <2>2 DEF Spend
  <2>4. left[kind] - n \in Nat /\ left["total"] - n \in Nat
    BY <2>3
  <2>5. \A k \in Bound : left'[k] = IF k \in {kind, "total"} THEN left[k] - n ELSE left[k]
    BY <1>1, <2>1, <2>2
  <2>6. left' \in [Bound -> Nat]
    BY <1>1, <2>1, <2>2, <2>4
  <2>7. \A k \in Bound : left'[k] <= left[k]
    BY <1>1, <2>2, <2>3, <2>5
  <2>8. \A k \in Disturbance \ {kind} : left'[k] = left[k]
    BY <2>5 DEF Bound, Disturbance
  <2>9. left'[kind] = left[kind] - n
    BY <2>2, <2>5
  <2>10. QED
    BY <2>3, <2>6, <2>7, <2>8, <2>9
<1>3. \A k \in Disturbance : left[k] \in Nat /\ Quota[k] \in Nat /\ left[k] <= Quota[k]
  BY <1>1 DEF Bound
<1>4. {"fault", "sync", "crash", "death", "cancel", "reboot", "user"} \subseteq Disturbance
  BY DEF Disturbance
<1>5. ASSUME NEW kind \in Disturbance, NEW n \in Nat, Spend(kind, n)
      PROVE  LeftSound'
  <2>1. \A k \in Bound : left'[k] \in Nat /\ left'[k] <= left[k] /\ left[k] <= Quota[k]
           /\ left[k] \in Nat /\ Quota[k] \in Nat
    BY <1>1, <1>2, <1>5
  <2>2. \A k \in Bound : left'[k] <= Quota[k]
    BY <2>1
  <2>3. left' \in [Bound -> Nat]
    BY <1>2, <1>5
  <2>4. QED
    BY <2>2, <2>3 DEF LeftSound
<1> USE DEF Orderly, NoDeath, Failed, NeverFailed, Used
<1>6. Spend("fault", 1) =>
         /\ Orderly' => Orderly /\ NeverFailed /\ Failed'
         /\ NoDeath' => NoDeath
  <2> SUFFICES ASSUME Spend("fault", 1)
               PROVE  /\ Orderly' => Orderly /\ NeverFailed /\ Failed'
                      /\ NoDeath' => NoDeath
    OBVIOUS
  <2>1. left'["fault"] = left["fault"] - 1 /\ left'["death"] = left["death"]
          /\ left'["crash"] = left["crash"] /\ left'["sync"] = left["sync"]
    BY <1>2, <1>4
  <2>2. QED
    BY <1>3, <1>4, <2>1
<1>7. ~(Spend("fault", 2) /\ Orderly')
  <2> SUFFICES ASSUME Spend("fault", 2), Orderly' PROVE FALSE
    OBVIOUS
  <2>1. left'["fault"] = left["fault"] - 2
    BY <1>2, <1>4
  <2>2. QED
    BY <1>3, <1>4, <2>1
<1>8. ASSUME NEW kind \in {"sync", "crash"}, Spend(kind, 1), Orderly'
      PROVE  FALSE
  <2>1. left'[kind] = left[kind] - 1
    BY <1>2, <1>4, <1>8
  <2>2. QED
    BY <1>3, <1>4, <1>8, <2>1
<1>9. ASSUME NEW kind \in Disturbance \ {"death"}, NEW n \in Nat, Spend(kind, n)
      PROVE  NoDeath' => NoDeath
  <2>1. left'["death"] = left["death"]
    BY <1>2, <1>4, <1>9
  <2>2. QED
    BY <2>1
<1>10. ~(Spend("death", 1) /\ NoDeath')
  <2> SUFFICES ASSUME Spend("death", 1), NoDeath' PROVE FALSE
    OBVIOUS
  <2>1. left'["death"] = left["death"] - 1
    BY <1>2, <1>4
  <2>2. QED
    BY <1>3, <1>4, <2>1
<1>11. ASSUME NEW kind \in {"death", "cancel", "reboot", "user"}, Spend(kind, 1)
       PROVE  (Orderly' => Orderly) /\ Failed' = Failed
  <2>1. kind \in Disturbance
    BY <1>4
  <2>2. left'["fault"] = left["fault"] /\ left'["crash"] = left["crash"]
          /\ left'["sync"] = left["sync"]
    BY <1>2, <1>4, <1>11, <2>1
  <2>3. QED
    BY <2>2
<1>12. UNCHANGED left =>
         /\ LeftSound'
         /\ Orderly' = Orderly
         /\ Failed' = Failed
         /\ NoDeath' = NoDeath
  BY <1>1 DEF LeftSound
<1>13. \A n \in {1, 2} : n \in Nat
  OBVIOUS
<1>14. \A kind \in {"cancel", "reboot", "user"} : Spend(kind, 1) =>
          /\ Orderly' => Orderly
          /\ Failed' = Failed
          /\ NoDeath' => NoDeath
  <2> SUFFICES ASSUME NEW kind \in {"cancel", "reboot", "user"}, Spend(kind, 1)
               PROVE  /\ Orderly' => Orderly
                      /\ Failed' = Failed
                      /\ NoDeath' => NoDeath
    OBVIOUS
  <2>1. kind \in Disturbance \ {"death"}
    BY <1>4
  <2>2. QED
    BY <1>9, <1>11, <1>13, <2>1
<1> HIDE DEF Orderly, NoDeath, Failed, NeverFailed, Used
<1>15. \A kind \in {"sync", "crash", "fault"} : kind \in Disturbance \ {"death"}
  BY DEF Disturbance
<1>16. QED
  BY <1>5, <1>6, <1>7, <1>8, <1>9, <1>10, <1>11, <1>12, <1>13, <1>14, <1>15


\* What IInv says that the tracking of children and of the anchor needs.
LEMMA Basics ==
    ASSUME IInv
    PROVE  /\ pc \in TakeoverPc \cup RestartPc => journal.exists /\ journal.boot = boot
           /\ pc \in InSession => journal.exists /\ mem.exists /\ mem.boot = journal.boot
           /\ pc \in {"begin", "save_state"} => ~journal.exists
           /\ pc \in UndoPc => (op = "interrupted" <=> journal.boot # boot)
           /\ pc \in UndoPc /\ op = "interrupted" =>
                 pc \in {"undo_dns", "undo_proxy", "clear"}
           /\ pc = "clear" /\ ~errs => host.fwd = own.fwd
           /\ journal.exists => journal.boot <= boot
           /\ live \in [Service -> SUBSET Pid] /\ mem \in State /\ journal \in State
           /\ host \in Host /\ boot \in Nat /\ errs \in BOOLEAN
BY DEF IInv, Safe, TypeOK, CopySound, SnapshotSound, TakeoverSound, UndoSound,
       FileSound, InSession, TakeoverPc, RestartPc, UndoPc

\* A child that was started, in the process table and in the copy.
LEMMA Started ==
    ASSUME live \in [Service -> SUBSET Pid], mem \in State,
           NEW s \in Service, NEW p \in Pid,
           live' = [live EXCEPT ![s] = @ \cup {p}],
           mem' = [mem EXCEPT !.pid[s] = p]
    PROVE  /\ live'[s] = live[s] \cup {p} /\ mem'.pid[s] = p
           /\ \A t \in Service \ {s} : live'[t] = live[t] /\ mem'.pid[t] = mem.pid[t]
           /\ mem'.pf = mem.pf /\ mem'.pfBefore = mem.pfBefore
BY DEF State

\* A child that was stopped, or died.
LEMMA Stopped ==
    ASSUME live \in [Service -> SUBSET Pid], NEW s \in Service, NEW p,
           live' = [live EXCEPT ![s] = @ \ {p}]
    PROVE  /\ live'[s] = live[s] \ {p}
           /\ \A t \in Service \ {s} : live'[t] = live[t]
           /\ \A t \in Service : live'[t] \subseteq live[t]
OBVIOUS

\* A rollback begins with a copy that knows of everything that was done.
LEMMA TracksRollback ==
    ASSUME IInv, AllTracks, pc \in TakeoverPc,
           pc' = "undo_dns", ~errs', UNCHANGED <<boot, journal, live, own, mem>>,
           host'.anchor = host.anchor, host'.pfOn = host.pfOn,
           Failed' \/ Tracks(journal)
    PROVE  AllTracks'
BY Basics DEF AllTracks, FileTracks, Tracks, Interrupted, BelongsToBoot, TakeoverTracks,
       UndoTracks, RestartTracks, OnlyFailure, InSession, TakeoverPc, UndoPc, RestartPc

\* A fork: the child is in memory, or had to be rolled back.
LEMMA TracksStart ==
    ASSUME IInv, LeftSound, AllTracks, Orderly', NEW s \in Service,
           NEW at \in TakeoverPc, NEW next \in TakeoverPc \ {at, "pf_verify"},
           at # "pf_verify",
           StartService(s, at, next),
           \/ s = "mihomo" /\ at = "mihomo" /\ next = "mihomo_save"
           \/ s = "broker" /\ at = "broker" /\ next = "broker_save"
           \/ s = "dnsmasq" /\ at = "dnsmasq" /\ next = "dnsmasq_save"
    PROVE  AllTracks'
<1>1. CASE ForkFails(s) /\ Rollback(FALSE) /\ UNCHANGED <<live, mem>>
  <2>1. Tracks(journal)
    BY DEF AllTracks, TakeoverTracks, Tracks, StartService, Service, TakeoverPc
  <2>2. pc \in TakeoverPc /\ pc' = "undo_dns" /\ ~errs' /\ host' = host
          /\ UNCHANGED <<boot, journal, live, own, mem>>
    BY <1>1 DEF StartService, Rollback
  <2>3. QED
    BY <2>1, <2>2, TracksRollback
<1>2. ASSUME NEW p \in FreshPid(s),
             live' = [live EXCEPT ![s] = @ \cup {p}],
             mem' = [mem EXCEPT !.pid[s] = p], Goto(next)
      PROVE  AllTracks'
  <2>1. p \in Pid
    BY <1>2 DEF FreshPid
  <2>2. /\ live'[s] = live[s] \cup {p} /\ mem'.pid[s] = p
        /\ \A t \in Service \ {s} : live'[t] = live[t] /\ mem'.pid[t] = mem.pid[t]
        /\ mem'.pf = mem.pf /\ mem'.pfBefore = mem.pfBefore
    BY <1>2, <2>1, Basics, Started
  <2>3. pc = at /\ pc' = next /\ UNCHANGED <<boot, journal, host, own>>
    BY <1>2 DEF StartService, Goto
  <2>4. QED
    BY <2>2, <2>3, Basics DEF AllTracks, FileTracks, Tracks, Interrupted,
       BelongsToBoot, TakeoverTracks, UndoTracks, RestartTracks, NothingRuns,
       InSession, TakeoverPc, UndoPc, RestartPc, Service
<1>3. QED
  BY <1>1, <1>2 DEF StartService

\* The record of a child that was just forked.
LEMMA TracksRecord ==
    ASSUME IInv, LeftSound, AllTracks, Orderly', NEW s \in Service,
           NEW at \in TakeoverPc, NEW next \in TakeoverPc,
           RecordService(s, at, next),
           \/ s = "mihomo" /\ at = "mihomo_save" /\ next \in {"broker", "dnsmasq"}
           \/ s = "broker" /\ at = "broker_save" /\ next = "alias_intent"
           \/ s = "dnsmasq" /\ at = "dnsmasq_save" /\ next = "pf"
    PROVE  AllTracks'
<1>1. CASE Saved(mem) /\ Goto(next)
  <2>1. pc = at /\ pc' = next /\ journal' = mem /\ UNCHANGED <<boot, live, host, own, mem>>
    BY <1>1 DEF RecordService, Goto, Saved
  <2>2. QED
    BY <2>1, Basics DEF AllTracks, FileTracks, Tracks, Interrupted,
       BelongsToBoot, TakeoverTracks, UndoTracks, RestartTracks, NothingRuns,
       InSession, TakeoverPc, UndoPc, RestartPc, Service
<1>2. CASE SaveFailed(mem) /\ Rollback(FALSE)
  <2>1. UNCHANGED journal /\ Failed'
    BY <1>2, Spending DEF SaveFailed
  <2>2. pc \in TakeoverPc /\ pc' = "undo_dns" /\ ~errs' /\ host' = host
          /\ UNCHANGED <<boot, journal, live, own, mem>>
    BY <1>2, <2>1 DEF RecordService, Rollback
  <2>3. QED
    BY <2>1, <2>2, TracksRollback
<1>3. CASE ~Alive(s, mem.pid[s]) /\ Rollback(FALSE) /\ UNCHANGED <<journal, left>>
  <2>1. pc = at /\ pc' = "undo_dns" /\ ~errs' /\ host' = host
          /\ UNCHANGED <<boot, journal, live, own, mem>>
    BY <1>3 DEF RecordService, Rollback
  <2>2. live[s] = {}
    BY <1>3, <2>1 DEF AllTracks, TakeoverTracks, Tracks, Alive
  <2>3. Tracks(journal)
    BY <2>1, <2>2 DEF AllTracks, TakeoverTracks, Tracks, Service, TakeoverPc
  <2>4. QED
    BY <2>1, <2>3, TracksRollback
<1>4. QED
  BY <1>1, <1>2, <1>3 DEF RecordService


\* A run that is orderly after a step was orderly before it.
LEMMA OrderlyBefore ==
    ASSUME LeftSound, Orderly',
           left' = left \/ \E kind \in Disturbance, n \in {1, 2} : Spend(kind, n)
    PROVE  Orderly
<1>1. CASE left' = left
  BY <1>1 DEF Orderly, Used
<1>2. ASSUME NEW kind \in Disturbance, NEW n \in {1, 2}, Spend(kind, n)
      PROVE  Orderly
  <2>1. n \in Nat /\ Quota \in [Bound -> Nat]
    BY ConstantsAssumption
  <2>2. left[kind] >= n /\ left' = [left EXCEPT ![kind] = @ - n, !["total"] = @ - n]
    BY <1>2 DEF Spend
  <2>3. \A k \in Disturbance : left'[k] <= left[k] /\ left'[k] \in Nat
           /\ left[k] \in Nat /\ Quota[k] \in Nat /\ left[k] <= Quota[k]
    BY <2>1, <2>2 DEF LeftSound, Bound, Disturbance
  <2>4. QED
    BY <2>3 DEF Orderly, Used, Disturbance
<1>3. QED
  BY <1>1, <1>2

\* A host command that has nothing to do with children or with PF.
LEMMA TracksCommand ==
    ASSUME IInv, AllTracks, pc \in {"forwarding", "alias", "dns", "proxy"},
           UNCHANGED <<boot, journal, live, own, mem>>,
           host'.anchor = host.anchor, host'.pfOn = host.pfOn,
           \/ pc' = "undo_dns" /\ ~errs'
           \/ pc = "forwarding" /\ pc' = "mihomo"
           \/ pc # "forwarding" /\ pc' \in {"dnsmasq", "proxy", "final"}
              /\ (pc' = "dnsmasq" <=> pc = "alias")
    PROVE  AllTracks'
<1>1. CASE pc' = "undo_dns" /\ ~errs'
  <2>1. Tracks(journal)
    BY DEF AllTracks, TakeoverTracks, Tracks, Service, TakeoverPc
  <2>2. QED
    BY <1>1, <2>1, TracksRollback DEF TakeoverPc
<1>2. CASE pc' # "undo_dns"
  BY <1>2, Basics DEF AllTracks, FileTracks, Tracks, Interrupted,
     BelongsToBoot, TakeoverTracks, UndoTracks, RestartTracks, NothingRuns,
     InSession, TakeoverPc, UndoPc, RestartPc, Service
<1>3. QED
  BY <1>1, <1>2

LEMMA TracksTakeover ==
    ASSUME IInv, LeftSound, TrackSound, Takeover
    PROVE  TrackSound'
<1> SUFFICES ASSUME Orderly' PROVE AllTracks'
  BY DEF TrackSound
<1>1. AllTracks
  <2>1. left' = left \/ \E kind \in Disturbance, n \in {1, 2} : Spend(kind, n)
    BY DEF Takeover, SaveInitialState, Cancel, EnableForwarding, StartMihomo,
           RecordMihomo, StartBroker, RecordBroker, StartDNSMasq, RecordDNSMasq,
           StartService, RecordService, RecordAliasIntent, AddAlias, LoadPF,
           VerifyPF, RecordDNSIntent, EnableDNS, EnableProxy, FinishStart,
           Saved, SaveFailed, CommandFailed, CommandDone, ForkFails,
           Disturbance
  <2>2. Orderly
    BY <2>1, OrderlyBefore
  <2>3. QED
    BY <2>2 DEF TrackSound
<1>2. CASE SaveInitialState
  <2>1. CASE Saved(mem) /\ Goto("forwarding") /\ UNCHANGED mem
    BY <1>1, <1>2, <2>1, Basics, ConstantsAssumption
       DEF SaveInitialState, Saved, Goto, AllTracks, FileTracks, Tracks, Interrupted,
           BelongsToBoot, TakeoverTracks, UndoTracks, RestartTracks, NothingRuns,
           InSession, TakeoverPc, UndoPc, RestartPc, Service, SnapshotSound, IInv, Safe
  <2>2. CASE SaveFailed(mem) /\ Return
    <3>1. UNCHANGED journal
      BY <2>2, Spending DEF SaveFailed
    <3>2. QED
      BY <1>1, <1>2, <2>2, <3>1, Basics
         DEF SaveInitialState, Return, AllTracks, FileTracks, Tracks, Interrupted,
             BelongsToBoot, TakeoverTracks, UndoTracks, RestartTracks, NothingRuns,
             InSession, TakeoverPc, UndoPc, RestartPc, Service
  <2>3. QED
    BY <1>2, <2>1, <2>2 DEF SaveInitialState
<1>3. CASE Cancel
  <2>1. pc \in TakeoverPc /\ pc \notin {"mihomo_save", "broker_save", "dnsmasq_save", "pf_verify"}
    BY <1>3 DEF Cancel, CancelPoint, TakeoverPc
  <2>2. Tracks(journal)
    BY <1>1, <2>1 DEF AllTracks, TakeoverTracks, Tracks, Service
  <2>3. QED
    BY <1>1, <1>3, <2>1, <2>2, TracksRollback DEF Cancel, Rollback
<1>4. CASE StartMihomo
  BY <1>1, <1>4, TracksStart DEF StartMihomo, Service, TakeoverPc
<1>5. CASE RecordMihomo
  BY <1>1, <1>5, TracksRecord DEF RecordMihomo, AfterMihomo, Service, TakeoverPc
<1>6. CASE StartBroker
  BY <1>1, <1>6, TracksStart DEF StartBroker, Service, TakeoverPc
<1>7. CASE RecordBroker
  BY <1>1, <1>7, TracksRecord DEF RecordBroker, Service, TakeoverPc
<1>8. CASE StartDNSMasq
  BY <1>1, <1>8, TracksStart DEF StartDNSMasq, Service, TakeoverPc
<1>9. CASE RecordDNSMasq
  BY <1>1, <1>9, TracksRecord DEF RecordDNSMasq, Service, TakeoverPc
<1>10. CASE EnableForwarding
  <2>1. /\ pc = "forwarding" /\ UNCHANGED <<boot, journal, live, own, mem>>
        /\ host'.anchor = host.anchor /\ host'.pfOn = host.pfOn
    BY <1>10, Basics DEF EnableForwarding, ForwardingSet, CommandDone, CommandFailed, Host
  <2>2. (pc' = "undo_dns" /\ ~errs') \/ pc' \in {"mihomo"}
    BY <1>10 DEF EnableForwarding, ForwardingSet, Goto, Rollback
  <2>3. QED
    BY <1>1, <2>1, <2>2, TracksCommand
<1>11. CASE AddAlias
  <2>1. /\ pc = "alias" /\ UNCHANGED <<boot, journal, live, own, mem>>
        /\ host'.anchor = host.anchor /\ host'.pfOn = host.pfOn
    BY <1>11, Basics DEF AddAlias, CommandDone, CommandFailed, Host
  <2>2. (pc' = "undo_dns" /\ ~errs') \/ pc' \in {"dnsmasq"}
    BY <1>11 DEF AddAlias, Goto, Rollback
  <2>3. QED
    BY <1>1, <2>1, <2>2, TracksCommand
<1>12. CASE EnableDNS
  <2>1. /\ pc = "dns" /\ UNCHANGED <<boot, journal, live, own, mem>>
        /\ host'.anchor = host.anchor /\ host'.pfOn = host.pfOn
    BY <1>12, Basics DEF EnableDNS, DNSEnabled, AfterDNS, CommandDone, CommandFailed, Host
  <2>2. (pc' = "undo_dns" /\ ~errs') \/ pc' \in {"proxy", "final"}
    BY <1>12 DEF EnableDNS, DNSEnabled, AfterDNS, Goto, Rollback
  <2>3. QED
    BY <1>1, <2>1, <2>2, TracksCommand
<1>13. CASE EnableProxy
  <2>1. /\ pc = "proxy" /\ UNCHANGED <<boot, journal, live, own, mem>>
        /\ host'.anchor = host.anchor /\ host'.pfOn = host.pfOn
    BY <1>13, Basics DEF EnableProxy, ProxyEnabled, CommandDone, CommandFailed, Host
  <2>2. (pc' = "undo_dns" /\ ~errs') \/ pc' \in {"final"}
    BY <1>13 DEF EnableProxy, ProxyEnabled, Goto, Rollback
  <2>3. QED
    BY <1>1, <2>1, <2>2, TracksCommand
<1>14. CASE LoadPF
  <2>1. CASE CommandDone(AnchorLoaded(~mem.pfBefore))
             /\ mem' = [mem EXCEPT !.pf = TRUE] /\ Goto("pf_verify")
    <3>1. /\ host'.pfOn = (host.pfOn \/ ~mem.pfBefore)
          /\ mem'.pf /\ mem'.pid = mem.pid /\ mem'.pfBefore = mem.pfBefore
          /\ pc = "pf" /\ pc' = "pf_verify"
      BY <1>14, <2>1, Basics DEF LoadPF, CommandDone, AnchorLoaded, Goto, State, Host
    <3>2. UNCHANGED <<boot, journal, live, own>>
      BY <1>14 DEF LoadPF
    <3>3. QED
      BY <1>1, <3>1, <3>2, Basics DEF AllTracks, FileTracks, Tracks, Interrupted,
         BelongsToBoot, TakeoverTracks, UndoTracks, RestartTracks, NothingRuns,
         InSession, TakeoverPc, UndoPc, RestartPc, Service
  <2>2. CASE Spend("fault", 1) /\ Rollback(FALSE) /\ UNCHANGED <<host, mem>>
    BY <1>1, <1>14, <2>2, TracksRollback, Spending DEF LoadPF, Rollback, TakeoverPc
  <2>3. CASE Spend("fault", 2)
    BY <2>3, Spending
  <2>4. QED
    BY <1>14, <2>1, <2>2, <2>3 DEF LoadPF
<1>15. CASE RecordAliasIntent
  <2>1. /\ mem'.pid = mem.pid /\ mem'.pf = mem.pf /\ mem'.pfBefore = mem.pfBefore
        /\ mem'.exists = mem.exists /\ mem'.boot = mem.boot
        /\ pc = "alias_intent" /\ UNCHANGED <<boot, live, host, own>>
    BY <1>15, Basics DEF RecordAliasIntent, State
  <2>2. CASE Saved(mem') /\ Goto("alias")
    BY <1>1, <2>1, <2>2, Basics DEF AllTracks, FileTracks, Tracks, Interrupted,
       BelongsToBoot, TakeoverTracks, UndoTracks, RestartTracks, NothingRuns,
       InSession, TakeoverPc, UndoPc, RestartPc, Service, Saved, Goto, State
  <2>3. CASE SaveFailed(mem') /\ Rollback(FALSE)
    <3>1. UNCHANGED journal /\ Failed'
      BY <2>3, Spending DEF SaveFailed
    <3>2. QED
      BY <1>1, <2>1, <2>3, <3>1, Basics DEF AllTracks, FileTracks, Tracks, Interrupted,
         BelongsToBoot, TakeoverTracks, UndoTracks, RestartTracks, NothingRuns,
         InSession, TakeoverPc, UndoPc, RestartPc, Service, Rollback, OnlyFailure
  <2>4. QED
    BY <1>15, <2>2, <2>3 DEF RecordAliasIntent
<1>16. CASE VerifyPF
  <2>1. pc = "pf_verify" /\ UNCHANGED <<boot, live, host, own, mem>>
    BY <1>16 DEF VerifyPF
  <2>2. CASE Saved(mem) /\ Goto(AfterPF)
    BY <1>1, <2>1, <2>2, Basics DEF AllTracks, FileTracks, Tracks, Interrupted,
       BelongsToBoot, TakeoverTracks, UndoTracks, RestartTracks, NothingRuns,
       InSession, TakeoverPc, UndoPc, RestartPc, Service, Saved, Goto, AfterPF, AfterDNS
  <2>3. CASE SaveFailed(mem) /\ Rollback(FALSE)
    <3>1. UNCHANGED journal /\ Failed'
      BY <2>3, Spending DEF SaveFailed
    <3>2. QED
      BY <1>1, <2>1, <2>3, <3>1, TracksRollback DEF Rollback, TakeoverPc
  <2>4. QED
    BY <1>16, <2>2, <2>3 DEF VerifyPF
<1>17. CASE RecordDNSIntent
  <2> DEFINE owned == [mem EXCEPT !.dns = "owned"]
  <2>1. /\ owned.pid = mem.pid /\ owned.pf = mem.pf /\ owned.pfBefore = mem.pfBefore
        /\ owned.exists = mem.exists /\ owned.boot = mem.boot
    BY Basics DEF State
  <2>2. pc = "dns_intent" /\ UNCHANGED <<boot, live, host, own>>
    BY <1>17 DEF RecordDNSIntent
  <2>3. \/ Saved(owned) /\ mem' = owned /\ Goto("dns")
        \/ SaveFailed(owned) /\ Rollback(FALSE) /\ UNCHANGED mem
    BY <1>17 DEF RecordDNSIntent
  <2> HIDE DEF owned
  <2>4. CASE Saved(owned) /\ mem' = owned /\ Goto("dns")
    BY <1>1, <2>1, <2>2, <2>4, Basics DEF AllTracks, FileTracks, Tracks, Interrupted,
       BelongsToBoot, TakeoverTracks, UndoTracks, RestartTracks, NothingRuns,
       InSession, TakeoverPc, UndoPc, RestartPc, Service, Saved, Goto
  <2>5. CASE SaveFailed(owned) /\ Rollback(FALSE) /\ UNCHANGED mem
    <3>1. UNCHANGED journal /\ Failed'
      BY <2>5, Spending DEF SaveFailed
    <3>2. QED
      BY <1>1, <2>2, <2>5, <3>1, TracksRollback DEF Rollback, TakeoverPc
  <2>6. QED
    BY <2>3, <2>4, <2>5
<1>18. CASE FinishStart
  BY <1>1, <1>18, Basics DEF FinishStart, Return, AllTracks, FileTracks, Tracks, Interrupted,
     BelongsToBoot, TakeoverTracks, UndoTracks, RestartTracks, NothingRuns,
     InSession, TakeoverPc, UndoPc, RestartPc, Service
<1>19. QED
  BY <1>2, <1>3, <1>4, <1>5, <1>6, <1>7, <1>8, <1>9, <1>10, <1>11, <1>12, <1>13,
     <1>14, <1>15, <1>16, <1>17, <1>18 DEF Takeover


\* An orderly run has at most one failure.
LEMMA FailsOnce == ~(NeverFailed /\ Failed)
BY DEF NeverFailed, Failed

\* A step of the clean-up that has nothing to do with children or with PF.
LEMMA TracksCleanup ==
    ASSUME IInv, AllTracks,
           pc \in {"undo_dns", "undo_proxy", "undo_alias", "undo_forwarding"},
           UNCHANGED <<boot, journal, live, own>>,
           host'.anchor = host.anchor, host'.pfOn = host.pfOn,
           host'.fwd = host.fwd \/ pc = "undo_forwarding",
           \/ pc' = "idle" /\ NeverFailed
           \/ /\ UNCHANGED mem
              /\ (errs' = errs /\ Failed' = Failed) \/ (errs' /\ NeverFailed)
              /\ \/ pc = "undo_dns" /\ pc' = "undo_proxy"
                 \/ pc = "undo_proxy" /\ pc' = AfterUndoProxy
                 \/ pc = "undo_alias" /\ pc' = "undo_broker"
                 \/ pc = "undo_forwarding" /\ pc' = "clear"
    PROVE  AllTracks'
<1>1. pc \in UndoPc /\ pc \in InSession /\ journal.exists
  BY Basics DEF UndoPc, InSession
<1>2. Interrupted <=> op = "interrupted"
  BY <1>1, Basics DEF Interrupted, BelongsToBoot
<1>3. UndoTracks
  BY DEF AllTracks
<1>4. FileTracks'
  BY <1>1, <1>2, Basics DEF AllTracks, FileTracks, NothingRuns, Interrupted,
     BelongsToBoot, InSession, UndoPc, TakeoverPc, RestartPc, AfterUndoProxy
<1>5. CASE pc' = "idle" /\ NeverFailed
  <2>1. Tracks(journal)
    BY <1>1, <1>3, <1>5, FailsOnce DEF UndoTracks, OnlyFailure
  <2>2. QED
    BY <1>4, <1>5, <2>1 DEF AllTracks, Tracks, TakeoverTracks, UndoTracks,
       RestartTracks, TakeoverPc, UndoPc, RestartPc
<1>6. CASE pc' # "idle"
  <2>1. pc' \in UndoPc /\ pc' \notin TakeoverPc \cup RestartPc
          /\ pc' \notin {"idle", "begin", "save_state"}
    BY <1>6 DEF UndoPc, TakeoverPc, RestartPc, AfterUndoProxy
  <2>2. Tracks(mem)' /\ (Tracks(journal) => Tracks(journal)')
    BY <1>1, <1>3, <1>6 DEF UndoTracks, Tracks
  <2>3. (Tracks(journal) \/ OnlyFailure)'
    BY <1>1, <1>3, <1>6, <2>2, FailsOnce DEF UndoTracks, OnlyFailure
  <2>4. ~errs' => ~errs
    BY <1>6
  <2>5. op = "interrupted" => NothingRuns
    BY <1>2 DEF AllTracks, FileTracks
  <2>6. UndoTracks'
    BY <1>1, <1>3, <1>6, <2>1, <2>2, <2>3, <2>4, <2>5
       DEF UndoTracks, AfterUndoProxy, NothingRuns, Service
  <2>7. QED
    BY <1>4, <2>1, <2>6 DEF AllTracks, TakeoverTracks, RestartTracks
<1>7. QED
  BY <1>5, <1>6 DEF AfterUndoProxy

\* A child is stopped in the clean-up, or a failure is noted.
LEMMA TracksUndoService ==
    ASSUME IInv, LeftSound, AllTracks, Orderly', NEW s \in Service, NEW at, NEW next,
           UndoService(s, at, next),
           \/ s = "dnsmasq" /\ at = "undo_dnsmasq" /\ next = "undo_alias"
           \/ s = "broker" /\ at = "undo_broker" /\ next = "undo_mihomo"
           \/ s = "mihomo" /\ at = "undo_mihomo" /\ next = "undo_pf"
    PROVE  AllTracks'
<1>1. pc = at /\ pc' = next /\ UNCHANGED <<boot, journal, host, own, mem>>
  BY DEF UndoService, Goto
<1>2. pc \in UndoPc /\ pc' \in UndoPc /\ journal.exists /\ ~Interrupted
        /\ pc' \notin TakeoverPc \cup RestartPc
        /\ pc' \notin {"idle", "begin", "save_state"}
  BY <1>1, Basics DEF UndoPc, TakeoverPc, RestartPc, InSession, Interrupted, BelongsToBoot
<1>3. UndoTracks
  BY DEF AllTracks
<1>4. FileTracks'
  BY <1>1, <1>2, Basics DEF AllTracks, FileTracks, Interrupted, BelongsToBoot,
     InSession, UndoPc, TakeoverPc, RestartPc
<1>5. CASE live' = [live EXCEPT ![s] = @ \ {mem.pid[s]}] /\ Goto(next) /\ UNCHANGED left
  <2>1. /\ live'[s] = live[s] \ {mem.pid[s]}
        /\ \A t \in Service : live'[t] \subseteq live[t]
    BY <1>5, Basics, Stopped
  <2>2. live'[s] = {}
    BY <1>2, <1>3, <2>1 DEF UndoTracks, Tracks
  <2>3. Tracks(mem)' /\ (Tracks(journal) => Tracks(journal)')
    BY <1>1, <1>2, <1>3, <2>1 DEF UndoTracks, Tracks
  <2>4. errs' = errs /\ Failed' = Failed
    BY <1>5, Spending DEF Goto
  <2>5. UndoTracks'
    BY <1>1, <1>2, <1>3, <2>1, <2>2, <2>3, <2>4
       DEF UndoTracks, OnlyFailure, Service
  <2>6. QED
    BY <1>2, <1>4, <2>5 DEF AllTracks, TakeoverTracks, RestartTracks
<1>6. CASE Spend("fault", 1) /\ pc' = next /\ errs' = TRUE /\ UNCHANGED <<live, op>>
  <2>1. Tracks(journal)
    BY <1>2, <1>3, <1>6, Spending, FailsOnce DEF UndoTracks, OnlyFailure
  <2>2. UndoTracks'
    BY <1>1, <1>2, <1>3, <1>6, <2>1 DEF UndoTracks, Tracks
  <2>3. QED
    BY <1>2, <1>4, <2>2 DEF AllTracks, TakeoverTracks, RestartTracks
<1>7. QED
  BY <1>5, <1>6 DEF UndoService

\* PF is restored, or this was the one failure and the state file stays.
LEMMA TracksUndoPF ==
    ASSUME IInv, LeftSound, AllTracks, Orderly', UndoPF
    PROVE  AllTracks'
<1>1. pc = "undo_pf" /\ pc' = "undo_forwarding" /\ UNCHANGED <<boot, journal, live, own, mem>>
  BY DEF UndoPF, UndoCommand, Goto
<1>2. pc \in UndoPc /\ pc' \in UndoPc /\ journal.exists /\ ~Interrupted
        /\ journal.boot = boot /\ pc \in InSession
        /\ pc' \notin TakeoverPc \cup RestartPc
        /\ pc' \notin {"idle", "begin", "save_state"}
  BY <1>1, Basics DEF UndoPc, TakeoverPc, RestartPc, InSession, Interrupted, BelongsToBoot
<1>3. UndoTracks /\ Tracks(mem)
  BY <1>2 DEF AllTracks, UndoTracks
<1>4. mem.pfBefore = own.pfOn /\ journal.pfBefore = own.pfOn
  BY <1>2 DEF AllTracks, FileTracks
<1>5. FileTracks'
  BY <1>1, <1>2, <1>4 DEF AllTracks, FileTracks, Interrupted, BelongsToBoot,
     InSession, UndoPc, TakeoverPc, RestartPc
<1>6. host.anchor \in BOOLEAN /\ host.pfOn \in BOOLEAN /\ mem.pf \in BOOLEAN
        /\ mem.pfBefore \in BOOLEAN
  BY Basics DEF Host, State
<1>7. own.pfOn \in BOOLEAN /\ (own.pfOn => host.pfOn) /\ (~mem.pf => host.pfOn = own.pfOn)
  BY <1>3, <1>4, <1>6 DEF Tracks
<1>8. /\ host'.anchor => host.anchor
      /\ host'.pfOn = host.pfOn \/ host'.pfOn = own.pfOn
  BY <1>4, <1>6, <1>7, Basics DEF UndoPF, UndoCommand, CommandDone, AnchorUnloaded,
     DisableRejected, Host
<1>9. Tracks(mem)' /\ (Tracks(journal) => Tracks(journal)')
  BY <1>1, <1>3, <1>7, <1>8 DEF Tracks
<1>10. \/ errs' = errs /\ UNCHANGED left
          /\ ~host'.anchor /\ host'.pfOn = own.pfOn
       \/ errs' /\ Spend("fault", 1)
       \/ errs' /\ UNCHANGED left /\ ~host'.anchor /\ host'.pfOn = own.pfOn
  <2>1. ~mem.pf => ~host.anchor /\ host.pfOn = own.pfOn
    BY <1>3, <1>7 DEF Tracks
  <2>2. CASE UndoCommand("undo_pf", "undo_forwarding", mem.pf,
              AnchorUnloaded(~mem.pfBefore),
              {host, AnchorUnloaded(FALSE), AnchorUnloaded(~mem.pfBefore),
               [host EXCEPT !.pfOn = @ /\ mem.pfBefore]})
    BY <1>4, <1>6, <1>7, <2>1, <2>2, Basics
       DEF UndoCommand, CommandDone, AnchorUnloaded, Host, Goto
  <2>3. CASE DisableRejected /\ IF mem.pf
          THEN host' = AnchorUnloaded(TRUE) /\ errs' = TRUE /\ UNCHANGED left
          ELSE UNCHANGED <<host, errs, left>>
    BY <1>4, <1>6, <1>7, <2>1, <2>3, Basics DEF AnchorUnloaded, Host, DisableRejected
  <2>4. QED
    BY <2>2, <2>3 DEF UndoPF
<1>11. ~errs' => ~errs /\ ~host'.anchor /\ host'.pfOn = own.pfOn
  BY <1>10
<1>12. ~errs => \A s \in Service : live[s] = {}
  BY <1>1, <1>2, <1>3 DEF UndoTracks, Service
<1>13. (Tracks(journal) \/ OnlyFailure)'
  <2>1. CASE errs' = errs /\ UNCHANGED left
    BY <1>2, <1>3, <1>9, <2>1, Spending DEF UndoTracks, OnlyFailure
  <2>2. CASE Spend("fault", 1)
    BY <1>2, <1>3, <1>9, <2>2, Spending, FailsOnce DEF UndoTracks, OnlyFailure
  <2>3. CASE ~host'.anchor /\ host'.pfOn = own.pfOn
    <3>1. CASE errs
      BY <1>2, <1>3, <1>9, <3>1 DEF UndoTracks, OnlyFailure
    <3>2. CASE ~errs
      BY <1>1, <1>12, <2>3, <3>2 DEF Tracks
    <3>3. QED
      BY <3>1, <3>2
  <2>4. QED
    BY <1>10, <2>1, <2>2, <2>3
<1>14. UndoTracks'
  BY <1>1, <1>2, <1>9, <1>11, <1>12, <1>13 DEF UndoTracks, Service
<1>15. QED
  BY <1>2, <1>5, <1>14 DEF AllTracks, TakeoverTracks, RestartTracks

\* The state file goes only when nothing is left to be tracked by it.
LEMMA TracksClear ==
    ASSUME IInv, LeftSound, AllTracks, Orderly', ClearState
    PROVE  AllTracks'
<1>1. pc = "clear" /\ UNCHANGED <<boot, live, host, own>>
  BY DEF ClearState
<1>2. pc \in UndoPc /\ UndoTracks /\ pc \in InSession
  BY <1>1 DEF AllTracks, UndoPc, InSession
<1>3. ~errs => NothingRuns /\ host.fwd = own.fwd
  BY <1>1, <1>2, Basics DEF UndoTracks, NothingRuns, Service
<1>4. journal' = journal /\ pc' = "idle" =>
         (Tracks(journal) => AllTracks')
  BY <1>1, Basics DEF AllTracks, FileTracks, Tracks, NothingRuns, Interrupted,
     BelongsToBoot, TakeoverTracks, UndoTracks, RestartTracks, InSession, TakeoverPc,
     UndoPc, RestartPc
<1>5. ASSUME journal' = Blank, ~errs, pc' \in {"idle", "begin"}
      PROVE  AllTracks'
  <2>1. NothingRuns' /\ ~journal'.exists /\ ~Interrupted'
    BY <1>1, <1>3, <1>5 DEF NothingRuns, Blank, Interrupted
  <2>2. Tracks(journal)'
    BY <2>1 DEF Tracks, NothingRuns
  <2>3. QED
    BY <1>5, <2>1, <2>2 DEF AllTracks, FileTracks, TakeoverTracks, UndoTracks,
       RestartTracks, InSession, TakeoverPc, UndoPc, RestartPc, Blank
<1>6. CASE errs /\ Return /\ UNCHANGED <<journal, left>>
  BY <1>2, <1>4, <1>6 DEF UndoTracks, OnlyFailure, Return
<1>7. CASE ~errs /\ journal' = Blank /\ pc' \in {"idle", "begin"}
  BY <1>5, <1>7
<1>8. CASE ~errs /\ Spend("fault", 1) /\ journal' \in {journal, Blank} /\ Return
  <2>1. Tracks(journal)
    BY <1>2, <1>8, Spending, FailsOnce DEF UndoTracks, OnlyFailure
  <2>2. QED
    BY <1>4, <1>5, <1>8, <2>1 DEF Return
<1>9. QED
  BY <1>6, <1>7, <1>8 DEF ClearState, Saved, Return

LEMMA TracksUndo ==
    ASSUME IInv, LeftSound, TrackSound, Undo
    PROVE  TrackSound'
<1> SUFFICES ASSUME Orderly' PROVE AllTracks'
  BY DEF TrackSound
<1>1. AllTracks
  <2>1. left' = left \/ \E kind \in Disturbance, n \in {1, 2} : Spend(kind, n)
    BY DEF Undo, UndoDNS, UndoProxy, UndoDNSMasq, UndoAlias, UndoBroker, UndoMihomo,
           UndoPF, UndoForwarding, UndoService, UndoCommand, ClearState, Saved,
           CommandFailed, CommandDone, Disturbance
  <2>2. Orderly
    BY <2>1, OrderlyBefore
  <2>3. QED
    BY <2>2 DEF TrackSound
<1>2. CASE UndoDNS
  <2>1. /\ pc = "undo_dns" /\ UNCHANGED <<boot, journal, live, own>>
        /\ host'.anchor = host.anchor /\ host'.pfOn = host.pfOn
        /\ host'.fwd = host.fwd
    BY <1>2, Basics DEF UndoDNS, DNSRestored, CommandDone, CommandFailed, Host, Return
  <2>2. \/ pc' = "idle" /\ NeverFailed
        \/ pc' = "undo_proxy" /\ UNCHANGED mem
           /\ errs' = errs /\ Failed' = Failed
    BY <1>2, Spending DEF UndoDNS, CommandDone, CommandFailed, Goto, Return
  <2>3. QED
    BY <1>1, <2>1, <2>2, TracksCleanup
<1>3. CASE UndoProxy
  <2>1. /\ pc = "undo_proxy" /\ UNCHANGED <<boot, journal, live, own>>
        /\ host'.anchor = host.anchor /\ host'.pfOn = host.pfOn
        /\ host'.fwd = host.fwd
    BY <1>3, Basics DEF UndoProxy, ProxyRestored, CommandDone, CommandFailed, Host, Return
  <2>2. \/ pc' = "idle" /\ NeverFailed
        \/ pc' = AfterUndoProxy /\ UNCHANGED mem
           /\ errs' = errs /\ Failed' = Failed
    BY <1>3, Spending DEF UndoProxy, CommandDone, CommandFailed, Goto, Return
  <2>3. QED
    BY <1>1, <2>1, <2>2, TracksCleanup
<1>4. CASE UndoDNSMasq
  BY <1>1, <1>4, TracksUndoService DEF UndoDNSMasq, Service
<1>5. CASE UndoBroker
  BY <1>1, <1>5, TracksUndoService DEF UndoBroker, Service
<1>6. CASE UndoMihomo
  BY <1>1, <1>6, TracksUndoService DEF UndoMihomo, Service
<1>7. CASE UndoAlias
  <2>1. /\ pc = "undo_alias" /\ UNCHANGED <<boot, journal, live, own, mem>>
        /\ host'.anchor = host.anchor /\ host'.pfOn = host.pfOn
        /\ host'.fwd = host.fwd
    BY <1>7, Basics DEF UndoAlias, UndoCommand, CommandDone, Host
  <2>2. /\ pc' = "undo_broker"
        /\ (errs' = errs /\ Failed' = Failed) \/ (errs' /\ NeverFailed)
    BY <1>7, Spending DEF UndoAlias, UndoCommand, CommandDone, Goto
  <2>3. QED
    BY <1>1, <2>1, <2>2, TracksCleanup
<1>8. CASE UndoForwarding
  <2>1. /\ pc = "undo_forwarding" /\ UNCHANGED <<boot, journal, live, own, mem>>
        /\ host'.anchor = host.anchor /\ host'.pfOn = host.pfOn
    BY <1>8, Basics DEF UndoForwarding, ForwardingSet, UndoCommand, CommandDone, Host
  <2>2. /\ pc' = "clear"
        /\ (errs' = errs /\ Failed' = Failed) \/ (errs' /\ NeverFailed)
    BY <1>8, Spending DEF UndoForwarding, UndoCommand, CommandDone, Goto
  <2>3. QED
    BY <1>1, <2>1, <2>2, TracksCleanup
<1>9. CASE UndoPF
  BY <1>1, <1>9, TracksUndoPF
<1>10. CASE ClearState
  BY <1>1, <1>10, TracksClear
<1>11. QED
  BY <1>2, <1>3, <1>4, <1>5, <1>6, <1>7, <1>8, <1>9, <1>10 DEF Undo


\* The facts of the restart that its steps share.
LEMMA TracksRestartEnds ==
    ASSUME IInv, AllTracks, pc \in RestartPc, pc' = "idle",
           UNCHANGED <<boot, own>>, host'.anchor = host.anchor, host'.pfOn = host.pfOn,
           journal'.exists, journal'.boot = journal.boot,
           journal'.pfBefore = journal.pfBefore, Tracks(journal)'
    PROVE  AllTracks'
BY Basics DEF AllTracks, FileTracks, Interrupted, BelongsToBoot, TakeoverTracks,
   UndoTracks, RestartTracks, InSession, TakeoverPc, UndoPc, RestartPc

\* A restart that goes on: only its engine has changed.
LEMMA TracksRestartGoes ==
    ASSUME IInv, AllTracks, pc \in RestartPc, pc' \in RestartPc,
           UNCHANGED <<boot, own>>, host'.anchor = host.anchor, host'.pfOn = host.pfOn,
           journal'.exists, journal'.boot = journal.boot,
           journal'.pfBefore = journal.pfBefore,
           mem'.pfBefore = mem.pfBefore, RestartTracks'
    PROVE  AllTracks'
BY Basics DEF AllTracks, FileTracks, Interrupted, BelongsToBoot, TakeoverTracks,
   UndoTracks, InSession, TakeoverPc, UndoPc, RestartPc

\* What the clean-up forgets is the engine and nothing else.
LEMMA Forgotten ==
    ASSUME NEW st \in State
    PROVE  /\ Forget(st).pid["mihomo"] = NoPid
           /\ Forget(st).pid["broker"] = st.pid["broker"]
           /\ Forget(st).pid["dnsmasq"] = st.pid["dnsmasq"]
           /\ Forget(st).pf = st.pf /\ Forget(st).pfBefore = st.pfBefore
           /\ Forget(st).exists = st.exists /\ Forget(st).boot = st.boot
           /\ Forget(st).proxy = st.proxy
BY DEF Forget, State, Service

LEMMA TracksRestart ==
    ASSUME IInv, LeftSound, TrackSound, Restart
    PROVE  TrackSound'
<1> SUFFICES ASSUME Orderly' PROVE AllTracks'
  BY DEF TrackSound
<1>1. AllTracks
  <2>1. left' = left \/ \E kind \in Disturbance, n \in {1, 2} : Spend(kind, n)
    BY DEF Restart, RestartReleaseDNS, RestartMark, RestartStop, RestartStart,
           RestartSave, RestartRestoreProxy, RestartKill, RestartReapplyDNS, ForkFails,
           Saved, SaveFailed, CommandFailed, CommandDone, Disturbance
  <2>2. Orderly
    BY <2>1, OrderlyBefore
  <2>3. QED
    BY <2>2 DEF TrackSound
<1>2. pc \in RestartPc /\ UNCHANGED <<boot, own>>
  BY DEF Restart, RestartReleaseDNS, RestartMark, RestartStop, RestartStart,
         RestartSave, RestartRestoreProxy, RestartKill, RestartReapplyDNS, RestartPc
<1>3. RestartTracks /\ Tracks(mem) /\ mem.pf = journal.pf
        /\ mem.pid["broker"] = journal.pid["broker"]
        /\ mem.pid["dnsmasq"] = journal.pid["dnsmasq"]
  BY <1>1, <1>2 DEF AllTracks, RestartTracks
<1>4. journal.exists /\ journal.boot = boot /\ mem.exists /\ mem.boot = boot
        /\ mem.pfBefore = journal.pfBefore
  BY <1>1, <1>2, Basics DEF AllTracks, FileTracks, InSession
<1>5. mem.pid["mihomo"] = journal.pid["mihomo"] => Tracks(journal)
  BY <1>3 DEF Tracks, Service
<1>6. CASE RestartReleaseDNS
  <2>1. pc = "restart_dns" /\ UNCHANGED <<journal, live>>
          /\ host'.anchor = host.anchor /\ host'.pfOn = host.pfOn
    BY <1>6, Basics DEF RestartReleaseDNS, DNSRestored, CommandDone, CommandFailed, Host
  <2>2. CASE Return
    <3>1. Tracks(journal)'
      BY <1>2, <1>3, <1>5, <2>1 DEF RestartTracks, Tracks
    <3>2. QED
      BY <1>1, <1>2, <1>4, <2>1, <2>2, <3>1, TracksRestartEnds DEF Return
  <2>3. CASE pc' = "restart_mark" /\ mem'.pid = mem.pid /\ mem'.pf = mem.pf
             /\ mem'.pfBefore = mem.pfBefore
    <3>1. RestartTracks'
      BY <1>2, <1>3, <2>1, <2>3 DEF RestartTracks, Tracks
    <3>2. QED
      BY <1>1, <1>2, <1>4, <2>1, <2>3, <3>1, TracksRestartGoes DEF RestartPc
  <2>4. QED
    BY <1>6, <2>2, <2>3, Basics DEF RestartReleaseDNS, Goto, State
<1>7. CASE RestartMark
  <2>1. pc = "restart_mark" /\ UNCHANGED <<live, host>>
    BY <1>7 DEF RestartMark
  <2>2. CASE Saved(Forget(mem)) /\ Goto("restart_stop") /\ UNCHANGED mem
    <3>1. journal' = Forget(mem) /\ pc' = "restart_stop" /\ mem' = mem
      BY <2>2 DEF Saved, Goto
    <3>2. RestartTracks'
      BY <1>2, <1>3, <2>1, <3>1, Forgotten, Basics DEF RestartTracks, Tracks
    <3>3. QED
      BY <1>1, <1>2, <1>4, <2>1, <3>1, <3>2, Forgotten, Basics, TracksRestartGoes
         DEF RestartPc
  <2>3. CASE SaveFailed(Forget(mem)) /\ Return
    <3>1. UNCHANGED journal
      BY <2>3, Spending DEF SaveFailed
    <3>2. Tracks(journal)'
      BY <1>2, <1>3, <1>5, <2>1, <3>1 DEF RestartTracks, Tracks
    <3>3. QED
      BY <1>1, <1>2, <1>4, <2>1, <2>3, <3>1, <3>2, TracksRestartEnds DEF Return
  <2>4. QED
    BY <1>7, <2>2, <2>3 DEF RestartMark
<1>8. CASE RestartStop
  <2> DEFINE old == mem.pid["mihomo"]
  <2>1. pc = "restart_stop" /\ UNCHANGED host
    BY <1>8 DEF RestartStop
  <2>2. CASE /\ live' = [live EXCEPT !["mihomo"] = @ \ {old}]
             /\ Goto("restart_start") /\ UNCHANGED <<journal, left, mem>>
    <3>1. /\ live'["mihomo"] = live["mihomo"] \ {old}
          /\ \A t \in Service : live'[t] \subseteq live[t]
      BY <2>2, Basics, Stopped DEF Service
    <3>2. live'["mihomo"] = {}
      BY <1>3, <3>1 DEF Tracks, Service
    <3>3. RestartTracks'
      BY <1>2, <1>3, <2>1, <2>2, <3>1, <3>2 DEF RestartTracks, Tracks, Goto
    <3>4. QED
      BY <1>1, <1>2, <1>4, <2>1, <2>2, <3>3, TracksRestartGoes DEF RestartPc, Goto
  <2>3. CASE Return /\ UNCHANGED live /\ Spend("fault", 1) /\ journal' = mem
    <3>1. Tracks(journal)'
      BY <1>2, <1>3, <2>1, <2>3 DEF Tracks
    <3>2. QED
      BY <1>1, <1>2, <1>4, <2>1, <2>3, <3>1, TracksRestartEnds DEF Return
  <2>4. CASE Spend("fault", 2)
    BY <2>4, Spending
  <2>5. QED
    BY <1>8, <2>2, <2>3, <2>4 DEF RestartStop
<1>9. CASE RestartStart
  <2>1. pc = "restart_start" /\ UNCHANGED <<journal, host>> /\ live["mihomo"] = {}
    BY <1>2, <1>3, <1>9 DEF RestartStart, RestartTracks
  <2>2. ASSUME NEW p \in FreshPid("mihomo"),
               live' = [live EXCEPT !["mihomo"] = @ \cup {p}],
               mem' = [mem EXCEPT !.pid["mihomo"] = p], Goto("restart_save")
        PROVE  AllTracks'
    <3>1. p \in Pid
      BY <2>2 DEF FreshPid
    <3>2. /\ live'["mihomo"] = live["mihomo"] \cup {p} /\ mem'.pid["mihomo"] = p
          /\ \A t \in Service \ {"mihomo"} : live'[t] = live[t] /\ mem'.pid[t] = mem.pid[t]
          /\ mem'.pf = mem.pf /\ mem'.pfBefore = mem.pfBefore
      BY <2>2, <3>1, Basics, Started DEF Service
    <3>3. RestartTracks'
      BY <1>2, <1>3, <2>1, <2>2, <3>2 DEF RestartTracks, Tracks, Goto, Service
    <3>4. QED
      BY <1>1, <1>2, <1>4, <2>1, <2>2, <3>2, <3>3, TracksRestartGoes DEF RestartPc, Goto
  <2>3. CASE mem' = Forget(mem) /\ Goto("restart_proxy") /\ UNCHANGED live
    <3>1. RestartTracks'
      BY <1>2, <1>3, <2>1, <2>3, Forgotten, Basics DEF RestartTracks, Tracks, Goto, Service
    <3>2. QED
      BY <1>1, <1>2, <1>4, <2>1, <2>3, <3>1, Forgotten, Basics, TracksRestartGoes
         DEF RestartPc, Goto
  <2>4. QED
    BY <1>9, <2>2, <2>3 DEF RestartStart
<1>10. CASE RestartSave
  <2>1. pc = "restart_save" /\ UNCHANGED <<live, host>>
    BY <1>10 DEF RestartSave
  <2>2. CASE journal' = mem /\ ((Goto("restart_reapply") /\ UNCHANGED mem) \/ Return)
    <3>1. CASE Return
      <4>1. Tracks(journal)'
        BY <1>2, <1>3, <2>1, <2>2 DEF Tracks
      <4>2. QED
        BY <1>1, <1>2, <1>4, <2>1, <2>2, <3>1, <4>1, TracksRestartEnds DEF Return
    <3>2. CASE Goto("restart_reapply") /\ UNCHANGED mem
      <4>1. RestartTracks'
        BY <1>2, <1>3, <2>1, <2>2, <3>2 DEF RestartTracks, Tracks, Goto
      <4>2. QED
        BY <1>1, <1>2, <1>4, <2>1, <2>2, <3>2, <4>1, TracksRestartGoes DEF RestartPc, Goto
    <3>3. QED
      BY <2>2, <3>1, <3>2
  <2>3. CASE SaveFailed(mem) /\ Goto("restart_proxy") /\ UNCHANGED mem
    <3>1. UNCHANGED journal /\ Failed'
      BY <2>3, Spending DEF SaveFailed
    <3>2. RestartTracks'
      BY <1>2, <1>3, <2>1, <2>3, <3>1 DEF RestartTracks, Tracks, Goto
    <3>3. QED
      BY <1>1, <1>2, <1>4, <2>1, <2>3, <3>1, <3>2, TracksRestartGoes DEF RestartPc, Goto
  <2>4. CASE /\ ~Alive("mihomo", mem.pid["mihomo"])
             /\ Goto("restart_proxy") /\ UNCHANGED <<journal, left, mem>>
    <3>1. live["mihomo"] = {}
      BY <1>3, <2>4 DEF Tracks, Alive, Service
    <3>2. RestartTracks'
      BY <1>2, <1>3, <2>1, <2>4, <3>1 DEF RestartTracks, Tracks, Goto
    <3>3. QED
      BY <1>1, <1>2, <1>4, <2>1, <2>4, <3>2, TracksRestartGoes DEF RestartPc, Goto
  <2>5. QED
    BY <1>10, <2>2, <2>3, <2>4 DEF RestartSave, Saved
<1>11. CASE RestartRestoreProxy
  <2>1. /\ pc = "restart_proxy" /\ pc' = "restart_kill" /\ UNCHANGED <<journal, live, mem>>
        /\ host'.anchor = host.anchor /\ host'.pfOn = host.pfOn
    BY <1>11, Basics DEF RestartRestoreProxy, ProxyRestored, CommandDone, CommandFailed,
       Goto, Host
  <2>2. Failed => Failed'
    BY <1>11, Spending, FailsOnce DEF RestartRestoreProxy, CommandDone, CommandFailed
  <2>3. RestartTracks'
    BY <1>2, <1>3, <2>1, <2>2 DEF RestartTracks, Tracks
  <2>4. QED
    BY <1>1, <1>2, <1>4, <2>1, <2>3, TracksRestartGoes DEF RestartPc
<1>12. CASE RestartKill
  <2> DEFINE new == mem.pid["mihomo"]
  <2>1. pc = "restart_kill" /\ UNCHANGED <<journal, host>> /\ Return
    BY <1>12 DEF RestartKill
  <2>2. live["mihomo"] = {} \/ Failed
    BY <1>2, <1>3, <2>1 DEF RestartTracks
  <2>3. CASE live' = [live EXCEPT !["mihomo"] = @ \ {new}]
    <3>1. /\ live'["mihomo"] = live["mihomo"] \ {new}
          /\ \A t \in Service : live'[t] \subseteq live[t]
      BY <2>3, Basics, Stopped DEF Service
    <3>2. live'["mihomo"] = {}
      BY <1>3, <3>1 DEF Tracks, Service
    <3>3. Tracks(journal)'
      BY <1>2, <1>3, <2>1, <3>1, <3>2 DEF Tracks, Service
    <3>4. QED
      BY <1>1, <1>2, <1>4, <2>1, <3>3, TracksRestartEnds DEF Return
  <2>4. CASE Alive("mihomo", new) /\ Spend("fault", 1)
    BY <2>2, <2>4, Spending, FailsOnce DEF Alive
  <2>5. QED
    BY <1>12, <2>3, <2>4 DEF RestartKill
<1>13. CASE RestartReapplyDNS
  <2>1. pc = "restart_reapply" /\ UNCHANGED <<journal, live>> /\ Return
          /\ host'.anchor = host.anchor /\ host'.pfOn = host.pfOn
    BY <1>13, Basics DEF RestartReapplyDNS, DNSEnabled, DNSRestored, CommandDone, Host
  <2>2. Tracks(journal)'
    BY <1>2, <1>3, <1>5, <2>1 DEF RestartTracks, Tracks
  <2>3. QED
    BY <1>1, <1>2, <1>4, <2>1, <2>2, TracksRestartEnds DEF Return
<1>14. QED
  BY <1>6, <1>7, <1>8, <1>9, <1>10, <1>11, <1>12, <1>13 DEF Restart

LEMMA TracksRequest ==
    ASSUME IInv, LeftSound, TrackSound, Request
    PROVE  TrackSound'
<1> SUFFICES ASSUME Orderly' PROVE AllTracks'
  BY DEF TrackSound
<1>1. UNCHANGED <<boot, journal, live, host, own, left>>
  BY DEF Request, BeginStart, RefuseStart, BeginStop, BeginReload, BeginRestart
<1>2. AllTracks
  BY <1>1, Spending DEF TrackSound
<1>3. CASE \E c \in Config : BeginStart(c)
  <2>1. ~journal.exists /\ pc' = "save_state" /\ mem'.pfBefore = host.pfOn
          /\ pc \in {"idle", "begin"}
    BY <1>3 DEF BeginStart, Captured
  <2>2. journal.pid = [s \in Service |-> NoPid] /\ ~journal.pf
    BY <1>2, <2>1 DEF AllTracks, FileTracks, Blank
  <2>3. NothingRuns
    <3>1. CASE pc = "idle"
      <4>1. \A s \in Service : live[s] \subseteq {NoPid} /\ live[s] \subseteq Pid
        BY <1>2, <2>2, <3>1, Basics DEF AllTracks, Tracks
      <4>2. QED
        BY <1>2, <2>2, <3>1, <4>1, ConstantsAssumption DEF AllTracks, Tracks, NothingRuns
    <3>2. QED
      BY <1>2, <2>1, <3>1 DEF AllTracks
  <2>4. QED
    BY <1>1, <1>2, <2>1, <2>3 DEF AllTracks, FileTracks, NothingRuns, Interrupted,
       BelongsToBoot, TakeoverTracks, UndoTracks, RestartTracks, InSession, TakeoverPc,
       UndoPc, RestartPc
<1>4. CASE RefuseStart
  <2>1. pc = "begin" /\ pc' = "idle"
    BY <1>4 DEF RefuseStart, Return
  <2>2. Tracks(journal)'
    BY <1>1, <1>2, <2>1 DEF AllTracks, NothingRuns, Tracks
  <2>3. QED
    BY <1>1, <1>2, <2>1, <2>2 DEF AllTracks, FileTracks, NothingRuns, Interrupted,
       BelongsToBoot, TakeoverTracks, UndoTracks, RestartTracks, InSession, TakeoverPc,
       UndoPc, RestartPc
<1>5. CASE BeginStop \/ BeginReload \/ BeginRestart
  <2>1. /\ pc = "idle" /\ journal.exists /\ mem' = journal /\ ~errs'
        /\ \/ pc' = "undo_dns"
           \/ pc' = "restart_dns"
    BY <1>5 DEF BeginStop, BeginReload, BeginRestart
  <2>2. Tracks(journal)' /\ Tracks(mem)'
    BY <1>1, <1>2, <2>1 DEF AllTracks, Tracks
  <2>3. QED
    BY <1>1, <1>2, <2>1, <2>2 DEF AllTracks, FileTracks, NothingRuns, Interrupted,
       BelongsToBoot, TakeoverTracks, UndoTracks, RestartTracks, InSession, TakeoverPc,
       UndoPc, RestartPc
<1>6. QED
  BY <1>3, <1>4, <1>5 DEF Request

LEMMA TracksEnvironment ==
    ASSUME IInv, LeftSound, TrackSound, Environment
    PROVE  TrackSound'
<1> SUFFICES ASSUME Orderly' PROVE AllTracks'
  BY DEF TrackSound
<1>1. AllTracks
  <2>1. left' = left \/ \E kind \in Disturbance, n \in {1, 2} : Spend(kind, n)
    BY DEF Environment, Crash, Reboot, UserSetsDNS, ServiceDies, Disturbance
  <2>2. Orderly
    BY <2>1, OrderlyBefore
  <2>3. QED
    BY <2>2 DEF TrackSound
<1>2. CASE Crash
  BY <1>2, Spending DEF Crash
<1>3. CASE Reboot
  <2>1. /\ boot' = boot + 1 /\ pc' = "idle" /\ UNCHANGED journal
        /\ \A s \in Service : live'[s] = {}
        /\ ~host'.anchor /\ host'.pfOn = own'.pfOn /\ host'.fwd = own'.fwd
    BY <1>3, Basics DEF Reboot, Return, Host, IInv, TypeOK
  <2>2. journal.exists => journal.boot # boot'
    BY <2>1, Basics DEF State
  <2>3. NothingRuns' /\ Tracks(journal)'
    BY <2>1 DEF NothingRuns, Tracks
  <2>4. QED
    BY <1>1, <2>1, <2>2, <2>3 DEF AllTracks, FileTracks, Interrupted,
       BelongsToBoot, TakeoverTracks, UndoTracks, RestartTracks, InSession, TakeoverPc,
       UndoPc, RestartPc
<1>4. CASE \E d \in UserDNS : UserSetsDNS(d)
  <2>1. /\ UNCHANGED <<boot, journal, live, pc, op, mem, errs>>
        /\ host'.anchor = host.anchor /\ host'.pfOn = host.pfOn /\ host'.fwd = host.fwd
        /\ own'.pfOn = own.pfOn /\ own'.fwd = own.fwd
    BY <1>4, Basics DEF UserSetsDNS, Host, IInv, TypeOK
  <2>2. Failed' = Failed
    BY <1>4, Spending DEF UserSetsDNS
  <2>3. /\ Tracks(journal)' = Tracks(journal) /\ Tracks(mem)' = Tracks(mem)
        /\ NothingRuns' = NothingRuns
    BY <2>1 DEF Tracks, NothingRuns
  <2>4. QED
    BY <1>1, <2>1, <2>2, <2>3 DEF AllTracks, FileTracks, Interrupted, OnlyFailure,
       BelongsToBoot, TakeoverTracks, UndoTracks, RestartTracks
<1>5. CASE \E s \in Service : ServiceDies(s)
  <2>1. PICK s \in Service : ServiceDies(s)
    BY <1>5
  <2>2. PICK p \in live[s] : live' = [live EXCEPT ![s] = @ \ {p}]
    BY <2>1 DEF ServiceDies
  <2>3. \A t \in Service : live'[t] \subseteq live[t]
    BY <2>2, Basics, Stopped
  <2>4. UNCHANGED <<boot, journal, host, own, pc, op, mem, errs>> /\ Failed' = Failed
    BY <2>1, Spending DEF ServiceDies
  <2>5. /\ Tracks(journal) => Tracks(journal)'
        /\ Tracks(mem) => Tracks(mem)'
        /\ NothingRuns => NothingRuns'
        /\ \A t \in Service : live[t] = {} => live'[t] = {}
    BY <2>3, <2>4 DEF Tracks, NothingRuns
  <2>6. FileTracks' /\ TakeoverTracks' /\ UndoTracks' /\ RestartTracks'
    BY <1>1, <2>4, <2>5 DEF AllTracks, FileTracks, Interrupted, OnlyFailure,
       BelongsToBoot, TakeoverTracks, UndoTracks, RestartTracks, Service
  <2>7. QED
    BY <1>1, <2>4, <2>5, <2>6 DEF AllTracks
<1>6. QED
  BY <1>2, <1>3, <1>4, <1>5 DEF Environment


\* Only four steps, a reboot and a death can end an engine.
LEMMA EngineEnds ==
    ASSUME IInv, LeftSound, Next, NoDeath'
    PROVE  \/ live["mihomo"] \subseteq live'["mihomo"]
           \/ pc \in {"undo_mihomo", "restart_kill"} /\ UNCHANGED host
           \/ pc = "restart_stop" /\ pc' = "restart_start" /\ UNCHANGED host
           \/ Reboot
<1>1. live \in [Service -> SUBSET Pid]
  BY Basics
<1>2. \A s \in Service : \A p : live' = [live EXCEPT ![s] = @ \cup {p}] =>
         live["mihomo"] \subseteq live'["mihomo"]
  BY <1>1 DEF Service
<1>3. \A s \in {"broker", "dnsmasq"} : \A p : live' = [live EXCEPT ![s] = @ \ {p}] =>
         live["mihomo"] \subseteq live'["mihomo"]
  BY <1>1 DEF Service
<1>4. CASE Takeover
  BY <1>2, <1>4 DEF Takeover, SaveInitialState, Cancel, EnableForwarding, StartMihomo,
     RecordMihomo, StartBroker, RecordBroker, StartDNSMasq, RecordDNSMasq, StartService,
     RecordService, RecordAliasIntent, AddAlias, LoadPF, VerifyPF, RecordDNSIntent,
     EnableDNS, EnableProxy, FinishStart, Service
<1>5. CASE Undo
  BY <1>3, <1>5 DEF Undo, UndoDNS, UndoProxy, UndoDNSMasq, UndoAlias, UndoBroker,
     UndoMihomo, UndoPF, UndoForwarding, UndoService, UndoCommand, ClearState
<1>6. CASE Restart
  BY <1>2, <1>6 DEF Restart, RestartReleaseDNS, RestartMark, RestartStop, RestartStart,
     RestartSave, RestartRestoreProxy, RestartKill, RestartReapplyDNS, Service, Goto
<1>7. CASE Request
  BY <1>7 DEF Request, BeginStart, RefuseStart, BeginStop, BeginReload, BeginRestart
<1>8. CASE Environment
  BY <1>8, Spending DEF Environment, Crash, UserSetsDNS, ServiceDies
<1>9. QED
  BY <1>4, <1>5, <1>6, <1>7, <1>8 DEF Next

\* DNS and the proxy are given to the gateway only where an engine has been
\* started.
LEMMA GatewayTakes ==
    ASSUME IInv, Next
    PROVE  /\ host'.dns = ManagedDNS =>
                 \/ host.dns = ManagedDNS
                 \/ pc \in {"dns", "restart_reapply"} /\ UNCHANGED live
           /\ host'.proxy => host.proxy \/ (pc = "proxy" /\ UNCHANGED live)
<1>1. host \in Host /\ mem.servers \in DNSSetting /\ ManagedDNS \notin UserDNS
        /\ host.dns \in DNSSetting
  BY Basics, ConstantsAssumption DEF State, Host
<1>2. CASE Takeover
  BY <1>1, <1>2 DEF Takeover, SaveInitialState, Cancel, EnableForwarding, StartMihomo,
     RecordMihomo, StartBroker, RecordBroker, StartDNSMasq, RecordDNSMasq, StartService,
     RecordService, RecordAliasIntent, AddAlias, LoadPF, VerifyPF, RecordDNSIntent,
     EnableDNS, EnableProxy, FinishStart, ForwardingSet, AnchorLoaded, DNSEnabled,
     ProxyEnabled, CommandDone, CommandFailed, Host
<1>3. CASE Undo
  BY <1>1, <1>3 DEF Undo, UndoDNS, UndoProxy, UndoDNSMasq, UndoAlias, UndoBroker,
     UndoMihomo, UndoPF, UndoForwarding, UndoService, UndoCommand, ClearState,
     DNSRestored, ProxyRestored, AnchorUnloaded, ForwardingSet, CommandDone,
     CommandFailed, Host
<1>4. CASE Restart
  BY <1>1, <1>4 DEF Restart, RestartReleaseDNS, RestartMark, RestartStop, RestartStart,
     RestartSave, RestartRestoreProxy, RestartKill, RestartReapplyDNS, DNSRestored,
     DNSEnabled, ProxyRestored, CommandDone, CommandFailed, Host
<1>5. CASE Request
  BY <1>5 DEF Request, BeginStart, RefuseStart, BeginStop, BeginReload, BeginRestart
<1>6. CASE Environment
  BY <1>1, <1>6 DEF Environment, Crash, Reboot, UserSetsDNS, ServiceDies, Host
<1>7. QED
  BY <1>2, <1>3, <1>4, <1>5, <1>6 DEF Next

\* Where an engine is said to have been started, it was.
LEMMA EngineBegins ==
    ASSUME IInv, Next, pc' \in EngineStarted
    PROVE  \/ /\ pc \in EngineStarted
              /\ pc' = "restart_save" =>
                    /\ pc = "restart_save" /\ UNCHANGED mem
                    /\ UNCHANGED live \/ \E s \in Service : ServiceDies(s)
           \/ mem'.pid["mihomo"] \in Pid /\ mem'.pid["mihomo"] \in live'["mihomo"]
<1>1. \A p : live' = [live EXCEPT !["mihomo"] = @ \cup {p}] /\ p \in Pid
              /\ mem' = [mem EXCEPT !.pid["mihomo"] = p]
         => mem'.pid["mihomo"] \in Pid /\ mem'.pid["mihomo"] \in live'["mihomo"]
  BY Basics, Started DEF Service
<1> USE DEF EngineStarted, TakeoverPc, Goto, Return, Rollback
<1>2. CASE Takeover
  BY <1>1, <1>2 DEF Takeover, SaveInitialState, Cancel, EnableForwarding, StartMihomo,
     RecordMihomo, StartBroker, RecordBroker, StartDNSMasq, RecordDNSMasq, StartService,
     RecordService, RecordAliasIntent, AddAlias, LoadPF, VerifyPF, RecordDNSIntent,
     EnableDNS, EnableProxy, FinishStart, FreshPid, AfterMihomo, AfterPF, AfterDNS
<1>3. CASE Undo
  BY <1>3 DEF Undo, UndoDNS, UndoProxy, UndoDNSMasq, UndoAlias, UndoBroker,
     UndoMihomo, UndoPF, UndoForwarding, UndoService, UndoCommand, ClearState,
     AfterUndoProxy
<1>4. CASE Restart
  BY <1>1, <1>4 DEF Restart, RestartReleaseDNS, RestartMark, RestartStop, RestartStart,
     RestartSave, RestartRestoreProxy, RestartKill, RestartReapplyDNS, FreshPid
<1>5. CASE Request
  BY <1>5 DEF Request, BeginStart, RefuseStart, BeginStop, BeginReload, BeginRestart
<1>6. CASE Environment
  BY <1>6 DEF Environment, Crash, Reboot, UserSetsDNS, ServiceDies
<1>7. QED
  BY <1>2, <1>3, <1>4, <1>5, <1>6 DEF Next

\* The file of an earlier boot becomes no file; it never becomes one of this.
LEMMA InterruptionEnds ==
    ASSUME IInv, Next, Interrupted
    PROVE  Interrupted' \/ ~journal'.exists
<1>1. journal.exists /\ journal.boot # boot /\ journal.boot <= boot
        /\ pc \notin TakeoverPc \cup RestartPc \cup {"begin", "save_state"}
        /\ journal.boot \in Nat /\ boot \in Nat
  BY Basics DEF Interrupted, BelongsToBoot, State
<1>2. CASE UNCHANGED <<journal, boot>>
  BY <1>2 DEF Interrupted, BelongsToBoot
<1>3. ~Takeover
  BY <1>1 DEF Takeover, SaveInitialState, Cancel, EnableForwarding, StartMihomo,
     RecordMihomo, StartBroker, RecordBroker, StartDNSMasq, RecordDNSMasq, StartService,
     RecordService, RecordAliasIntent, AddAlias, LoadPF, VerifyPF, RecordDNSIntent,
     EnableDNS, EnableProxy, FinishStart, TakeoverPc, CancelPoint
<1>4. ~Restart
  BY <1>1 DEF Restart, RestartReleaseDNS, RestartMark, RestartStop, RestartStart,
     RestartSave, RestartRestoreProxy, RestartKill, RestartReapplyDNS, RestartPc
<1>5. CASE Undo
  <2>1. Blank.exists = FALSE
    BY DEF Blank
  <2>2. UNCHANGED boot /\ (UNCHANGED journal \/ journal' = Blank)
    BY <1>5 DEF Undo, UndoDNS, UndoProxy, UndoDNSMasq, UndoAlias, UndoBroker,
       UndoMihomo, UndoPF, UndoForwarding, UndoService, UndoCommand, ClearState, Saved
  <2>3. QED
    BY <1>2, <2>1, <2>2
<1>6. CASE Request
  BY <1>2, <1>6 DEF Request, BeginStart, RefuseStart, BeginStop, BeginReload, BeginRestart
<1>7. CASE Environment
  <2>1. CASE Reboot
    BY <1>1, <2>1 DEF Reboot, Interrupted, BelongsToBoot
  <2>2. QED
    BY <1>2, <1>7, <2>1 DEF Environment, Crash, UserSetsDNS, ServiceDies
<1>8. QED
  BY <1>3, <1>4, <1>5, <1>6, <1>7 DEF Next


\* What IInv says about DNS and the proxy that the engine's presence needs.
LEMMA Servers ==
    ASSUME IInv
    PROVE  /\ host.dns = ManagedDNS => journal.exists
           /\ host.proxy => journal.exists /\ journal.proxy
           /\ pc \in InSession => mem.proxy = journal.proxy
           /\ pc \in {"undo_mihomo", "restart_stop", "restart_start", "restart_save",
                      "restart_proxy", "restart_kill"} => host.dns # ManagedDNS
           /\ pc = "undo_mihomo" => ~host.proxy
           /\ host.proxy \in BOOLEAN
BY DEF IInv, Safe, TypeOK, WriteAhead, DNSClaimed, ProxyClaimed, CopySound,
   TakeoverSound, UndoSound, InSession, UndoPc, RestartPc, Host

\* DNS that is the gateway's has an engine behind it.
LEMMA EngineBehindDNS ==
    ASSUME IInv, IInv', LeftSound, EngineSound, Next, NoDeath, NoDeath',
           host'.dns = ManagedDNS, ~Interrupted'
    PROVE  live'["mihomo"] # {}
<1>1. journal'.exists
  BY Servers DEF IInv, Safe, WriteAhead, DNSClaimed
<1>2. ~Interrupted
  BY <1>1, InterruptionEnds
<1>3. CASE host.dns = ManagedDNS
  <2>1. live["mihomo"] # {}
    BY <1>2, <1>3 DEF EngineSound
  <2>2. pc \notin {"undo_mihomo", "restart_stop", "restart_kill"}
    BY <1>3, Servers
  <2>3. ~Reboot
    <3>1. SUFFICES ASSUME Reboot PROVE FALSE
      OBVIOUS
    <3>2. journal' = journal /\ boot' = boot + 1 /\ journal.boot <= boot
            /\ journal.boot \in Nat /\ boot \in Nat
      BY <1>1, <3>1, Basics DEF Reboot, State
    <3>3. QED
      BY <1>1, <3>2 DEF Interrupted, BelongsToBoot
  <2>4. QED
    BY <2>1, <2>2, <2>3, EngineEnds
<1>4. CASE pc \in {"dns", "restart_reapply"} /\ UNCHANGED live
  BY <1>4 DEF EngineSound, EngineStarted, TakeoverPc
<1>5. QED
  BY <1>3, <1>4, GatewayTakes

\* A proxy that is on without an engine is about to be taken away.
LEMMA EngineBehindProxy ==
    ASSUME IInv, IInv', LeftSound, TrackSound, EngineSound, Next, NoDeath, NoDeath',
           Orderly, Orderly', host'.proxy, ~Interrupted'
    PROVE  live'["mihomo"] # {} \/ pc' \in {"restart_start", "restart_proxy"}
<1>1. journal'.exists
  BY DEF IInv, Safe, WriteAhead, ProxyClaimed
<1>2. ~Interrupted
  BY <1>1, InterruptionEnds
<1>3. ~Reboot
  <2>1. SUFFICES ASSUME Reboot PROVE FALSE
    OBVIOUS
  <2>2. journal' = journal /\ boot' = boot + 1 /\ journal.boot <= boot
          /\ journal.boot \in Nat /\ boot \in Nat
    BY <1>1, <2>1, Basics DEF Reboot, State
  <2>3. QED
    BY <1>1, <2>2 DEF Interrupted, BelongsToBoot
<1>4. CASE pc = "proxy" /\ UNCHANGED live
  BY <1>4 DEF EngineSound, EngineStarted, TakeoverPc
<1>5. CASE host.proxy /\ live["mihomo"] # {}
  <2>1. pc \notin {"undo_mihomo", "restart_kill"}
    BY <1>5, Servers DEF EngineSound
  <2>2. QED
    BY <1>3, <1>5, <2>1, EngineEnds
<1>6. CASE host.proxy /\ pc = "restart_start"
  <2>1. \/ RestartStart \/ Environment
    BY <1>6 DEF Next, Takeover, Undo, Restart, Request, SaveInitialState, Cancel,
       CancelPoint, EnableForwarding, StartMihomo, RecordMihomo, StartBroker, RecordBroker,
       StartDNSMasq, RecordDNSMasq, StartService, RecordService, RecordAliasIntent,
       AddAlias, LoadPF, VerifyPF, RecordDNSIntent, EnableDNS, EnableProxy, FinishStart,
       UndoDNS, UndoProxy, UndoDNSMasq, UndoAlias, UndoBroker, UndoMihomo, UndoPF,
       UndoForwarding, UndoService, UndoCommand, ClearState, RestartReleaseDNS,
       RestartMark, RestartStop, RestartSave, RestartRestoreProxy, RestartKill,
       RestartReapplyDNS, BeginStart, RefuseStart, BeginStop, BeginReload, BeginRestart
  <2>2. CASE RestartStart
    <3>1. pc' = "restart_proxy" \/ pc' = "restart_save"
      BY <2>2 DEF RestartStart, Goto
    <3>2. pc' = "restart_save" => mem'.pid["mihomo"] \in live'["mihomo"]
      BY <1>6, EngineBegins DEF EngineStarted, TakeoverPc
    <3>3. QED
      BY <3>1, <3>2
  <2>3. CASE Environment
    BY <1>3, <1>6, <2>3, Spending DEF Environment, Crash, UserSetsDNS, ServiceDies
  <2>4. QED
    BY <2>1, <2>2, <2>3
<1>7. CASE host.proxy /\ pc = "restart_proxy"
  <2>1. Failed /\ mem.proxy
    BY <1>7, Servers DEF EngineSound, InSession, RestartPc
  <2>2. \/ RestartRestoreProxy \/ Environment
    BY <1>7 DEF Next, Takeover, Undo, Restart, Request, SaveInitialState, Cancel,
       CancelPoint, EnableForwarding, StartMihomo, RecordMihomo, StartBroker, RecordBroker,
       StartDNSMasq, RecordDNSMasq, StartService, RecordService, RecordAliasIntent,
       AddAlias, LoadPF, VerifyPF, RecordDNSIntent, EnableDNS, EnableProxy, FinishStart,
       UndoDNS, UndoProxy, UndoDNSMasq, UndoAlias, UndoBroker, UndoMihomo, UndoPF,
       UndoForwarding, UndoService, UndoCommand, ClearState, RestartReleaseDNS,
       RestartMark, RestartStop, RestartSave, RestartStart, RestartKill,
       RestartReapplyDNS, BeginStart, RefuseStart, BeginStop, BeginReload, BeginRestart
  <2>3. CASE RestartRestoreProxy
    <3>1. CommandDone(ProxyRestored) \/ CommandFailed(ProxyRestored)
      BY <2>1, <2>3 DEF RestartRestoreProxy
    <3>2. ~CommandFailed(ProxyRestored)
      BY <2>1, Spending, FailsOnce DEF CommandFailed
    <3>3. QED
      BY <3>1, <3>2, Basics DEF CommandDone, ProxyRestored, Host
  <2>4. CASE Environment
    BY <1>3, <1>7, <2>4, Spending DEF Environment, Crash, UserSetsDNS, ServiceDies
  <2>5. QED
    BY <2>2, <2>3, <2>4
<1>8. QED
  BY <1>2, <1>4, <1>5, <1>6, <1>7, GatewayTakes DEF EngineSound

\* The ways into the two last stages of a restart that failed.
LEMMA RestartFails ==
    ASSUME IInv, LeftSound, Next, Orderly', NoDeath'
    PROVE  /\ pc' = "restart_proxy" =>
                 \/ pc = "restart_proxy" /\ Failed' = Failed /\ host'.proxy = host.proxy
                 \/ Failed'
                 \/ /\ pc = "restart_start" /\ FreshPid("mihomo") = {}
                    /\ UNCHANGED host
                 \/ pc = "restart_save" /\ ~Alive("mihomo", mem.pid["mihomo"])
           /\ pc' = "restart_kill" =>
                 \/ pc = "restart_kill" /\ host'.proxy = host.proxy
                 \/ /\ pc = "restart_proxy" /\ (host'.proxy => host.proxy)
                    /\ host'.proxy => NeverFailed \/ ~mem.proxy
<1> USE DEF Goto, Return, Rollback
<1>1. CASE Takeover
  BY <1>1 DEF Takeover, SaveInitialState, Cancel, EnableForwarding, StartMihomo,
     RecordMihomo, StartBroker, RecordBroker, StartDNSMasq, RecordDNSMasq, StartService,
     RecordService, RecordAliasIntent, AddAlias, LoadPF, VerifyPF, RecordDNSIntent,
     EnableDNS, EnableProxy, FinishStart, AfterMihomo, AfterPF, AfterDNS
<1>2. CASE Undo
  BY <1>2 DEF Undo, UndoDNS, UndoProxy, UndoDNSMasq, UndoAlias, UndoBroker,
     UndoMihomo, UndoPF, UndoForwarding, UndoService, UndoCommand, ClearState,
     AfterUndoProxy
<1>3. CASE RestartReleaseDNS \/ RestartMark \/ RestartReapplyDNS \/ RestartKill
  BY <1>3 DEF RestartReleaseDNS, RestartMark, RestartReapplyDNS, RestartKill
<1>4. CASE RestartStop
  BY <1>4, Spending DEF RestartStop
<1>5. CASE RestartStart
  BY <1>5, Spending DEF RestartStart, ForkFails
<1>6. CASE RestartSave
  BY <1>6, Spending DEF RestartSave, SaveFailed
<1>7. CASE RestartRestoreProxy
  <2>1. pc = "restart_proxy" /\ pc' = "restart_kill"
    BY <1>7 DEF RestartRestoreProxy
  <2>2. \/ ~mem.proxy /\ UNCHANGED host
        \/ host' = ProxyRestored
        \/ NeverFailed /\ host' \in {host, ProxyRestored}
    BY <1>7, Spending DEF RestartRestoreProxy, CommandDone, CommandFailed
  <2>3. ~ProxyRestored.proxy
    BY Basics DEF ProxyRestored, Host
  <2>4. QED
    BY <2>1, <2>2, <2>3
<1>8. CASE Request
  BY <1>8 DEF Request, BeginStart, RefuseStart, BeginStop, BeginReload, BeginRestart
<1>9. CASE Environment
  BY <1>9, Spending, Basics DEF Environment, Crash, Reboot, UserSetsDNS, ServiceDies, Host
<1>10. QED
  BY <1>1, <1>2, <1>3, <1>4, <1>5, <1>6, <1>7, <1>8, <1>9 DEF Next, Restart

\* What was orderly or without deaths after a step was so before it.
LEMMA Earlier ==
    ASSUME LeftSound, Next
    PROVE  LeftSound' /\ (Orderly' => Orderly) /\ (NoDeath' => NoDeath)
<1>1. left' = left \/ \E kind \in Disturbance, n \in {1, 2} : Spend(kind, n)
  <2>1. CASE Takeover
    BY <2>1 DEF Takeover, SaveInitialState, Cancel, EnableForwarding, StartMihomo,
       RecordMihomo, StartBroker, RecordBroker, StartDNSMasq, RecordDNSMasq,
       StartService, RecordService, RecordAliasIntent, AddAlias, LoadPF,
       VerifyPF, RecordDNSIntent, EnableDNS, EnableProxy, FinishStart,
       Saved, SaveFailed, CommandFailed, CommandDone, ForkFails, Disturbance
  <2>2. CASE Undo
    BY <2>2 DEF Undo, UndoDNS, UndoProxy, UndoDNSMasq, UndoAlias, UndoBroker, UndoMihomo,
       UndoPF, UndoForwarding, UndoService, UndoCommand, ClearState, Saved,
       CommandFailed, CommandDone, Disturbance
  <2>3. CASE Restart
    BY <2>3 DEF Restart, RestartReleaseDNS, RestartMark, RestartStop, RestartStart,
       RestartSave, RestartRestoreProxy, RestartKill, RestartReapplyDNS, ForkFails,
       Saved, SaveFailed, CommandFailed, CommandDone, Disturbance
  <2>4. CASE Request
    BY <2>4 DEF Request, BeginStart, RefuseStart, BeginStop, BeginReload, BeginRestart
  <2>5. CASE Environment
    BY <2>5 DEF Environment, Crash, Reboot, UserSetsDNS, ServiceDies, Disturbance
  <2>6. QED
    BY <2>1, <2>2, <2>3, <2>4, <2>5 DEF Next
<1>2. Orderly' => Orderly
  BY <1>1, OrderlyBefore
<1>3. CASE left' = left
  BY <1>2, <1>3, Spending
<1>4. ASSUME NEW kind \in Disturbance, NEW n \in {1, 2}, Spend(kind, n)
      PROVE  LeftSound' /\ (NoDeath' => NoDeath)
  <2>1. LeftSound'
    BY <1>4, Spending
  <2>2. left[kind] >= n /\ left' = [left EXCEPT ![kind] = @ - n, !["total"] = @ - n]
          /\ Quota \in [Bound -> Nat]
    BY <1>4, ConstantsAssumption DEF Spend
  <2>3. left'["death"] <= left["death"] /\ left["death"] <= Quota["death"]
          /\ left'["death"] \in Nat /\ left["death"] \in Nat /\ Quota["death"] \in Nat
    BY <2>2 DEF LeftSound, Bound, Disturbance
  <2>4. QED
    BY <2>1, <2>3 DEF NoDeath, Used
<1>5. QED
  BY <1>1, <1>2, <1>3, <1>4

LEMMA EngineStep ==
    ASSUME IInv, IInv', LeftSound, TrackSound, EngineSound, Next
    PROVE  EngineSound'
<1>1. pc' \in EngineStarted \/ host'.proxy => Pid # {}
  <2>1. pc' \in EngineStarted => Pid # {}
    BY EngineBegins DEF EngineSound
  <2>2. host'.proxy => Pid # {}
    BY GatewayTakes DEF EngineSound, EngineStarted, TakeoverPc
  <2>3. QED
    BY <2>1, <2>2
<1>2. ASSUME NoDeath'
      PROVE  /\ pc' \in EngineStarted => live'["mihomo"] # {}
             /\ pc' = "restart_save" => Alive("mihomo", mem.pid["mihomo"])'
             /\ host'.dns = ManagedDNS /\ ~Interrupted' => live'["mihomo"] # {}
  <2>1. NoDeath
    BY <1>2, Earlier
  <2>2. pc' \in EngineStarted => live'["mihomo"] # {}
    <3>1. SUFFICES ASSUME pc' \in EngineStarted, pc \in EngineStarted
                   PROVE  live'["mihomo"] # {}
      BY EngineBegins
    <3>2. live["mihomo"] # {} /\ pc \notin {"undo_mihomo", "restart_stop", "restart_kill"}
      BY <2>1, <3>1 DEF EngineSound, EngineStarted, TakeoverPc
    <3>3. ~Reboot
      BY <3>1 DEF Reboot, Return, EngineStarted, TakeoverPc
    <3>4. QED
      BY <1>2, <3>2, <3>3, EngineEnds
  <2>3. pc' = "restart_save" => Alive("mihomo", mem.pid["mihomo"])'
    <3>1. SUFFICES ASSUME pc' = "restart_save"
                   PROVE  mem'.pid["mihomo"] \in live'["mihomo"]
      BY DEF Alive
    <3>2. ~\E s \in Service : ServiceDies(s)
      BY <1>2, Spending DEF ServiceDies
    <3>3. QED
      BY <2>1, <3>1, <3>2, EngineBegins DEF EngineSound, EngineStarted, Alive
  <2>4. QED
    BY <1>2, <2>1, <2>2, <2>3, EngineBehindDNS
<1>3. ASSUME NoDeath', Orderly'
      PROVE  /\ host'.proxy /\ ~Interrupted' =>
                   live'["mihomo"] # {} \/ pc' \in {"restart_start", "restart_proxy"}
             /\ host'.proxy /\ pc' = "restart_proxy" => Failed'
             /\ pc' = "restart_kill" => ~host'.proxy
  <2>1. NoDeath /\ Orderly
    BY <1>3, Earlier
  <2>2. host'.proxy /\ pc' = "restart_proxy" => Failed'
    <3>1. SUFFICES ASSUME host'.proxy, pc' = "restart_proxy" PROVE Failed'
      OBVIOUS
    <3>2. CASE pc = "restart_proxy" /\ Failed' = Failed /\ host'.proxy = host.proxy
      BY <2>1, <3>1, <3>2 DEF EngineSound
    <3>3. CASE pc = "restart_start" /\ FreshPid("mihomo") = {} /\ UNCHANGED host
      <4>1. live["mihomo"] = {} /\ journal.pid["mihomo"] = NoPid
        BY <2>1, <3>3 DEF TrackSound, AllTracks, RestartTracks, RestartPc
      <4>2. Pid # {}
        BY <3>1, <3>3 DEF EngineSound
      <4>3. QED
        BY <3>3, <4>1, <4>2, ConstantsAssumption DEF FreshPid
    <3>4. CASE pc = "restart_save" /\ ~Alive("mihomo", mem.pid["mihomo"])
      BY <2>1, <3>4 DEF EngineSound
    <3>5. QED
      BY <1>3, <3>1, <3>2, <3>3, <3>4, RestartFails
  <2>3. pc' = "restart_kill" => ~host'.proxy
    <3>1. SUFFICES ASSUME pc' = "restart_kill", host'.proxy PROVE FALSE
      OBVIOUS
    <3>2. CASE pc = "restart_kill" /\ host'.proxy = host.proxy
      BY <2>1, <3>1, <3>2 DEF EngineSound
    <3>3. CASE pc = "restart_proxy" /\ host.proxy /\ (NeverFailed \/ ~mem.proxy)
      BY <2>1, <3>3, Servers, FailsOnce DEF EngineSound, InSession, RestartPc
    <3>4. QED
      BY <1>3, <3>1, <3>2, <3>3, RestartFails
  <2>4. QED
    BY <1>3, <2>1, <2>2, <2>3, EngineBehindProxy
<1>4. QED
  BY <1>1, <1>2, <1>3 DEF EngineSound

LEMMA InitClean == Init => Clean
<1> SUFFICES ASSUME Init PROVE Clean
  OBVIOUS
<1>1. LeftSound
  BY ConstantsAssumption DEF Init, LeftSound
<1>2. TrackSound
  BY DEF Init, TrackSound, AllTracks, FileTracks, Tracks, NothingRuns, Interrupted,
         TakeoverTracks, UndoTracks, RestartTracks, InSession, TakeoverPc, UndoPc,
         RestartPc, Blank
<1>3. EngineSound
  BY ConstantsAssumption
     DEF Init, EngineSound, EngineStarted, TakeoverPc, Interrupted, Blank
<1>4. QED
  BY <1>1, <1>2, <1>3 DEF Clean

LEMMA NextClean == IInv /\ IInv' /\ Clean /\ [Next]_vars => Clean'
<1> SUFFICES ASSUME IInv, IInv', Clean, [Next]_vars PROVE Clean'
  OBVIOUS
<1>1. CASE UNCHANGED vars
  BY <1>1 DEF Clean, LeftSound, TrackSound, AllTracks, FileTracks, Tracks, NothingRuns,
     Interrupted, BelongsToBoot, TakeoverTracks, UndoTracks, RestartTracks, OnlyFailure,
     Failed, Orderly, Used, NoDeath, EngineSound, Alive, vars
<1>2. CASE Next
  <2>1. LeftSound /\ TrackSound /\ EngineSound
    BY DEF Clean
  <2>2. TrackSound'
    BY <1>2, <2>1, TracksTakeover, TracksUndo, TracksRestart, TracksRequest,
       TracksEnvironment DEF Next
  <2>3. LeftSound' /\ EngineSound'
    BY <1>2, <2>1, Earlier, EngineStep
  <2>4. QED
    BY <2>2, <2>3 DEF Clean
<1>3. QED
  BY <1>1, <1>2

LEMMA InductiveClean == Spec => [](IInv /\ Clean)
<1>1. Init => IInv /\ Clean
  BY InitIInv, InitClean
<1>2. (IInv /\ Clean) /\ [Next]_vars => (IInv /\ Clean)'
  BY NextIInv, NextClean
<1>3. QED
  BY <1>1, <1>2, PTL DEF Spec

\* Without a state file nothing runs that a file would have to track.
LEMMA NothingLeft ==
    ASSUME IInv, Clean
    PROVE  StopLeavesNothing
<1> SUFFICES ASSUME Orderly
             PROVE  /\ Cardinality(live["mihomo"]) <= 1
                    /\ pc = "idle" /\ ~journal.exists =>
                          /\ \A s \in Service : live[s] = {}
                          /\ ~host.anchor /\ host.pfOn = own.pfOn /\ host.fwd = own.fwd
  BY DEF StopLeavesNothing
<1>1. AllTracks
  BY DEF Clean, TrackSound
<1>2. Cardinality(live["mihomo"]) <= 1
  <2>1. \E p : live["mihomo"] \subseteq {p}
    <3>1. pc \in {"idle", "begin", "save_state"} \cup TakeoverPc \cup UndoPc \cup RestartPc
      BY DEF IInv, TypeOK, Stage
    <3>2. QED
      BY <1>1, <3>1 DEF AllTracks, NothingRuns, TakeoverTracks, UndoTracks, RestartTracks,
         Tracks, Service
  <2>2. PICK p : live["mihomo"] \subseteq {p}
    BY <2>1
  <2>3. IsFiniteSet({p}) /\ Cardinality({p}) = 1
    BY FS_Singleton
  <2>4. Cardinality(live["mihomo"]) \in Nat /\ Cardinality(live["mihomo"]) <= 1
    BY <2>2, <2>3, FS_Subset, FS_CardinalityType
  <2>5. QED
    BY <2>4
<1>3. ASSUME pc = "idle", ~journal.exists
      PROVE  /\ \A s \in Service : live[s] = {}
             /\ ~host.anchor /\ host.pfOn = own.pfOn /\ host.fwd = own.fwd
  <2>1. journal.pid = [s \in Service |-> NoPid] /\ ~journal.pf
    BY <1>1, <1>3 DEF AllTracks, FileTracks, Blank
  <2>2. Tracks(journal)
    BY <1>1, <1>3 DEF AllTracks
  <2>3. \A s \in Service : live[s] \subseteq {NoPid} /\ live[s] \subseteq Pid
    BY <2>1, <2>2, Basics DEF Tracks
  <2>4. \A s \in Service : live[s] = {}
    BY <2>3, ConstantsAssumption
  <2>5. host.fwd = own.fwd
    BY <1>3 DEF IInv, Safe, WriteAhead, ForwardingClaimed
  <2>6. QED
    BY <2>1, <2>2, <2>4, <2>5 DEF Tracks
<1>4. QED
  BY <1>2, <1>3

\* In an orderly run two engines never run at once, and when the state file is
\* gone nothing of the gateway is left on the host: start, rollback, stop,
\* reload and restart keep track of every child and of the anchor.
THEOREM NothingIsLeft == Spec => []StopLeavesNothing
BY InductiveClean, NothingLeft, PTL

\* While DNS is the gateway's, there is an engine to answer.
LEMMA NeverDangling == IInv /\ Clean => DNSNeverDangling
BY DEF DNSNeverDangling, Clean, EngineSound, NoDeath

\* The Mac's DNS and, in orderly runs at rest, its proxy have an engine behind
\* them as long as no engine dies by itself.
THEOREM DNSHasAnEngine == Spec => []DNSNeverDangling
BY InductiveClean, NeverDangling, PTL
=============================================================================
