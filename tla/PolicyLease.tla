----------------------------- MODULE PolicyLease -----------------------------
(***************************************************************************)
(* The policy workspace lease (internal/controlapi/policy_workspace.go and *)
(* policy_workspace_helper.go).                                            *)
(*                                                                         *)
(* The control service holds one connection to the root helper for as long *)
(* as it works with policies, and makes its requests over others. The      *)
(* helper counts the connections that hold; requests need a holder, and    *)
(* when the last one goes the helper stops the prepared engine, retrying   *)
(* while another program has the lifecycle lock. One mutex orders leases,  *)
(* requests and the gateway actions of the helper; a release lets go of it *)
(* between two attempts. PreparedEngine has the inside of preparing and    *)
(* stopping: here each is one step that works or fails.                    *)
(***************************************************************************)
EXTENDS Naturals, FiniteSets

CONSTANTS
    Conn,      \* connections that hold the lease
    Call,      \* connections that carry one request
    None,      \* no connection
    Attempts,  \* how often a release tries to stop the engine
    Allowance  \* how often each disturbance may happen

Bound == {"fault", "late", "service", "helper", "transition"}

ASSUME PolicyLeaseAssumption ==
    /\ IsFiniteSet(Conn) /\ None \notin Conn \cup Call
    /\ Attempts \in Nat \ {0}
    /\ Allowance \in [Bound -> Nat]

VARIABLES
    service,  \* the control service: its life and policyWorkspaceLease.closer
    request,  \* the request that has lifecycleMu: where it is, its connection
    answer,   \* what the last request was answered
    helper,   \* "up", "closing" after its context ended, or "down"
    far,      \* the helper's side of each lease connection
    tries,    \* failed attempts of its release
    holders,  \* helperPolicyLeases.holders
    call,     \* the helper's side of each request
    lock,     \* who has the runtime lifecycle lock and, in the helper, mu
    engine,   \* the prepared engine runs
    runtime,  \* a gateway runtime exists
    pending,  \* a release has given up: "cleanup remains pending"
    budget    \* disturbances that may still happen

control == <<service, request, answer>>
leases == <<far, tries, holders>>
policyVars == <<control, helper, leases, call, lock, engine, runtime, pending, budget>>

PolicyInit ==
    /\ service = [is |-> "up", closer |-> None]
    /\ request = [at |-> "idle", on |-> None] /\ answer = "none"
    /\ helper = "up"
    /\ far = [c \in Conn |-> "none"] /\ tries = [c \in Conn |-> 0] /\ holders = 0
    /\ call = [k \in Call |-> "none"] /\ lock = None
    /\ engine = FALSE /\ runtime \in BOOLEAN /\ pending = FALSE
    /\ budget = Allowance

-----------------------------------------------------------------------------
Afford(kind) == budget[kind] > 0 /\ budget' = [budget EXCEPT ![kind] = @ - 1]

Free == lock = None
\* The helper's mutex is free: another program's lifecycle lock is not it.
MutexFree == lock \in {None, "other"}
\* The near end of a lease connection is open: hold waits on it or has kept it.
Near(c) == service.closer = c \/ (request.at = "hold" /\ request.on = c)

Answered(with) ==
    answer' = with /\ request' = [at |-> "idle", on |-> None]

\* A near end that closes has nothing more to learn from the helper's side.
Forgotten == [c \in Conn |-> IF far[c] = "gone" THEN "none" ELSE far[c]]

\* Mutant: reset is left out, as for an error that is only reported.
ResetNot == UNCHANGED <<service, far>>

\* reset: a failed request drops the lease, so that the next one dials again.
Reset == service' = [service EXCEPT !.closer = None] /\ far' = Forgotten

-----------------------------------------------------------------------------
(* The control service.                                                    *)

\* handlePolicyWorkspace, up to hold: a kept connection is used unseen.
Ask ==
    /\ service.is = "up" /\ request.at = "idle"
    /\ request' = [at |-> IF service.closer = None THEN "dial" ELSE "call", on |-> None]
    /\ answer' = "none"
    /\ UNCHANGED <<service, helper, leases, call, lock, engine, runtime, pending, budget>>

\* HoldPolicyWorkspace: the request is on its way to a handler of the helper.
Dial ==
    /\ service.is = "up" /\ request.at = "dial"
    /\ \/ /\ helper = "up"
          /\ \E c \in {d \in Conn : far[d] = "none"} :
                /\ request' = [at |-> "hold", on |-> c]
                /\ far' = [far EXCEPT ![c] = "asked"]
          /\ UNCHANGED answer
       \/ /\ helper # "up"
          /\ Answered("error") /\ UNCHANGED far
    /\ UNCHANGED <<service, helper, tries, holders, call, lock, engine, runtime, pending, budget>>

\* The helper's OK is read and the connection kept.
Held ==
    /\ request.at = "hold" /\ far[request.on] = "held"
    /\ service' = [service EXCEPT !.closer = request.on]
    /\ request' = [at |-> "call", on |-> None]
    /\ UNCHANGED <<answer, helper, leases, call, lock, engine, runtime, pending, budget>>

\* The ten seconds are over, or the helper has gone: the connection is closed.
\* The helper may count it all the same, and finds it closed afterwards.
NotHeld ==
    /\ request.at = "hold"
    /\ \/ Afford("late")
       \/ far[request.on] \in {"none", "gone"} /\ UNCHANGED budget
    /\ Answered("error")
    /\ far' = Forgotten
    /\ UNCHANGED <<service, helper, tries, holders, call, lock, engine, runtime, pending>>

\* HelperClient.call: the workspace request itself.
Send ==
    /\ service.is \in {"up", "closed"} /\ request.at = "call"
    /\ \/ /\ helper = "up"
          /\ \E k \in {j \in Call : call[j] = "none"} :
                /\ request' = [at |-> "wait", on |-> k]
                /\ call' = [call EXCEPT ![k] = "asked"]
          /\ UNCHANGED <<service, answer, far>>
       \/ /\ helper # "up"
          /\ Answered("error") /\ Reset /\ UNCHANGED call
    /\ UNCHANGED <<helper, tries, holders, lock, engine, runtime, pending, budget>>

\* The response. Any error, its own included, drops the lease.
Receive ==
    /\ request.at = "wait" /\ call[request.on] \in {"ok", "error", "gone"}
    /\ call' = [call EXCEPT ![request.on] = "none"]
    /\ IF call[request.on] = "ok"
       THEN Answered("ok") /\ UNCHANGED <<service, far>>
       ELSE Answered("error") /\ Reset
    /\ UNCHANGED <<helper, tries, holders, lock, engine, runtime, pending, budget>>

\* The browser leaves or the time is up: the call's connection closes and the
\* helper goes on with what it was asked.
GiveUp ==
    /\ request.at = "wait" /\ call[request.on] \in {"asked", "running"}
    /\ Afford("late") /\ Answered("error") /\ Reset
    /\ UNCHANGED <<helper, tries, holders, call, lock, engine, runtime, pending>>

\* Close, deferred by Serve: a hold in progress has the mutex and is waited for.
Close ==
    /\ service.is = "up" /\ request.at \notin {"dial", "hold"}
    /\ Afford("service") /\ service' = [is |-> "closed", closer |-> None]
    /\ far' = Forgotten
    /\ UNCHANGED <<request, answer, helper, tries, holders, call, lock, engine, runtime, pending>>

\* The process ends, after Close or by a crash, with all its connections.
ServiceEnds ==
    /\ \/ service.is = "closed" /\ UNCHANGED budget
       \/ service.is = "up" /\ Afford("service")
    /\ service' = [is |-> "down", closer |-> None] /\ Answered("none")
    /\ far' = Forgotten
    /\ call' = [k \in Call |-> IF call[k] \in {"ok", "error", "gone"} THEN "none" ELSE call[k]]
    /\ UNCHANGED <<helper, tries, holders, lock, engine, runtime, pending>>

ServiceStarts ==
    /\ service.is = "down" /\ service' = [is |-> "up", closer |-> None]
    /\ UNCHANGED <<request, answer, helper, leases, call, lock, engine, runtime, pending, budget>>

-----------------------------------------------------------------------------
(* The helper.                                                             *)

\* acquire, in servePolicyWorkspaceLease.
Acquire(c) ==
    /\ far[c] = "asked" /\ MutexFree
    /\ far' = [far EXCEPT ![c] = "held"] /\ holders' = holders + 1
    /\ UNCHANGED <<control, helper, tries, call, lock, engine, runtime, pending, budget>>

\* The copy loop ends, or the helper's context.
Disconnected(c) ==
    /\ far[c] = "held" /\ (~Near(c) \/ helper = "closing")
    /\ far' = [far EXCEPT ![c] = "leaving"]
    /\ UNCHANGED <<control, helper, tries, holders, call, lock, engine, runtime, pending, budget>>

\* A connection whose handler has returned: the near end may not know yet.
Gone(c) == IF Near(c) THEN "gone" ELSE "none"

\* StopPrepared wants the lifecycle lock; its own steps may fail as well.
StopWorks == lock # "other" /\ engine' = FALSE /\ UNCHANGED budget
StopFails ==
    /\ UNCHANGED engine
    /\ \/ lock = "other" /\ UNCHANGED budget
       \/ Afford("fault")

Attempt(c, n) ==
    \/ StopWorks /\ far' = [far EXCEPT ![c] = Gone(c)] /\ tries' = [tries EXCEPT ![c] = 0]
    \/ StopFails /\ far' = [far EXCEPT ![c] = "retry"] /\ tries' = [tries EXCEPT ![c] = n + 1]

\* release, until it first lets go of the mutex.
Leave(c) ==
    /\ far[c] = "leaving" /\ MutexFree
    /\ holders' = holders - 1
    /\ IF holders' # 0
       THEN far' = [far EXCEPT ![c] = Gone(c)] /\ UNCHANGED <<tries, engine, budget>>
       ELSE Attempt(c, 0)
    /\ UNCHANGED <<control, helper, call, lock, runtime, pending>>

\* Mutant: a holder that came between two attempts is not looked for.
RetryBlind(c) ==
    /\ far[c] = "retry" /\ MutexFree
    /\ \/ tries[c] < Attempts /\ Attempt(c, tries[c]) /\ UNCHANGED pending
       \/ /\ tries[c] = Attempts /\ pending' = TRUE
          /\ far' = [far EXCEPT ![c] = Gone(c)] /\ tries' = [tries EXCEPT ![c] = 0]
          /\ UNCHANGED <<engine, budget>>
    /\ UNCHANGED <<control, helper, holders, call, lock, runtime>>

\* A quarter of a second later: a new holder has taken over, or the next
\* attempt, or none is left and the engine stays.
Retry(c) ==
    /\ far[c] = "retry" /\ MutexFree
    /\ \/ /\ holders > 0
          /\ far' = [far EXCEPT ![c] = Gone(c)] /\ tries' = [tries EXCEPT ![c] = 0]
          /\ UNCHANGED <<engine, pending, budget>>
       \/ holders = 0 /\ tries[c] < Attempts /\ Attempt(c, tries[c]) /\ UNCHANGED pending
       \/ /\ holders = 0 /\ tries[c] = Attempts /\ pending' = TRUE
          /\ far' = [far EXCEPT ![c] = Gone(c)] /\ tries' = [tries EXCEPT ![c] = 0]
          /\ UNCHANGED <<engine, budget>>
    /\ UNCHANGED <<control, helper, holders, call, lock, runtime>>

Finished(k, with) ==
    call' = [call EXCEPT ![k] = IF request.at = "wait" /\ request.on = k THEN with ELSE "none"]

\* run: no holder and no lifecycle lock are errors. Otherwise the mutex and the
\* lock are kept; without a gateway the engine is prepared first, which may fail.
Run(k) ==
    /\ call[k] = "asked" /\ MutexFree
    /\ \/ /\ holders = 0 \/ lock = "other"
          /\ Finished(k, "error") /\ UNCHANGED <<lock, engine, budget>>
       \/ /\ holders > 0 /\ Free /\ lock' = k
          /\ call' = [call EXCEPT ![k] = "running"]
          /\ engine' = (engine \/ ~runtime) /\ UNCHANGED budget
       \/ /\ holders > 0 /\ Free /\ ~runtime /\ Afford("fault")
          /\ engine' \in BOOLEAN /\ Finished(k, "error") /\ UNCHANGED lock
    /\ UNCHANGED <<control, helper, leases, runtime, pending>>

Done(k) ==
    /\ call[k] = "running" /\ lock' = None
    /\ \/ Finished(k, "ok") /\ UNCHANGED budget
       \/ Finished(k, "error") /\ Afford("fault")
    /\ UNCHANGED <<control, helper, leases, engine, runtime, pending>>

\* start and stop through the helper keep the mutex and the lock to their end;
\* both stop the prepared engine first.
Transition ==
    /\ helper = "up" /\ Free /\ Afford("transition")
    /\ engine' = FALSE /\ runtime' = ~runtime
    /\ UNCHANGED <<control, helper, leases, call, lock, pending>>

\* Another program, the command line tool say, has the lock for a while.
Locked ==
    /\ Free /\ Afford("transition") /\ lock' = "other"
    /\ UNCHANGED <<control, helper, leases, call, engine, runtime, pending>>

Unlocked ==
    /\ lock = "other" /\ lock' = None
    /\ \/ UNCHANGED <<engine, runtime>>
       \/ engine' = FALSE /\ runtime' = ~runtime
    /\ UNCHANGED <<control, helper, leases, call, pending, budget>>

HelperCloses ==
    /\ helper = "up" /\ Afford("helper") /\ helper' = "closing"
    /\ UNCHANGED <<control, leases, call, lock, engine, runtime, pending>>

\* Its handlers, their retries and its count end with it; the engine does not.
HelperEnds ==
    /\ \/ helper = "closing" /\ UNCHANGED budget
       \/ helper = "up" /\ Afford("helper")
    /\ helper' = "down" /\ holders' = 0
    /\ far' = [c \in Conn |-> IF Near(c) THEN "gone" ELSE "none"]
    /\ tries' = [c \in Conn |-> 0]
    /\ call' = [k \in Call |-> IF request.at = "wait" /\ request.on = k THEN "gone" ELSE "none"]
    /\ lock' = IF lock = "other" THEN lock ELSE None
    /\ UNCHANGED <<control, engine, runtime, pending>>

\* Mutant: a helper that comes up leaves the engine to the next lease.
HelperStartsBlind ==
    /\ helper = "down" /\ helper' = "up"
    /\ UNCHANGED <<control, leases, call, lock, engine, runtime, pending, budget>>

\* reconcilePreparedPolicyEngine: it does not listen before the engine of an
\* earlier helper has gone. An error ends it, and launchd starts it again.
HelperStarts ==
    /\ helper = "down"
    /\ \/ StopWorks /\ helper' = "up"
       \/ StopFails /\ UNCHANGED helper
    /\ UNCHANGED <<control, leases, call, lock, runtime, pending>>

Serve(c) == Acquire(c) \/ Leave(c) \/ Retry(c)
Client == Dial \/ Held \/ NotHeld \/ Send \/ Receive

PolicyNext ==
    \/ Ask \/ Client \/ GiveUp \/ Close \/ ServiceEnds \/ ServiceStarts
    \/ \E c \in Conn : Serve(c) \/ Disconnected(c)
    \/ \E k \in Call : Run(k) \/ Done(k)
    \/ Transition \/ Locked \/ Unlocked \/ HelperCloses \/ HelperEnds \/ HelperStarts

\* Goroutines run, a blocked mutex is obtained in the end, other programs give
\* the lock back, a closing helper ends and launchd starts helper and service.
Fairness ==
    /\ SF_policyVars(Client)
    /\ \A c \in Conn : SF_policyVars(Serve(c)) /\ WF_policyVars(Disconnected(c))
    /\ \A k \in Call : SF_policyVars(Run(k)) /\ WF_policyVars(Done(k))
    /\ WF_policyVars(Unlocked) /\ SF_policyVars(HelperStarts)
    /\ WF_policyVars(ServiceEnds /\ service.is = "closed")
    /\ WF_policyVars(HelperEnds /\ helper = "closing") /\ WF_policyVars(ServiceStarts)

PolicySpec == PolicyInit /\ [][PolicyNext]_policyVars /\ Fairness

-----------------------------------------------------------------------------
PolicyTypeOK ==
    /\ service \in [is : {"up", "closed", "down"}, closer : Conn \cup {None}]
    /\ request \in [at : {"idle", "dial", "hold", "call", "wait"}, on : Conn \cup Call \cup {None}]
    /\ answer \in {"none", "ok", "error"} /\ helper \in {"up", "closing", "down"}
    /\ far \in [Conn -> {"none", "asked", "held", "leaving", "retry", "gone"}]
    /\ tries \in [Conn -> 0 .. Attempts] /\ holders \in 0 .. Cardinality(Conn)
    /\ call \in [Call -> {"none", "asked", "running", "ok", "error", "gone"}]
    /\ lock \in Call \cup {None, "other"}
    /\ engine \in BOOLEAN /\ runtime \in BOOLEAN /\ pending \in BOOLEAN
    /\ budget \in [Bound -> Nat]

(* A release stops the engine only while no connection is counted: a lease *)
(* that was taken between two of its attempts keeps its engine.            *)
HeldEngineKept ==
    /\ []PolicyTypeOK
    /\ [][\A c \in Conn : (Leave(c) \/ Retry(c)) /\ engine /\ ~engine'
          => \A d \in Conn : far'[d] # "held"]_policyVars

(* An engine without a holder does not stay, whichever of the two processes *)
(* ended in between and whoever had the lock, unless every attempt failed. *)
Orphan == engine /\ ~runtime /\ \A c \in Conn : far[c] \notin {"asked", "held"}
EngineReleased == Orphan ~> ~Orphan \/ pending

(* Once the helper is up to stay and the lock is free, asking again works: *)
(* neither a lease that was kept from an earlier helper nor a failed       *)
(* request shuts the workspace off.                                        *)
Calm == helper = "up" /\ service.is = "up" /\ lock # "other"
ServedAgain ==
    []<>(request.at = "wait") /\ <>[]Calm => []<>(answer = "ok")
=============================================================================
