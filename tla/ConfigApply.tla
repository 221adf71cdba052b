------------------------------ MODULE ConfigApply ------------------------------
(***************************************************************************)
(* The configuration actions of the root helper: applyProfile,             *)
(* applyTailscale, applyDevicePolicy, applyControlConfig and               *)
(* forgetTailscaleIdentity (configuration_actions.go), and the gateway     *)
(* start that commits a composed profile (policy_workspace.go).            *)
(*                                                                         *)
(* Each runs under the runtime lifecycle lock from its revision check to   *)
(* the end of its rollback, so there is one session at a time. It writes   *)
(* several files, each atomically, and has the gateway reload; any step    *)
(* may fail and the process may die between two of them. Clients read the  *)
(* documents without the lock and send their edits later.                  *)
(***************************************************************************)
EXTENDS Naturals

CONSTANTS
    Client,
    Profile,    \* imported profiles, each with the file its digest names
    Workspace,  \* composed profiles, each with the file its digest names
    Managed,    \* the profile that OpenSurge renders itself and needs no file
    Net,        \* what a control configuration may set
    Key, NoKey, \* Tailscale auth keys
    Policy,     \* device policy documents
    Empty,      \* the document of a new policy file
    NoFile,
    Quota       \* how often each event may happen

Bound == {"ask", "read", "cli", "fault", "restore", "restart", "crash"}

ASSUME ApplyAssumption ==
    /\ Managed \notin Profile \cup Workspace /\ Profile \cap Workspace = {}
    /\ NoKey \notin Key /\ Empty \in Policy /\ NoFile \notin Policy
    /\ Quota \in [Bound -> Nat]

VARIABLES
    config,    \* config.yaml; its digest is its revision
    files,     \* the profile files that exist
    policy,    \* the device policy file
    key,       \* the auth key file
    identity,  \* is there a local Tailscale identity?
    base,      \* base.json: the composed profile and what it was composed from
    gw,        \* the gateway and the configuration in its runtime state
    seen,      \* the revisions each client goes by
    session,   \* the action that holds the lifecycle lock
    left

docs == <<files, policy, key, identity, base>>
vars == <<config, docs, gw, seen, session, left>>

AnyProfile == Profile \cup Workspace \cup {Managed}
\* pol: does the configuration name the policy file?
Config == [profile : AnyProfile, tail : BOOLEAN, net : Net, pol : BOOLEAN]
Kind == {"profile", "tailscale", "control", "policy", "forget", "start"}

NoSession == [at |-> "idle"]
Idle == session.at = "idle"
At(step) == session.at = step
PolicyDoc == IF policy = NoFile THEN Empty ELSE policy

Init ==
    /\ \E n \in Net :
           config = [profile |-> Managed, tail |-> FALSE, net |-> n, pol |-> FALSE]
    /\ files = {} /\ policy = NoFile /\ key = NoKey /\ identity = FALSE
    /\ base = [effective |-> Managed, from |-> Managed]
    /\ gw = [state |-> "off", cfg |-> config]
    /\ seen = [c \in Client |-> [revision |-> config, policy |-> PolicyDoc]]
    /\ session = NoSession /\ left = Quota

Spend(event) == left[event] > 0 /\ left' = [left EXCEPT ![event] = @ - 1]
Goto(step) == session' = [session EXCEPT !.at = step]

\* A step either does its work or meets an error and takes another way.
Does(work, next) == work /\ Goto(next) /\ UNCHANGED left
Meets(event, next) == Spend(event) /\ Goto(next)

-----------------------------------------------------------------------------
(* The start of an action: locked, it reads the documents again.           *)

\* Mutant: only the service compares revisions, before the lock.
CurrentWhenSent(c, kind) == c \in Client /\ kind \in Kind

Current(c, kind) ==
    IF kind = "policy" THEN config.pol /\ seen[c].policy = PolicyDoc
    ELSE seen[c].revision = config

\* Composed from a library source or from what the current profile came from;
\* without an extension the managed profile comes back.
Composed ==
    {config.profile} \cup Workspace \cup
        {p \in {Managed} : base = [effective |-> config.profile, from |-> p]}

Candidate(kind) ==
    CASE kind = "profile" -> {[config EXCEPT !.profile = p] : p \in Profile}
      [] kind = "tailscale" -> {[config EXCEPT !.tail = on] : on \in BOOLEAN}
      [] kind = "control" -> {[config EXCEPT !.net = n, !.pol = TRUE] : n \in Net}
      [] kind = "start" -> {[config EXCEPT !.profile = p] : p \in Composed}
      [] OTHER -> {config}

Permitted(kind, want, k) ==
    /\ kind \in {"control", "forget", "start"} => gw.state = "off"
    /\ kind = "forget" => ~config.tail
    /\ kind = "tailscale" /\ want.tail /\ k = NoKey => key # NoKey \/ identity

FirstStep(kind, want, k) ==
    CASE kind = "profile" -> "profile"
      [] kind = "tailscale" /\ k # NoKey -> "key"
      [] kind = "control" /\ ~config.pol /\ policy = NoFile -> "create"
      [] kind = "forget" -> "forget"
      [] kind = "start" /\ want.profile \in Workspace -> "artifact"
      [] OTHER -> "validate"

Begin(c, kind, want, k, d) ==
    /\ Idle /\ Spend("ask")
    /\ Current(c, kind) /\ Permitted(kind, want, k)
    /\ session' = [at |-> FirstStep(kind, want, k), kind |-> kind, by |-> c,
                   want |-> want, doc |-> d, newkey |-> k,
                   orig |-> config, key0 |-> key, base0 |-> base,
                   existed |-> want.profile \in files, created |-> FALSE,
                   running |-> gw.state # "off"]
    /\ UNCHANGED <<config, docs, gw, seen>>

Ask(c) == \E kind \in Kind : \E want \in Candidate(kind) :
    \E k \in IF kind = "tailscale" THEN Key \cup {NoKey} ELSE {NoKey} :
    \E d \in IF kind = "policy" THEN Policy ELSE {Empty} : Begin(c, kind, want, k, d)

-----------------------------------------------------------------------------
(* Writing and validating the candidate.                                   *)

WriteProfile ==
    /\ session.at \in {"profile", "artifact"}
    /\ \/ Does(files' = files \cup {session.want.profile}, "validate")
       \/ Meets("fault", "failed") /\ UNCHANGED files
    /\ UNCHANGED <<config, policy, key, identity, base, gw, seen>>

WriteKey ==
    /\ At("key")
    /\ \/ Does(key' = session.newkey, "validate")
       \/ Meets("fault", "failed") /\ UNCHANGED key
    /\ UNCHANGED <<config, files, policy, identity, base, gw, seen>>

CreatePolicy ==
    /\ At("create")
    /\ \/ /\ policy' = Empty /\ UNCHANGED left
          /\ session' = [session EXCEPT !.at = "validate", !.created = TRUE]
       \/ Meets("fault", "failed") /\ UNCHANGED policy
    /\ UNCHANGED <<config, files, key, identity, base, gw, seen>>

\* The candidate is checked by the validator and by mihomo -t.
Validate ==
    /\ At("validate")
    /\ Goto("discard") \/ Goto(IF session.kind = "start" THEN "base" ELSE "save")
    /\ UNCHANGED <<config, docs, gw, seen, left>>

\* Mutant: a running gateway keeps the configuration it has.
SaveOnly ==
    /\ At("save") /\ Goto("done")
    /\ IF session.kind = "policy"
       THEN policy' = session.doc /\ UNCHANGED config
       ELSE config' = session.want /\ UNCHANGED policy
    /\ UNCHANGED <<files, key, identity, base, gw, seen, left>>

Save ==
    /\ At("save")
    /\ \/ /\ UNCHANGED left
          /\ IF session.kind = "policy"
             THEN policy' = session.doc /\ UNCHANGED config
             ELSE config' = session.want /\ UNCHANGED policy
          /\ Goto(IF session.running /\ session.kind \in {"profile", "tailscale"}
                  THEN "reload" ELSE "done")
       \/ Meets("fault", "discard") /\ UNCHANGED <<config, policy>>
    /\ UNCHANGED <<files, key, identity, base, gw, seen>>

Forget ==
    /\ At("forget")
    /\ \/ Does(identity' = FALSE, "done")
       \/ Meets("fault", "failed") /\ UNCHANGED identity
    /\ UNCHANGED <<config, files, policy, key, base, gw, seen>>

-----------------------------------------------------------------------------
(* The gateway, in one step per operation; GatewayLifecycle has the rest.  *)

\* An engine that ran, if only for a while, may have logged in.
Gateway(state, cfg) ==
    /\ gw' = [state |-> state, cfg |-> cfg]
    /\ identity' \in {identity, identity \/ cfg.tail}
Serving(cfg) == Gateway("on", cfg)

\* Refused, failed to stop, failed to start again (with or without leaving a
\* state file behind), or done. A degraded gateway is not reloaded.
ReloadFails ==
    \/ UNCHANGED <<gw, identity>>
    \/ /\ gw.state = "on"
       /\ \/ Gateway("broken", gw.cfg) \/ Gateway("broken", session.want)
          \/ Gateway("off", session.want)

Reload ==
    /\ At("reload")
    /\ \/ gw.state = "on" /\ Serving(session.want) /\ Goto("done")
       \/ ReloadFails /\ Goto("restore")
    /\ UNCHANGED <<config, files, policy, key, base, seen, left>>

\* When the old configuration cannot be written the gateway is left alone.
Restore ==
    /\ At("restore")
    /\ \/ Does(config' = session.orig,
               IF session.kind = "tailscale" THEN "unkey" ELSE "restart")
       \/ Meets("restore", "discard") /\ UNCHANGED config
    /\ UNCHANGED <<docs, gw, seen>>

\* Mutant: the old gateway is not started again.
RestartForgotten ==
    /\ At("restart") /\ Goto(IF session.kind = "tailscale" THEN "failed" ELSE "discard")
    /\ UNCHANGED <<config, docs, gw, seen, left>>

\* If the reload had stopped the gateway it is started with what it had.
Restart ==
    /\ At("restart")
    /\ Goto(IF session.kind = "tailscale" THEN "failed" ELSE "discard")
    /\ \/ gw.state # "off" /\ UNCHANGED <<gw, identity, left>>
       \/ gw.state = "off" /\ Serving(session.orig) /\ UNCHANGED left
       \/ /\ gw.state = "off" /\ Spend("restart")
          /\ \E state \in {"off", "broken"} : Gateway(state, session.orig)
    /\ UNCHANGED <<config, files, policy, key, base, seen>>

\* Mutant: a profile is removed although it was there before.
DiscardAlways ==
    /\ At("discard") /\ Goto("failed")
    /\ files' = files \ {session.want.profile}
    /\ UNCHANGED <<config, policy, key, identity, base, gw, seen, left>>

\* cleanupProfile, rollbackKey, or the removal of a created policy file. Their
\* errors are ignored.
Discard ==
    /\ session.at \in {"discard", "unkey"}
    /\ Goto(IF At("unkey") THEN "restart" ELSE "failed")
    /\ \/ /\ UNCHANGED left
          /\ files' = IF session.kind = "profile" /\ ~session.existed
                      THEN files \ {session.want.profile} ELSE files
          /\ key' = IF session.kind = "tailscale" THEN session.key0 ELSE key
          /\ policy' = IF session.created THEN NoFile ELSE policy
       \/ Spend("restore") /\ UNCHANGED <<files, key, policy>>
    /\ UNCHANGED <<config, identity, base, gw, seen>>

-----------------------------------------------------------------------------
(* A start commits its candidate before the network is taken over.         *)

CommitBase ==
    /\ At("base")
    /\ \/ /\ session.want.profile \in Workspace
          /\ Does(base' = [effective |-> session.want.profile,
                           from |-> IF base.effective = config.profile
                                    THEN base.from ELSE config.profile], "commit")
       \/ Meets("fault", "failed") /\ UNCHANGED base
       \/ session.want.profile \notin Workspace \ {config.profile} /\ Does(UNCHANGED base, "commit")
    /\ UNCHANGED <<config, files, policy, key, identity, gw, seen>>

\* A failing write and a cancelled request both go back.
CommitConfig ==
    /\ At("commit")
    /\ \/ Does(config' = session.want, "committed")
       \/ Meets("fault", "unbase") /\ UNCHANGED config
    /\ UNCHANGED <<docs, gw, seen>>

Committed ==
    /\ At("committed")
    /\ Does(TRUE, "takeover") \/ Meets("fault", "uncommit")
    /\ UNCHANGED <<config, docs, gw, seen>>

Uncommit ==
    /\ At("uncommit")
    /\ \/ Does(config' = session.orig, "unbase")
       \/ Meets("restore", "unbase") /\ UNCHANGED config
    /\ UNCHANGED <<docs, gw, seen>>

RestoreBase ==
    /\ At("unbase")
    /\ \/ Does(base' = session.base0, "failed")
       \/ Meets("restore", "failed") /\ UNCHANGED base
    /\ UNCHANGED <<config, files, policy, key, identity, gw, seen>>

\* A takeover that fails keeps the committed configuration for another start.
TakeOver ==
    /\ At("takeover")
    /\ \/ Serving(session.want) /\ Goto("done")
       \/ /\ \E state \in {"off", "broken"} : Gateway(state, session.want)
          /\ Goto("late")
    /\ UNCHANGED <<config, files, policy, key, base, seen, left>>

-----------------------------------------------------------------------------
(* Answers, clients, the command line and crashes.                         *)

\* A configuration action that was applied answers with the new revision.
Return ==
    /\ session.at \in {"done", "failed", "late"} /\ session' = NoSession
    /\ seen' = IF At("done") /\ session.kind # "start"
               THEN [seen EXCEPT ![session.by] =
                         IF session.kind = "policy" THEN [@ EXCEPT !.policy = PolicyDoc]
                         ELSE [@ EXCEPT !.revision = config]]
               ELSE seen
    /\ UNCHANGED <<config, docs, gw, left>>

Waiting(c) == ~Idle /\ session.by = c

\* Documents are read without the lock, a candidate that may yet go back
\* included. The revision in a response is read after the settings in it.
ReadRevision(c) ==
    /\ ~Waiting(c)
    /\ seen' = [seen EXCEPT ![c].revision = config]
    /\ Spend("read") /\ UNCHANGED <<config, docs, gw, session>>

ReadPolicy(c) ==
    /\ ~Waiting(c)
    /\ seen' = [seen EXCEPT ![c].policy = PolicyDoc]
    /\ Spend("read") /\ UNCHANGED <<config, docs, gw, session>>

\* omg start and stop, or a stop of the service.
OmgStart ==
    /\ Idle /\ gw.state = "off" /\ Spend("cli")
    /\ Serving(config) \/ Gateway("broken", config)
    /\ UNCHANGED <<config, files, policy, key, base, seen, session>>

Stop ==
    /\ Idle /\ gw.state # "off" /\ Spend("cli")
    /\ \E state \in {"off", "broken"} : Gateway(state, gw.cfg)
    /\ UNCHANGED <<config, files, policy, key, base, seen, session>>

\* The process dies; a gateway operation it was in is left where it was.
Crash ==
    /\ ~Idle /\ Spend("crash") /\ session' = NoSession
    /\ \/ UNCHANGED gw
       \/ /\ session.at \in {"reload", "restart", "takeover"}
          /\ \E state \in {"off", "broken"} : \E cfg \in {session.orig, session.want} :
                 gw' = [state |-> state, cfg |-> cfg]
    /\ UNCHANGED <<config, docs, seen>>

\* Nothing more may be asked, but an action that began comes to its end.
Rest == Idle /\ UNCHANGED vars

Prepare == WriteProfile \/ WriteKey \/ CreatePolicy \/ Validate \/ Save \/ Forget
RollBack == Restore \/ Restart \/ Discard
Start == CommitBase \/ CommitConfig \/ Committed \/ Uncommit \/ RestoreBase \/ TakeOver

Next ==
    \/ Prepare \/ Reload \/ RollBack \/ Start \/ Return
    \/ OmgStart \/ Stop \/ Crash \/ Rest
    \/ \E c \in Client : Ask(c) \/ ReadRevision(c) \/ ReadPolicy(c)

Spec == Init /\ [][Next]_vars

-----------------------------------------------------------------------------
(* Properties.                                                             *)

TypeOK ==
    /\ config \in Config /\ files \subseteq Profile \cup Workspace
    /\ policy \in Policy \cup {NoFile} /\ key \in Key \cup {NoKey}
    /\ identity \in BOOLEAN /\ base \in [effective : AnyProfile, from : AnyProfile]
    /\ gw \in [state : {"off", "on", "broken"}, cfg : Config]
    /\ seen \in [Client -> [revision : Config, policy : Policy]]
    /\ Idle \/ {session.orig, session.want} \subseteq Config
    /\ left \in [Bound -> Nat]

Unspent(event) == left[event] = Quota[event]

(* No write that takes something back has failed. When the old             *)
(* configuration cannot be written again, the files of the candidate are   *)
(* removed all the same.                                                   *)
Restored == Unspent("restore")

(* The configuration never names a profile or a policy that is not there,  *)
(* whatever was applied twice, failed or was cut off: the candidate's file *)
(* comes before its name, and goes after the old name is back. An enabled  *)
(* Tailscale outbound can log in: there is a key or an identity for it,    *)
(* through rotations of the key that failed or were cut off. What a        *)
(* composed profile was composed from stays known, so that it can be       *)
(* composed again with another extension; only a crash between the two     *)
(* writes of the commit loses it. TypeOK is checked as a part of it.       *)
ConfigBacked ==
    /\ TypeOK
    /\ Restored =>
          /\ config.profile \in files \cup {Managed} /\ (config.pol => policy # NoFile)
          /\ config.tail => key # NoKey \/ identity
          /\ Idle /\ Unspent("crash") /\ config.profile \in Workspace =>
                base.effective = config.profile

(* A gateway that serves does so with the configuration on disk: what      *)
(* changes it when a gateway runs reloads the gateway or goes back.        *)
NoDrift ==
    Idle /\ Restored /\ Unspent("crash") /\ gw.state = "on" => gw.cfg = config

(* An action that answers with an error has left the documents as it found *)
(* them, and a gateway that was there is there, if it would start again.   *)
FailureRestores ==
    At("failed") /\ Restored =>
        /\ config = session.orig /\ key = session.key0 /\ base = session.base0
        /\ session.running /\ Unspent("restart") => gw.state # "off"

\* Until it has come to its end an edit may go back.
Pending ==
    ~Idle /\ session.at \notin {"done", "late", "takeover"} /\ session.kind # "policy"

Atomic == INSTANCE AtomicConfiguration WITH
    Content <- Config \cup Policy,
    desired <- [config |-> IF Pending THEN session.orig ELSE config,
                policy |-> PolicyDoc],
    seen <- [c \in Client |-> [config |-> seen[c].revision, policy |-> seen[c].policy]]

(* Edits are atomic, and none is made on another revision than the one its *)
(* author was given, however the edits of the clients interleave.          *)
Implements == Atomic!Spec
=============================================================================
