--------------------------- MODULE ConfigApplyProofs ---------------------------
(***************************************************************************)
(* Proofs about ConfigApply for all clients, profiles, keys, policies and  *)
(* numbers of mishaps.                                                     *)
(*                                                                         *)
(* What the documents must satisfy between two actions says nothing of the *)
(* many states within one. IInv says at every step of an action which of   *)
(* the two configurations, the one it began with and its candidate, is on  *)
(* disk, and that whichever is there or may come back has its files.       *)
(***************************************************************************)
EXTENDS ConfigApply, TLAPS

Step == {"profile", "artifact", "key", "create", "validate", "save", "forget", "reload",
         "restore", "restart", "discard", "unkey", "base", "commit", "committed",
         "uncommit", "unbase", "takeover", "done", "failed", "late"}

Base == [effective : AnyProfile, from : AnyProfile]

Session == [at : Step, kind : Kind, by : Client, want : Config, doc : Policy,
            newkey : Key \cup {NoKey}, orig : Config, key0 : Key \cup {NoKey},
            base0 : Base, existed : BOOLEAN, created : BOOLEAN, running : BOOLEAN]

\* The types, with those of the session, and what the budget started from.
Types ==
    /\ TypeOK
    /\ session = NoSession \/ session \in Session
    /\ \A event \in Bound : left[event] <= Quota[event]

\* Which steps an action goes through, and what its candidate changes.
KindSound ==
    LET s == session IN ~Idle =>
      /\ s.at \in {"reload", "restore", "restart"} =>
            s.kind \in {"profile", "tailscale"} /\ s.running
      /\ s.at = "unkey" => s.kind = "tailscale" /\ s.running
      /\ s.at \in {"artifact", "base", "commit", "committed", "uncommit", "unbase",
                   "takeover", "late"} => s.kind = "start"
      /\ s.at = "save" => s.kind \notin {"start", "forget"}
      /\ s.at = "forget" => s.kind = "forget"
      /\ s.at = "profile" => s.kind = "profile"
      /\ s.at = "key" => s.kind = "tailscale" /\ s.newkey # NoKey
      /\ s.at = "create" => s.kind = "control"
      /\ s.at \in {"validate", "discard"} => s.kind # "forget"
      /\ s.at = "artifact" => s.want.profile \in Workspace
      /\ s.kind \in {"control", "forget", "start"} => ~s.running
      /\ s.kind = "profile" => s.want.profile \in Profile
      /\ s.kind \in {"policy", "forget"} => s.want = s.orig
      /\ s.kind \notin {"profile", "start"} => s.want.profile = s.orig.profile
      /\ s.kind # "tailscale" => s.want.tail = s.orig.tail
      /\ s.kind # "control" => s.want.pol = s.orig.pol
      /\ s.kind = "forget" => ~s.orig.tail

Before == {"profile", "artifact", "key", "create", "forget", "validate", "save", "base",
           "commit", "unkey", "restart"}
After == {"reload", "restore", "committed", "uncommit", "takeover", "done", "late"}

\* The configuration on disk is the one from before or the candidate.
ConfigSound ==
    ~Idle =>
      /\ session.at \in Before => config = session.orig
      /\ session.at \in {"discard", "failed", "unbase"} /\ Restored => config = session.orig
      /\ session.at \in After => config = session.want

KeySound ==
    ~Idle =>
      /\ session.kind # "tailscale" \/ session.at = "key" => key = session.key0
      /\ session.at \in {"restart", "failed"} /\ Restored => key = session.key0
      /\ key = session.key0 \/ (key = session.newkey /\ session.newkey # NoKey)

PolicySound ==
    ~Idle =>
      /\ session.created => session.kind = "control" /\ ~session.orig.pol
      /\ session.created /\ session.at # "failed" => policy = Empty
      /\ session.at = "create" => policy = NoFile /\ ~session.orig.pol

Filed(c) == c.profile \in files \cup {Managed}
Ruled(c) == c.pol => policy # NoFile
Login(c, k) == c.tail => k # NoKey \/ identity

\* The steps at which the candidate has, or is about to get, all it needs.
Ready == After \cup {"validate", "save", "forget", "base", "commit", "key", "create",
                     "profile", "artifact"}

\* Whatever is on disk, what was there and what is to come have their files.
BackedSound ==
    Restored =>
      /\ Filed(config) /\ Ruled(config) /\ Login(config, key)
      /\ ~Idle =>
           /\ Filed(session.orig) /\ Ruled(session.orig)
           /\ Login(session.orig, session.key0)
           /\ session.at \in Ready =>
                /\ session.at \notin {"profile", "artifact"} => Filed(session.want)
                /\ session.at # "create" => Ruled(session.want)
                /\ session.at # "key" => Login(session.want, key)
           /\ session.kind = "profile" /\ ~session.existed =>
                session.orig.profile # session.want.profile

Composition(c, b) == c.profile \in Workspace => b.effective = c.profile

\* The record of what a composed profile came from.
BaseSound ==
    /\ Restored /\ Unspent("crash") =>
         IF Idle THEN Composition(config, base)
         ELSE /\ Composition(session.orig, session.base0)
              /\ session.at \in {"commit", "committed", "uncommit", "takeover", "done",
                                 "late"} => Composition(session.want, base)
    /\ ~Idle =>
         /\ session.kind # "start" \/ session.at \in {"artifact", "validate", "base"} =>
              base = session.base0
         /\ session.at \in {"discard", "failed"} /\ Restored => base = session.base0

\* A gateway that serves has the configuration of before until the action is
\* done, and one that was there is there but while it is being restarted.
GatewaySound ==
    /\ Restored /\ Unspent("crash") /\ gw.state = "on" =>
         gw.cfg = IF Idle THEN config
                  ELSE IF At("done") THEN session.want ELSE session.orig
    /\ At("late") => gw.state # "on"
    /\ ~Idle /\ ~session.running /\ session.at \notin {"done", "late"} => gw.state = "off"
    /\ ~Idle /\ session.running /\ session.at \notin {"restore", "unkey", "restart"}
         /\ Restored /\ Unspent("restart") => gw.state # "off"

\* The author of an edit still has the revision it was made on.
SeenSound ==
    ~Idle =>
      /\ session.kind # "policy" => seen[session.by].revision = session.orig
      /\ session.kind = "policy" /\ session.at \in {"validate", "save"} =>
            seen[session.by].policy = PolicyDoc

Sound == /\ KindSound /\ ConfigSound /\ KeySound /\ PolicySound
         /\ BackedSound /\ BaseSound /\ GatewaySound /\ SeenSound

IInv == Types /\ Sound

-----------------------------------------------------------------------------
(* Lemmas about what the steps are built from.                             *)

\* A disturbance uses up its budget and no other, and nothing gives back.
Spared ==
    /\ left' \in [Bound -> Nat]
    /\ \A event \in Bound : left'[event] <= Quota[event]
                            /\ (left'[event] = Quota[event] => left[event] = Quota[event])

\* A step that nothing disturbs leaves every budget.
LEMMA Unspared == ASSUME Types, UNCHANGED left PROVE Spared
BY DEF Types, TypeOK, Spared

\* A disturbance is remembered by its budget, which is no longer full.
LEMMA Spending ==
    ASSUME Types, NEW event \in Bound, Spend(event)
    PROVE  Spared /\ left'[event] # Quota[event]
<1>1. /\ left \in [Bound -> Nat] /\ Quota \in [Bound -> Nat]
      /\ \A e \in Bound : left[e] <= Quota[e]
  BY ApplyAssumption DEF Types, TypeOK
<1>2. left[event] - 1 \in Nat
  BY <1>1 DEF Spend
<1>3. left' \in [Bound -> Nat] /\ left'[event] = left[event] - 1
  BY <1>1, <1>2 DEF Spend
<1>4. \A e \in Bound : e # event => left'[e] = left[e]
  BY <1>1 DEF Spend
<1>5. left'[event] < Quota[event]
  BY <1>1, <1>2, <1>3
<1>6. ASSUME NEW e \in Bound
      PROVE  left'[e] <= Quota[e] /\ (left'[e] = Quota[e] => left[e] = Quota[e])
  <2>1. CASE e = event
    BY <1>1, <1>3, <1>5, <2>1
  <2>2. CASE e # event
    BY <1>1, <1>4, <2>2
  <2>3. QED
    BY <2>1, <2>2
<1>7. QED
  BY <1>1, <1>3, <1>5, <1>6 DEF Spared

\* Two sessions of the same action, whatever their steps.
SameAction(t, r) ==
    /\ t.kind = r.kind /\ t.by = r.by /\ t.want = r.want /\ t.doc = r.doc
    /\ t.newkey = r.newkey /\ t.orig = r.orig /\ t.key0 = r.key0 /\ t.base0 = r.base0
    /\ t.existed = r.existed /\ t.running = r.running

Moved(t, r, step) ==
    t \in Session /\ t.at = step /\ SameAction(t, r)

\* Going to a step changes nothing else of a session.
LEMMA SessionMoved ==
    ASSUME NEW r \in Session, NEW step \in Step
    PROVE  /\ Moved([r EXCEPT !.at = step], r, step)
           /\ [r EXCEPT !.at = step].created = r.created
<1>1. [r EXCEPT !.at = step] \in Session
  BY DEF Session
<1>2. SameAction([r EXCEPT !.at = step], r)
  BY DEF Session, SameAction
<1>3. [r EXCEPT !.at = step].at = step /\ [r EXCEPT !.at = step].created = r.created
  BY DEF Session
<1>4. QED
  BY <1>1, <1>2, <1>3 DEF Moved

\* An action that goes on to a step stays the same action.
LEMMA Going ==
    ASSUME session \in Session, NEW step \in Step, Goto(step)
    PROVE  /\ session' \in Session /\ session'.at = step /\ session'.created = session.created
           /\ SameAction(session', session)
<1>1. Moved(session', session, step) /\ session'.created = session.created
  BY SessionMoved, Zenon DEF Goto
<1>2. QED
  BY <1>1 DEF Moved

\* An action is under way at every step but idle.
LEMMA Busy ==
    ASSUME Types, ~Idle
    PROVE  session \in Session
BY DEF Types, Idle, NoSession

LEMMA Steps == \A step \in Step : step # "idle"
BY DEF Step

\* What an operation of the gateway leaves.
LEMMA Operated ==
    ASSUME Types, NEW state \in {"off", "on", "broken"}, NEW cfg \in Config,
           Gateway(state, cfg)
    PROVE  /\ gw' \in [state : {"off", "on", "broken"}, cfg : Config]
           /\ gw'.state = state /\ gw'.cfg = cfg
           /\ identity => identity'
           /\ identity' \in BOOLEAN
<1>1. identity \in BOOLEAN /\ cfg.tail \in BOOLEAN
  BY DEF Types, TypeOK, Config
<1>2. identity' \in {identity, identity \/ cfg.tail}
  BY DEF Gateway
<1>3. identity' \in BOOLEAN /\ (identity => identity')
  BY <1>1, <1>2, Zenon
<1>4. QED
  BY <1>3 DEF Gateway

-----------------------------------------------------------------------------
(* One lemma per step of an action.                                        *)

\* The file of a profile comes before its name.
LEMMA WriteProfileStep ==
    ASSUME Types, Sound, WriteProfile
    PROVE  Types' /\ Sound'
<1>1. /\ session.at \in {"profile", "artifact"} /\ ~Idle /\ session \in Session
      /\ UNCHANGED <<config, policy, key, identity, base, gw, seen>>
  BY Busy DEF WriteProfile, Idle, At
<1>2. /\ Spared /\ session' \in Session /\ session'.created = session.created
      /\ SameAction(session', session)
      /\ \/ files' = files \cup {session.want.profile} /\ session'.at = "validate"
         \/ files' = files /\ session'.at = "failed"
  <2>1. {"validate", "failed"} \subseteq Step /\ "fault" \in Bound
    BY DEF Step, Bound
  <2>2. QED
    BY <1>1, <2>1, Going, Spending, Unspared DEF WriteProfile, Does, Meets
<1>3. Types'
  <2>1. session.want.profile \in Profile \cup Workspace
    BY <1>1 DEF Sound, KindSound
  <2>2. files' \subseteq Profile \cup Workspace
    BY <1>2, <2>1 DEF Types, TypeOK
  <2>3. {session'.orig, session'.want} \subseteq Config
    BY <1>2 DEF Session
  <2>4. QED
    BY <1>1, <1>2, <2>1, <2>2, <2>3 DEF Types, TypeOK, Spared, Idle, Base
<1>4. KindSound' /\ ConfigSound' /\ KeySound' /\ PolicySound' /\ SeenSound'
  BY <1>1, <1>2
  DEF Sound, KindSound, ConfigSound, KeySound, PolicySound, SeenSound, SameAction,
      Idle, PolicyDoc, Before, After, Restored, Unspent, Spared, Bound
<1>5. BackedSound'
  BY <1>1, <1>2
  DEF Sound, BackedSound, SameAction, Idle, Filed, Ruled, Login, Ready, After, Restored,
      Unspent, Spared, Bound
<1>6. BaseSound' /\ GatewaySound'
  BY <1>1, <1>2
  DEF Sound, BaseSound, GatewaySound, SameAction, Idle, At, Composition, Restored,
      Unspent, Spared, Bound, KindSound
<1>7. QED
  BY <1>3, <1>4, <1>5, <1>6 DEF Sound

\* The new key replaces the old one, which the session remembers.
LEMMA WriteKeyStep ==
    ASSUME Types, Sound, WriteKey
    PROVE  Types' /\ Sound'
<1>1. /\ session.at = "key" /\ ~Idle /\ session \in Session
      /\ UNCHANGED <<config, files, policy, identity, base, gw, seen>>
  BY Busy DEF WriteKey, Idle, At
<1>2. /\ Spared /\ session' \in Session /\ session'.created = session.created
      /\ SameAction(session', session)
      /\ \/ key' = session.newkey /\ session'.at = "validate"
         \/ key' = key /\ session'.at = "failed"
  <2>1. {"validate", "failed"} \subseteq Step /\ "fault" \in Bound
    BY DEF Step, Bound
  <2>2. QED
    BY <1>1, <2>1, Going, Spending, Unspared DEF WriteKey, Does, Meets
<1>3. Types'
  <2>1. key' \in Key \cup {NoKey}
    BY <1>1, <1>2 DEF Types, TypeOK, Session
  <2>2. {session'.orig, session'.want} \subseteq Config
    BY <1>2 DEF Session
  <2>3. QED
    BY <1>1, <1>2, <2>1, <2>2 DEF Types, TypeOK, Spared, Idle, Base
<1>4. KindSound' /\ ConfigSound' /\ KeySound' /\ PolicySound' /\ SeenSound'
  BY <1>1, <1>2
  DEF Sound, KindSound, ConfigSound, KeySound, PolicySound, SeenSound, SameAction,
      Idle, PolicyDoc, Before, After, Restored, Unspent, Spared, Bound
<1>5. BackedSound'
  BY <1>1, <1>2
  DEF Sound, BackedSound, SameAction, Idle, Filed, Ruled, Login, Ready, After, Restored,
      Unspent, Spared, Bound,
      KindSound, ConfigSound, KeySound
<1>6. BaseSound' /\ GatewaySound'
  BY <1>1, <1>2
  DEF Sound, BaseSound, GatewaySound, SameAction, Idle, At, Composition, Restored,
      Unspent, Spared, Bound, KindSound
<1>7. QED
  BY <1>3, <1>4, <1>5, <1>6 DEF Sound

\* The validator refuses the candidate or lets it be saved.
LEMMA ValidateStep ==
    ASSUME Types, Sound, Validate
    PROVE  Types' /\ Sound'
<1>1. /\ session.at = "validate" /\ ~Idle /\ session \in Session
      /\ UNCHANGED <<config, files, policy, key, identity, base, gw, seen, left>>
  BY Busy DEF Validate, Idle, At, docs
<1>2. /\ Spared /\ session' \in Session /\ session'.created = session.created
      /\ SameAction(session', session)
      /\ \/ session'.at = "discard"
         \/ session'.at = IF session.kind = "start" THEN "base" ELSE "save"
  <2>1. {"discard", "base", "save"} \subseteq Step
    BY DEF Step
  <2>2. QED
    BY <1>1, <2>1, Going, Spending, Unspared DEF Validate
<1>3. Types'
  <2>1. {session'.orig, session'.want} \subseteq Config
    BY <1>2 DEF Session
  <2>2. QED
    BY <1>1, <1>2, <2>1 DEF Types, TypeOK, Spared, Idle, Base
<1>4. KindSound' /\ ConfigSound' /\ KeySound' /\ PolicySound' /\ SeenSound'
  BY <1>1, <1>2
  DEF Sound, KindSound, ConfigSound, KeySound, PolicySound, SeenSound, SameAction,
      Idle, PolicyDoc, Before, After, Restored, Unspent, Spared, Bound
<1>5. BackedSound'
  BY <1>1, <1>2
  DEF Sound, BackedSound, SameAction, Idle, Filed, Ruled, Login, Ready, After, Restored,
      Unspent, Spared, Bound
<1>6. BaseSound' /\ GatewaySound'
  BY <1>1, <1>2
  DEF Sound, BaseSound, GatewaySound, SameAction, Idle, At, Composition, Restored,
      Unspent, Spared, Bound, KindSound
<1>7. QED
  BY <1>3, <1>4, <1>5, <1>6 DEF Sound

\* The edit is made, and reloaded if a gateway runs with it.
LEMMA SaveStep ==
    ASSUME Types, Sound, Save
    PROVE  Types' /\ Sound'
<1>1. /\ session.at = "save" /\ ~Idle /\ session \in Session
      /\ UNCHANGED <<files, key, identity, base, gw, seen>>
  BY Busy DEF Save, Idle, At
<1>2. /\ Spared /\ session' \in Session /\ session'.created = session.created
      /\ SameAction(session', session)
      /\ \/ /\ IF session.kind = "policy" THEN policy' = session.doc /\ config' = config
               ELSE config' = session.want /\ policy' = policy
            /\ session'.at = IF session.running /\ session.kind \in {"profile", "tailscale"}
                             THEN "reload" ELSE "done"
         \/ /\ config' = config /\ policy' = policy /\ session'.at = "discard"
  <2>1. {"reload", "done", "discard"} \subseteq Step /\ "fault" \in Bound
    BY DEF Step, Bound
  <2>2. QED
    BY <1>1, <2>1, Going, Spending, Unspared DEF Save, Meets
<1>3. Types'
  <2>1. config' \in Config /\ policy' \in Policy \cup {NoFile}
    BY <1>1, <1>2 DEF Types, TypeOK, Session
  <2>2. {session'.orig, session'.want} \subseteq Config
    BY <1>2 DEF Session
  <2>3. QED
    BY <1>1, <1>2, <2>1, <2>2 DEF Types, TypeOK, Spared, Idle, Base
<1>4. KindSound' /\ ConfigSound' /\ KeySound' /\ PolicySound' /\ SeenSound'
  BY <1>1, <1>2
  DEF Sound, KindSound, ConfigSound, KeySound, PolicySound, SeenSound, SameAction,
      Idle, PolicyDoc, Before, After, Restored, Unspent, Spared, Bound
<1>5. BackedSound'
  BY <1>1, <1>2, ApplyAssumption
  DEF Sound, BackedSound, SameAction, Idle, Filed, Ruled, Login, Ready, After, Restored,
      Unspent, Spared, Bound,
      Session, KindSound, ConfigSound
<1>6. BaseSound' /\ GatewaySound'
  BY <1>1, <1>2, ApplyAssumption
  DEF Sound, BaseSound, GatewaySound, SameAction, Idle, At, Composition, Restored,
      Unspent, Spared, Bound, KindSound,
      Session, Kind
<1>7. QED
  BY <1>3, <1>4, <1>5, <1>6 DEF Sound

\* The identity goes only when Tailscale is not configured.
LEMMA ForgetStep ==
    ASSUME Types, Sound, Forget
    PROVE  Types' /\ Sound'
<1>1. /\ session.at = "forget" /\ ~Idle /\ session \in Session
      /\ UNCHANGED <<config, files, policy, key, base, gw, seen>>
  BY Busy DEF Forget, Idle, At
<1>2. /\ Spared /\ session' \in Session /\ session'.created = session.created
      /\ SameAction(session', session)
      /\ \/ identity' = FALSE /\ session'.at = "done"
         \/ identity' = identity /\ session'.at = "failed"
  <2>1. {"done", "failed"} \subseteq Step /\ "fault" \in Bound
    BY DEF Step, Bound
  <2>2. QED
    BY <1>1, <2>1, Going, Spending, Unspared DEF Forget, Does, Meets
<1>3. Types'
  <2>1. identity' \in BOOLEAN
    BY <1>2, Zenon DEF Types, TypeOK
  <2>2. {session'.orig, session'.want} \subseteq Config
    BY <1>2 DEF Session
  <2>3. QED
    BY <1>1, <1>2, <2>1, <2>2 DEF Types, TypeOK, Spared, Idle, Base
<1>4. KindSound' /\ ConfigSound' /\ KeySound' /\ PolicySound' /\ SeenSound'
  BY <1>1, <1>2
  DEF Sound, KindSound, ConfigSound, KeySound, PolicySound, SeenSound, SameAction,
      Idle, PolicyDoc, Before, After, Restored, Unspent, Spared, Bound
<1>5. BackedSound'
  BY <1>1, <1>2
  DEF Sound, BackedSound, SameAction, Idle, Filed, Ruled, Login, Ready, After, Restored,
      Unspent, Spared, Bound,
      KindSound, ConfigSound, Before
<1>6. BaseSound' /\ GatewaySound'
  BY <1>1, <1>2
  DEF Sound, BaseSound, GatewaySound, SameAction, Idle, At, Composition, Restored,
      Unspent, Spared, Bound, KindSound
<1>7. QED
  BY <1>3, <1>4, <1>5, <1>6 DEF Sound

\* A gateway that is back serves the candidate; a failed reload leaves the
\* old configuration, or none, in it.
LEMMA ReloadStep ==
    ASSUME Types, Sound, Reload
    PROVE  Types' /\ Sound'
<1>1. /\ session.at = "reload" /\ ~Idle /\ session \in Session
      /\ UNCHANGED <<config, files, policy, key, base, seen, left>>
  BY Busy DEF Reload, Idle, At
<1>2. /\ Spared /\ session' \in Session /\ session'.created = session.created
      /\ SameAction(session', session)
      /\ identity => identity'
      /\ identity' \in BOOLEAN
      /\ gw' \in [state : {"off", "on", "broken"}, cfg : Config]
      /\ \/ gw'.state = "on" /\ gw'.cfg = session.want /\ session'.at = "done"
         \/ (gw' = gw \/ gw'.state # "on") /\ session'.at = "restore"
  <2>1. {"done", "restore"} \subseteq Step
    BY DEF Step
  <2>2. /\ gw.state \in {"off", "on", "broken"} /\ gw.cfg \in Config /\ identity \in BOOLEAN
        /\ gw \in [state : {"off", "on", "broken"}, cfg : Config] /\ session.want \in Config
    BY <1>1 DEF Types, TypeOK, Session
  <2>3. Spared
    BY <1>1, Unspared
  <2>4. CASE Serving(session.want) /\ Goto("done")
    BY <1>1, <2>1, <2>2, <2>3, <2>4, Going, Operated DEF Serving
  <2>5. CASE ReloadFails /\ Goto("restore")
    <3>1. CASE UNCHANGED <<gw, identity>>
      BY <1>1, <2>1, <2>2, <2>3, <2>5, <3>1, Going
    <3>2. CASE \/ Gateway("broken", gw.cfg) \/ Gateway("broken", session.want)
               \/ Gateway("off", session.want)
      BY <1>1, <2>1, <2>2, <2>3, <2>5, <3>2, Going, Operated
    <3>3. QED
      BY <2>5, <3>1, <3>2 DEF ReloadFails
  <2>6. QED
    BY <2>4, <2>5 DEF Reload
<1>3. Types'
  <2>1. {session'.orig, session'.want} \subseteq Config
    BY <1>2 DEF Session
  <2>2. QED
    BY <1>1, <1>2, <2>1 DEF Types, TypeOK, Spared, Idle, Base
<1>4. KindSound' /\ ConfigSound' /\ KeySound' /\ PolicySound' /\ SeenSound'
  BY <1>1, <1>2
  DEF Sound, KindSound, ConfigSound, KeySound, PolicySound, SeenSound, SameAction,
      Idle, PolicyDoc, Before, After, Restored, Unspent, Spared, Bound
<1>5. BackedSound'
  BY <1>1, <1>2
  DEF Sound, BackedSound, SameAction, Idle, Filed, Ruled, Login, Ready, After, Restored,
      Unspent, Spared, Bound
<1>6. BaseSound' /\ GatewaySound'
  BY <1>1, <1>2, ApplyAssumption
  DEF Sound, BaseSound, GatewaySound, SameAction, Idle, At, Composition, Restored,
      Unspent, Spared, Bound, KindSound,
      ConfigSound
<1>7. QED
  BY <1>3, <1>4, <1>5, <1>6 DEF Sound

\* The old configuration is back, or could not be written.
LEMMA RestoreStep ==
    ASSUME Types, Sound, Restore
    PROVE  Types' /\ Sound'
<1>1. /\ session.at = "restore" /\ ~Idle /\ session \in Session
      /\ UNCHANGED <<files, policy, key, identity, base, gw, seen>>
  BY Busy DEF Restore, Idle, At, docs
<1>2. /\ Spared /\ session' \in Session /\ session'.created = session.created
      /\ SameAction(session', session)
      /\ \/ /\ config' = session.orig
            /\ session'.at = IF session.kind = "tailscale" THEN "unkey" ELSE "restart"
         \/ config' = config /\ session'.at = "discard" /\ left'.restore # Quota.restore
  <2>1. {"unkey", "restart", "discard"} \subseteq Step /\ "restore" \in Bound
    BY DEF Step, Bound
  <2>2. QED
    BY <1>1, <2>1, Going, Spending, Unspared DEF Restore, Does, Meets
<1>3. Types'
  <2>1. config' \in Config
    BY <1>1, <1>2 DEF Types, TypeOK, Session
  <2>2. {session'.orig, session'.want} \subseteq Config
    BY <1>2 DEF Session
  <2>3. QED
    BY <1>1, <1>2, <2>1, <2>2 DEF Types, TypeOK, Spared, Idle, Base
<1>4. KindSound' /\ ConfigSound' /\ KeySound' /\ PolicySound' /\ SeenSound'
  BY <1>1, <1>2
  DEF Sound, KindSound, ConfigSound, KeySound, PolicySound, SeenSound, SameAction,
      Idle, PolicyDoc, Before, After, Restored, Unspent, Spared, Bound
<1>5. BackedSound'
  BY <1>1, <1>2
  DEF Sound, BackedSound, SameAction, Idle, Filed, Ruled, Login, Ready, After, Restored,
      Unspent, Spared, Bound,
      KeySound
<1>6. BaseSound' /\ GatewaySound'
  BY <1>1, <1>2
  DEF Sound, BaseSound, GatewaySound, SameAction, Idle, At, Composition, Restored,
      Unspent, Spared, Bound, KindSound
<1>7. QED
  BY <1>3, <1>4, <1>5, <1>6 DEF Sound

\* A gateway that is gone is started again with what it had.
LEMMA RestartStep ==
    ASSUME Types, Sound, Restart
    PROVE  Types' /\ Sound'
<1>1. /\ session.at = "restart" /\ ~Idle /\ session \in Session
      /\ UNCHANGED <<config, files, policy, key, base, seen>>
  BY Busy DEF Restart, Idle, At
<1>2. /\ Spared /\ session' \in Session /\ session'.created = session.created
      /\ SameAction(session', session)
      /\ session'.at = IF session.kind = "tailscale" THEN "failed" ELSE "discard"
      /\ identity => identity'
      /\ identity' \in BOOLEAN
      /\ gw' \in [state : {"off", "on", "broken"}, cfg : Config]
      /\ \/ gw.state # "off" /\ gw' = gw
         \/ gw'.state = "on" /\ gw'.cfg = session.orig
         \/ gw'.state # "on" /\ left'.restart # Quota.restart
  <2>1. {"failed", "discard"} \subseteq Step /\ "restart" \in Bound
    BY DEF Step, Bound
  <2>2. /\ gw \in [state : {"off", "on", "broken"}, cfg : Config] /\ session.orig \in Config
        /\ identity \in BOOLEAN
    BY <1>1 DEF Types, TypeOK, Session
  <2>3. Goto(IF session.kind = "tailscale" THEN "failed" ELSE "discard")
    BY DEF Restart, At
  <2>4. CASE gw.state # "off" /\ UNCHANGED <<gw, identity, left>>
    BY <1>1, <2>1, <2>2, <2>3, <2>4, Going, Unspared
  <2>5. CASE Serving(session.orig) /\ UNCHANGED left
    BY <1>1, <2>1, <2>2, <2>3, <2>5, Going, Unspared, Operated DEF Serving
  <2>6. CASE Spend("restart") /\ \E state \in {"off", "broken"} : Gateway(state, session.orig)
    BY <1>1, <2>1, <2>2, <2>3, <2>6, Going, Spending, Operated
  <2>7. QED
    BY <2>4, <2>5, <2>6 DEF Restart
<1>3. Types'
  <2>1. {session'.orig, session'.want} \subseteq Config
    BY <1>2 DEF Session
  <2>2. QED
    BY <1>1, <1>2, <2>1 DEF Types, TypeOK, Spared, Idle, Base
<1>4. KindSound' /\ ConfigSound' /\ KeySound' /\ PolicySound' /\ SeenSound'
  BY <1>1, <1>2
  DEF Sound, KindSound, ConfigSound, KeySound, PolicySound, SeenSound, SameAction,
      Idle, PolicyDoc, Before, After, Restored, Unspent, Spared, Bound
<1>5. BackedSound'
  BY <1>1, <1>2
  DEF Sound, BackedSound, SameAction, Idle, Filed, Ruled, Login, Ready, After, Restored,
      Unspent, Spared, Bound
<1>6. BaseSound' /\ GatewaySound'
  BY <1>1, <1>2
  DEF Sound, BaseSound, GatewaySound, SameAction, Idle, At, Composition, Restored,
      Unspent, Spared, Bound, KindSound
<1>7. QED
  BY <1>3, <1>4, <1>5, <1>6 DEF Sound

\* What the candidate had brought goes; what was there before stays.
LEMMA DiscardStep ==
    ASSUME Types, Sound, Discard
    PROVE  Types' /\ Sound'
<1>1. /\ session.at \in {"discard", "unkey"} /\ ~Idle /\ session \in Session
      /\ UNCHANGED <<config, identity, base, gw, seen>>
  BY Busy DEF Discard, Idle, At
<1>2. /\ Spared /\ session' \in Session /\ session'.created = session.created
      /\ SameAction(session', session)
      /\ session'.at = IF session.at = "unkey" THEN "restart" ELSE "failed"
      /\ \/ /\ files' = IF session.kind = "profile" /\ ~session.existed
                         THEN files \ {session.want.profile} ELSE files
            /\ key' = IF session.kind = "tailscale" THEN session.key0 ELSE key
            /\ policy' = IF session.created THEN NoFile ELSE policy
         \/ files' = files /\ key' = key /\ policy' = policy /\ left'.restore # Quota.restore
  <2>1. {"restart", "failed"} \subseteq Step /\ "restore" \in Bound
    BY DEF Step, Bound
  <2>2. QED
    BY <1>1, <2>1, Going, Spending, Unspared DEF Discard, At
<1>3. Types'
  <2>1. files' \subseteq Profile \cup Workspace /\ policy' \in Policy \cup {NoFile}
    BY <1>2 DEF Types, TypeOK
  <2>2. key' \in Key \cup {NoKey}
    BY <1>1, <1>2 DEF Types, TypeOK, Session
  <2>3. {session'.orig, session'.want} \subseteq Config
    BY <1>2 DEF Session
  <2>4. QED
    BY <1>1, <1>2, <2>1, <2>2, <2>3 DEF Types, TypeOK, Spared, Idle, Base
<1>4. KindSound' /\ ConfigSound' /\ KeySound' /\ PolicySound' /\ SeenSound'
  BY <1>1, <1>2
  DEF Sound, KindSound, ConfigSound, KeySound, PolicySound, SeenSound, SameAction,
      Idle, PolicyDoc, Before, After, Restored, Unspent, Spared, Bound
<1>5. BackedSound'
  BY <1>1, <1>2
  DEF Sound, BackedSound, SameAction, Idle, Filed, Ruled, Login, Ready, After, Restored,
      Unspent, Spared, Bound,
      ConfigSound, KeySound, PolicySound, KindSound, Before
<1>6. BaseSound' /\ GatewaySound'
  BY <1>1, <1>2
  DEF Sound, BaseSound, GatewaySound, SameAction, Idle, At, Composition, Restored,
      Unspent, Spared, Bound, KindSound
<1>7. QED
  BY <1>3, <1>4, <1>5, <1>6 DEF Sound

\* The record of the composition comes before the configuration.
LEMMA CommitBaseStep ==
    ASSUME Types, Sound, CommitBase
    PROVE  Types' /\ Sound'
<1>1. /\ session.at = "base" /\ ~Idle /\ session \in Session
      /\ UNCHANGED <<config, files, policy, key, identity, gw, seen>>
  BY Busy DEF CommitBase, Idle, At
<1>2. /\ Spared /\ session' \in Session /\ session'.created = session.created
      /\ SameAction(session', session)
      /\ \/ /\ session.want.profile \in Workspace /\ session'.at = "commit"
            /\ base' = [effective |-> session.want.profile,
                        from |-> IF base.effective = config.profile
                                 THEN base.from ELSE config.profile]
         \/ base' = base /\ session'.at = "failed"
         \/ /\ session.want.profile \notin Workspace \ {config.profile}
            /\ base' = base /\ session'.at = "commit"
  <2>1. {"commit", "failed"} \subseteq Step /\ "fault" \in Bound
    BY DEF Step, Bound
  <2>2. QED
    BY <1>1, <2>1, Going, Spending, Unspared DEF CommitBase, Does, Meets
<1>3. Types'
  <2>1. base' \in Base
    BY <1>1, <1>2 DEF Types, TypeOK, Session, Config, Base, AnyProfile
  <2>2. {session'.orig, session'.want} \subseteq Config
    BY <1>2 DEF Session
  <2>3. QED
    BY <1>1, <1>2, <2>1, <2>2 DEF Types, TypeOK, Spared, Idle, Base
<1>4. KindSound' /\ ConfigSound' /\ KeySound' /\ PolicySound' /\ SeenSound'
  BY <1>1, <1>2
  DEF Sound, KindSound, ConfigSound, KeySound, PolicySound, SeenSound, SameAction,
      Idle, PolicyDoc, Before, After, Restored, Unspent, Spared, Bound
<1>5. BackedSound'
  BY <1>1, <1>2
  DEF Sound, BackedSound, SameAction, Idle, Filed, Ruled, Login, Ready, After, Restored,
      Unspent, Spared, Bound
<1>6. BaseSound' /\ GatewaySound'
  BY <1>1, <1>2
  DEF Sound, BaseSound, GatewaySound, SameAction, Idle, At, Composition, Restored,
      Unspent, Spared, Bound, KindSound,
      ConfigSound, Before
<1>7. QED
  BY <1>3, <1>4, <1>5, <1>6 DEF Sound

\* The candidate is on disk before the network is taken over.
LEMMA CommitConfigStep ==
    ASSUME Types, Sound, CommitConfig
    PROVE  Types' /\ Sound'
<1>1. /\ session.at = "commit" /\ ~Idle /\ session \in Session
      /\ UNCHANGED <<files, policy, key, identity, base, gw, seen>>
  BY Busy DEF CommitConfig, Idle, At, docs
<1>2. /\ Spared /\ session' \in Session /\ session'.created = session.created
      /\ SameAction(session', session)
      /\ \/ config' = session.want /\ session'.at = "committed"
         \/ config' = config /\ session'.at = "unbase"
  <2>1. {"committed", "unbase"} \subseteq Step /\ "fault" \in Bound
    BY DEF Step, Bound
  <2>2. QED
    BY <1>1, <2>1, Going, Spending, Unspared DEF CommitConfig, Does, Meets
<1>3. Types'
  <2>1. config' \in Config
    BY <1>1, <1>2 DEF Types, TypeOK, Session
  <2>2. {session'.orig, session'.want} \subseteq Config
    BY <1>2 DEF Session
  <2>3. QED
    BY <1>1, <1>2, <2>1, <2>2 DEF Types, TypeOK, Spared, Idle, Base
<1>4. KindSound' /\ ConfigSound' /\ KeySound' /\ PolicySound' /\ SeenSound'
  BY <1>1, <1>2
  DEF Sound, KindSound, ConfigSound, KeySound, PolicySound, SeenSound, SameAction,
      Idle, PolicyDoc, Before, After, Restored, Unspent, Spared, Bound
<1>5. BackedSound'
  BY <1>1, <1>2
  DEF Sound, BackedSound, SameAction, Idle, Filed, Ruled, Login, Ready, After, Restored,
      Unspent, Spared, Bound
<1>6. BaseSound' /\ GatewaySound'
  BY <1>1, <1>2
  DEF Sound, BaseSound, GatewaySound, SameAction, Idle, At, Composition, Restored,
      Unspent, Spared, Bound, KindSound
<1>7. QED
  BY <1>3, <1>4, <1>5, <1>6 DEF Sound

\* A request that was cancelled goes back once more.
LEMMA CommittedStep ==
    ASSUME Types, Sound, Committed
    PROVE  Types' /\ Sound'
<1>1. /\ session.at = "committed" /\ ~Idle /\ session \in Session
      /\ UNCHANGED <<config, files, policy, key, identity, base, gw, seen>>
  BY Busy DEF Committed, Idle, At, docs
<1>2. /\ Spared /\ session' \in Session /\ session'.created = session.created
      /\ SameAction(session', session)
      /\ session'.at \in {"takeover", "uncommit"}
  <2>1. {"takeover", "uncommit"} \subseteq Step /\ "fault" \in Bound
    BY DEF Step, Bound
  <2>2. QED
    BY <1>1, <2>1, Going, Spending, Unspared DEF Committed, Does, Meets
<1>3. Types'
  <2>1. {session'.orig, session'.want} \subseteq Config
    BY <1>2 DEF Session
  <2>2. QED
    BY <1>1, <1>2, <2>1 DEF Types, TypeOK, Spared, Idle, Base
<1>4. KindSound' /\ ConfigSound' /\ KeySound' /\ PolicySound' /\ SeenSound'
  BY <1>1, <1>2
  DEF Sound, KindSound, ConfigSound, KeySound, PolicySound, SeenSound, SameAction,
      Idle, PolicyDoc, Before, After, Restored, Unspent, Spared, Bound
<1>5. BackedSound'
  BY <1>1, <1>2
  DEF Sound, BackedSound, SameAction, Idle, Filed, Ruled, Login, Ready, After, Restored,
      Unspent, Spared, Bound
<1>6. BaseSound' /\ GatewaySound'
  BY <1>1, <1>2
  DEF Sound, BaseSound, GatewaySound, SameAction, Idle, At, Composition, Restored,
      Unspent, Spared, Bound, KindSound
<1>7. QED
  BY <1>3, <1>4, <1>5, <1>6 DEF Sound

\* The old configuration is back before the old record.
LEMMA UncommitStep ==
    ASSUME Types, Sound, Uncommit
    PROVE  Types' /\ Sound'
<1>1. /\ session.at = "uncommit" /\ ~Idle /\ session \in Session
      /\ UNCHANGED <<files, policy, key, identity, base, gw, seen>>
  BY Busy DEF Uncommit, Idle, At, docs
<1>2. /\ Spared /\ session' \in Session /\ session'.created = session.created
      /\ SameAction(session', session)
      /\ session'.at = "unbase"
      /\ \/ config' = session.orig
         \/ config' = config /\ left'.restore # Quota.restore
  <2>1. {"unbase"} \subseteq Step /\ "restore" \in Bound
    BY DEF Step, Bound
  <2>2. QED
    BY <1>1, <2>1, Going, Spending, Unspared DEF Uncommit, Does, Meets
<1>3. Types'
  <2>1. config' \in Config
    BY <1>1, <1>2 DEF Types, TypeOK, Session
  <2>2. {session'.orig, session'.want} \subseteq Config
    BY <1>2 DEF Session
  <2>3. QED
    BY <1>1, <1>2, <2>1, <2>2 DEF Types, TypeOK, Spared, Idle, Base
<1>4. KindSound' /\ ConfigSound' /\ KeySound' /\ PolicySound' /\ SeenSound'
  BY <1>1, <1>2
  DEF Sound, KindSound, ConfigSound, KeySound, PolicySound, SeenSound, SameAction,
      Idle, PolicyDoc, Before, After, Restored, Unspent, Spared, Bound
<1>5. BackedSound'
  BY <1>1, <1>2
  DEF Sound, BackedSound, SameAction, Idle, Filed, Ruled, Login, Ready, After, Restored,
      Unspent, Spared, Bound,
      KindSound, KeySound
<1>6. BaseSound' /\ GatewaySound'
  BY <1>1, <1>2
  DEF Sound, BaseSound, GatewaySound, SameAction, Idle, At, Composition, Restored,
      Unspent, Spared, Bound, KindSound
<1>7. QED
  BY <1>3, <1>4, <1>5, <1>6 DEF Sound

\* The old record is back, or could not be written.
LEMMA RestoreBaseStep ==
    ASSUME Types, Sound, RestoreBase
    PROVE  Types' /\ Sound'
<1>1. /\ session.at = "unbase" /\ ~Idle /\ session \in Session
      /\ UNCHANGED <<config, files, policy, key, identity, gw, seen>>
  BY Busy DEF RestoreBase, Idle, At
<1>2. /\ Spared /\ session' \in Session /\ session'.created = session.created
      /\ SameAction(session', session)
      /\ session'.at = "failed"
      /\ \/ base' = session.base0
         \/ base' = base /\ left'.restore # Quota.restore
  <2>1. {"failed"} \subseteq Step /\ "restore" \in Bound
    BY DEF Step, Bound
  <2>2. QED
    BY <1>1, <2>1, Going, Spending, Unspared DEF RestoreBase, Does, Meets
<1>3. Types'
  <2>1. base' \in Base
    BY <1>1, <1>2 DEF Types, TypeOK, Session, Base
  <2>2. {session'.orig, session'.want} \subseteq Config
    BY <1>2 DEF Session
  <2>3. QED
    BY <1>1, <1>2, <2>1, <2>2 DEF Types, TypeOK, Spared, Idle, Base
<1>4. KindSound' /\ ConfigSound' /\ KeySound' /\ PolicySound' /\ SeenSound'
  BY <1>1, <1>2
  DEF Sound, KindSound, ConfigSound, KeySound, PolicySound, SeenSound, SameAction,
      Idle, PolicyDoc, Before, After, Restored, Unspent, Spared, Bound
<1>5. BackedSound'
  BY <1>1, <1>2
  DEF Sound, BackedSound, SameAction, Idle, Filed, Ruled, Login, Ready, After, Restored,
      Unspent, Spared, Bound
<1>6. BaseSound' /\ GatewaySound'
  BY <1>1, <1>2
  DEF Sound, BaseSound, GatewaySound, SameAction, Idle, At, Composition, Restored,
      Unspent, Spared, Bound, KindSound
<1>7. QED
  BY <1>3, <1>4, <1>5, <1>6 DEF Sound

\* The gateway serves the candidate, or nothing.
LEMMA TakeOverStep ==
    ASSUME Types, Sound, TakeOver
    PROVE  Types' /\ Sound'
<1>1. /\ session.at = "takeover" /\ ~Idle /\ session \in Session
      /\ UNCHANGED <<config, files, policy, key, base, seen, left>>
  BY Busy DEF TakeOver, Idle, At
<1>2. /\ Spared /\ session' \in Session /\ session'.created = session.created
      /\ SameAction(session', session)
      /\ identity => identity'
      /\ identity' \in BOOLEAN
      /\ gw' \in [state : {"off", "on", "broken"}, cfg : Config]
      /\ \/ gw'.state = "on" /\ gw'.cfg = session.want /\ session'.at = "done"
         \/ gw'.state # "on" /\ session'.at = "late"
  <2>1. {"done", "late"} \subseteq Step
    BY DEF Step
  <2>2. session.want \in Config /\ Spared
    BY <1>1, Unspared DEF Session
  <2>3. CASE Serving(session.want) /\ Goto("done")
    BY <1>1, <2>1, <2>2, <2>3, Going, Operated DEF Serving
  <2>4. CASE /\ \E state \in {"off", "broken"} : Gateway(state, session.want)
             /\ Goto("late")
    BY <1>1, <2>1, <2>2, <2>4, Going, Operated
  <2>5. QED
    BY <2>3, <2>4 DEF TakeOver
<1>3. Types'
  <2>1. {session'.orig, session'.want} \subseteq Config
    BY <1>2 DEF Session
  <2>2. QED
    BY <1>1, <1>2, <2>1 DEF Types, TypeOK, Spared, Idle, Base
<1>4. KindSound' /\ ConfigSound' /\ KeySound' /\ PolicySound' /\ SeenSound'
  BY <1>1, <1>2
  DEF Sound, KindSound, ConfigSound, KeySound, PolicySound, SeenSound, SameAction,
      Idle, PolicyDoc, Before, After, Restored, Unspent, Spared, Bound
<1>5. BackedSound'
  BY <1>1, <1>2
  DEF Sound, BackedSound, SameAction, Idle, Filed, Ruled, Login, Ready, After, Restored,
      Unspent, Spared, Bound
<1>6. BaseSound' /\ GatewaySound'
  BY <1>1, <1>2
  DEF Sound, BaseSound, GatewaySound, SameAction, Idle, At, Composition, Restored,
      Unspent, Spared, Bound, KindSound
<1>7. QED
  BY <1>3, <1>4, <1>5, <1>6 DEF Sound

\* A policy file is created only when there was none, and only for a
\* configuration that does not name one.
LEMMA CreatePolicyStep ==
    ASSUME Types, Sound, CreatePolicy
    PROVE  Types' /\ Sound'
<1>1. /\ session.at = "create" /\ ~Idle /\ session \in Session
      /\ UNCHANGED <<config, files, key, identity, base, gw, seen>>
  BY Busy DEF CreatePolicy, Idle, At
<1>2. /\ Spared /\ session' \in Session /\ SameAction(session', session)
      /\ \/ policy' = Empty /\ session'.at = "validate" /\ session'.created = TRUE
         \/ policy' = policy /\ session'.at = "failed" /\ session'.created = session.created
  <2>1. {"validate", "failed"} \subseteq Step /\ "fault" \in Bound
    BY DEF Step, Bound
  <2>2. CASE Meets("fault", "failed") /\ UNCHANGED policy
    BY <1>1, <2>1, <2>2, Going, Spending DEF Meets
  <2>3. CASE /\ policy' = Empty /\ UNCHANGED left
             /\ session' = [session EXCEPT !.at = "validate", !.created = TRUE]
    <3> DEFINE r == [session EXCEPT !.at = "validate"]
               t == [r EXCEPT !.created = TRUE]
    <3>1. Moved(r, session, "validate")
      BY <1>1, <2>1, SessionMoved
    <3>2. session' = t
      BY <2>3
    <3> HIDE DEF r
    <3>3. t \in Session
      BY <3>1 DEF Moved, Session
    <3>4. t.at = r.at /\ t.created = TRUE /\ SameAction(t, r)
      BY <3>1 DEF Moved, Session, SameAction
    <3> HIDE DEF t
    <3>5. SameAction(t, session)
      BY <3>1, <3>4 DEF Moved, SameAction
    <3>6. QED
      BY <2>3, <3>1, <3>2, <3>3, <3>4, <3>5, Unspared DEF Moved
  <2>4. QED
    BY <2>2, <2>3 DEF CreatePolicy
<1>3. Types'
  <2>1. policy' \in Policy \cup {NoFile}
    BY <1>2, ApplyAssumption DEF Types, TypeOK
  <2>2. {session'.orig, session'.want} \subseteq Config
    BY <1>2 DEF Session
  <2>3. QED
    BY <1>1, <1>2, <2>1, <2>2 DEF Types, TypeOK, Spared, Idle, Base
<1>4. KindSound' /\ ConfigSound' /\ KeySound' /\ PolicySound' /\ SeenSound'
  BY <1>1, <1>2
  DEF Sound, KindSound, ConfigSound, KeySound, PolicySound, SeenSound, SameAction,
      Idle, PolicyDoc, Before, After, Restored, Unspent, Spared, Bound
<1>5. BackedSound'
  <2>1. \/ policy' # NoFile /\ session'.at = "validate"
        \/ policy' = policy /\ session'.at = "failed"
    BY <1>2, ApplyAssumption
  <2>2. QED
    BY <1>1, <1>2, <2>1
    DEF Sound, BackedSound, SameAction, Idle, Filed, Ruled, Login, Ready, After, Restored,
        Unspent, Spared, Bound
<1>6. BaseSound' /\ GatewaySound'
  BY <1>1, <1>2
  DEF Sound, BaseSound, GatewaySound, SameAction, Idle, At, Composition, Restored,
      Unspent, Spared, Bound, KindSound
<1>7. QED
  BY <1>3, <1>4, <1>5, <1>6 DEF Sound

-----------------------------------------------------------------------------
(* The start of an action.                                                 *)

\* What a candidate changes of the configuration, by the kind of the action.
LEMMA Candidates ==
    ASSUME config \in Config, base \in Base, NEW kind \in Kind, NEW want \in Candidate(kind)
    PROVE  /\ want \in Config
           /\ kind = "profile" => want.profile \in Profile
           /\ kind = "start" => want.profile \in Workspace \cup {config.profile, Managed}
           /\ kind \in {"policy", "forget"} => want = config
           /\ kind \notin {"profile", "start"} => want.profile = config.profile
           /\ kind # "tailscale" => want.tail = config.tail
           /\ kind # "control" => want.pol = config.pol
<1>1. CASE kind = "profile"
  <2>1. PICK p \in Profile : want = [config EXCEPT !.profile = p]
    BY <1>1 DEF Candidate
  <2>2. want \in Config
    BY <2>1 DEF Config, AnyProfile
  <2>3. QED
    BY <1>1, <2>1, <2>2 DEF Config
<1>2. CASE kind = "tailscale"
  <2>1. PICK on \in BOOLEAN : want = [config EXCEPT !.tail = on]
    BY <1>2 DEF Candidate
  <2>2. want \in Config
    BY <2>1 DEF Config
  <2>3. QED
    BY <1>2, <2>1, <2>2 DEF Config
<1>3. CASE kind = "control"
  <2>1. PICK n \in Net : want = [config EXCEPT !.net = n, !.pol = TRUE]
    BY <1>3 DEF Candidate
  <2> DEFINE c1 == [config EXCEPT !.net = n]
             c2 == [c1 EXCEPT !.pol = TRUE]
  <2>2. c1 \in Config /\ c1.profile = config.profile /\ c1.tail = config.tail
    <3>1. c1 \in Config
      BY DEF Config
    <3>2. QED
      BY <3>1 DEF Config
  <2>3. want = c2
    BY <2>1
  <2> HIDE DEF c1
  <2>4. c2 \in Config
    BY <2>2 DEF Config
  <2>5. c2.profile = c1.profile /\ c2.tail = c1.tail
    BY <2>2 DEF Config
  <2> HIDE DEF c2
  <2>6. QED
    BY <1>3, <2>2, <2>3, <2>4, <2>5
<1>4. CASE kind = "start"
  <2>1. PICK p \in Composed : want = [config EXCEPT !.profile = p]
    BY <1>4 DEF Candidate
  <2>2. p \in Workspace \cup {config.profile, Managed} /\ p \in AnyProfile
    BY <2>1 DEF Composed, Config, AnyProfile
  <2>3. want \in Config
    BY <2>1, <2>2 DEF Config
  <2>4. QED
    BY <1>4, <2>1, <2>2, <2>3 DEF Config
<1>5. CASE kind \in {"policy", "forget"}
  BY <1>5 DEF Candidate
<1>6. QED
  BY <1>1, <1>2, <1>3, <1>4, <1>5 DEF Kind

LEMMA FirstSteps ==
    ASSUME NEW kind \in Kind, NEW want, NEW k
    PROVE  LET s == FirstStep(kind, want, k) IN
           /\ s \in {"profile", "key", "create", "forget", "artifact", "validate"}
           /\ s = "profile" <=> kind = "profile"
           /\ s = "key" <=> kind = "tailscale" /\ k # NoKey
           /\ s = "create" <=> kind = "control" /\ ~config.pol /\ policy = NoFile
           /\ s = "forget" <=> kind = "forget"
           /\ s = "artifact" <=> kind = "start" /\ want.profile \in Workspace
BY DEF FirstStep, Kind

\* An action begins on the documents as they are, which its author has seen.
LEMMA BeginStep ==
    ASSUME Types, Sound, NEW c \in Client, NEW kind \in Kind, NEW want \in Candidate(kind),
           NEW k \in IF kind = "tailscale" THEN Key \cup {NoKey} ELSE {NoKey},
           NEW d \in Policy, Begin(c, kind, want, k, d)
    PROVE  Types' /\ Sound'
<1>1. /\ Idle /\ Spared /\ Current(c, kind) /\ Permitted(kind, want, k)
      /\ UNCHANGED <<config, files, policy, key, identity, base, gw, seen>>
  BY Spending DEF Begin, Bound, docs
<1>2. /\ config \in Config /\ base \in Base /\ key \in Key \cup {NoKey}
      /\ gw.state \in {"off", "on", "broken"}
  BY DEF Types, TypeOK, Base
<1>3. /\ want \in Config
      /\ kind = "profile" => want.profile \in Profile
      /\ kind = "start" => want.profile \in Workspace \cup {config.profile, Managed}
      /\ kind \in {"policy", "forget"} => want = config
      /\ kind \notin {"profile", "start"} => want.profile = config.profile
      /\ kind # "tailscale" => want.tail = config.tail
      /\ kind # "control" => want.pol = config.pol
  BY <1>2, Candidates
<1>4. session' = [at |-> FirstStep(kind, want, k), kind |-> kind, by |-> c,
                  want |-> want, doc |-> d, newkey |-> k,
                  orig |-> config, key0 |-> key, base0 |-> base,
                  existed |-> want.profile \in files, created |-> FALSE,
                  running |-> gw.state # "off"]
  BY DEF Begin
<1>5. k \in Key \cup {NoKey} /\ FirstStep(kind, want, k) \in Step
  <2>1. k \in Key \cup {NoKey}
    OBVIOUS
  <2>2. FirstStep(kind, want, k) \in Step
    BY FirstSteps DEF Step
  <2>3. QED
    BY <2>1, <2>2
<1>6. session' \in Session
  BY <1>2, <1>3, <1>4, <1>5 DEF Session
<1>7. /\ session'.at = FirstStep(kind, want, k) /\ session'.kind = kind /\ session'.by = c
      /\ session'.want = want /\ session'.newkey = k /\ session'.orig = config
      /\ session'.key0 = key /\ session'.base0 = base /\ session'.created = FALSE
      /\ session'.existed = (want.profile \in files)
      /\ session'.running = (gw.state # "off")
  BY <1>4
<1>8. /\ session'.at \in {"profile", "key", "create", "forget", "artifact", "validate"}
      /\ session'.at = "profile" <=> kind = "profile"
      /\ session'.at = "key" <=> kind = "tailscale" /\ k # NoKey
      /\ session'.at = "create" <=> kind = "control" /\ ~config.pol /\ policy = NoFile
      /\ session'.at = "forget" <=> kind = "forget"
      /\ session'.at = "artifact" <=> kind = "start" /\ want.profile \in Workspace
  BY <1>7, FirstSteps
<1> HIDE DEF FirstStep
<1>9. Types'
  BY <1>1, <1>2, <1>3, <1>6, <1>7 DEF Types, TypeOK, Spared, Base
<1>10. KindSound' /\ ConfigSound' /\ KeySound' /\ PolicySound' /\ SeenSound'
  <2>1. KindSound'
    BY <1>1, <1>3, <1>7, <1>8 DEF KindSound, Permitted
  <2>2. ConfigSound' /\ KeySound' /\ PolicySound'
    BY <1>1, <1>3, <1>7, <1>8 DEF ConfigSound, KeySound, PolicySound, After
  <2>3. SeenSound'
    BY <1>1, <1>7, <1>8 DEF SeenSound, Current, PolicyDoc
  <2>4. QED
    BY <2>1, <2>2, <2>3
<1>11. BackedSound'
  <2> SUFFICES ASSUME Restored' PROVE BackedSound'
    BY DEF BackedSound
  <2>1. /\ Filed(config) /\ Ruled(config) /\ Login(config, key)
    BY <1>1 DEF Sound, BackedSound, Restored, Unspent, Spared, Bound
  <2>2. session'.at \notin {"profile", "artifact"} => Filed(want)
    BY <1>3, <1>8, <2>1 DEF Filed
  <2>3. session'.at # "create" => Ruled(want)
    BY <1>3, <1>8, <2>1 DEF Ruled, Kind
  <2>4. session'.at # "key" => Login(want, key)
    BY <1>1, <1>3, <1>8, <2>1 DEF Login, Permitted
  <2>5. kind = "profile" /\ want.profile \notin files => config.profile # want.profile
    BY <1>3, <2>1, ApplyAssumption DEF Filed
  <2>6. /\ Filed(config)' /\ Ruled(config)' /\ Login(config, key)'
        /\ Filed(want)' = Filed(want) /\ Ruled(want)' = Ruled(want)
        /\ Login(want, key)' = Login(want, key)
    BY <1>1, <2>1 DEF Filed, Ruled, Login
  <2>7. QED
    BY <1>1, <1>7, <1>8, <2>2, <2>3, <2>4, <2>5, <2>6 DEF BackedSound, Filed, Ruled, Login
<1>12. BaseSound' /\ GatewaySound'
  BY <1>1, <1>7, <1>8
  DEF Sound, BaseSound, GatewaySound, Idle, At, Composition, Restored,
      Unspent, Spared, Bound, Permitted
<1>13. QED
  BY <1>9, <1>10, <1>11, <1>12 DEF Sound

-----------------------------------------------------------------------------
(* Answers, clients, the command line and crashes.                         *)

\* Between two actions only the documents and the gateway matter.
LEMMA ReturnStep ==
    ASSUME Types, Sound, Return
    PROVE  Types' /\ Sound'
<1>1. /\ session.at \in {"done", "failed", "late"} /\ ~Idle /\ session \in Session
      /\ session' = NoSession /\ Idle'
      /\ UNCHANGED <<config, files, policy, key, identity, base, gw, left>> /\ Spared
  BY Busy, Unspared DEF Return, Idle, NoSession, docs
<1>2. seen' \in [Client -> [revision : Config, policy : Policy]]
  <2>1. PolicyDoc \in Policy /\ config \in Config /\ session.by \in Client
    BY <1>1, ApplyAssumption DEF Types, TypeOK, PolicyDoc, Session
  <2>2. seen \in [Client -> [revision : Config, policy : Policy]]
    BY DEF Types, TypeOK
  <2>3. CASE seen' = seen
    BY <2>2, <2>3
  <2>4. CASE seen' = [seen EXCEPT ![session.by] = [@ EXCEPT !.policy = PolicyDoc]]
    BY <2>1, <2>2, <2>4
  <2>5. CASE seen' = [seen EXCEPT ![session.by] = [@ EXCEPT !.revision = config]]
    BY <2>1, <2>2, <2>5
  <2>6. QED
    BY <2>3, <2>4, <2>5 DEF Return
<1>3. Types'
  BY <1>1, <1>2 DEF Types, TypeOK
<1>4. KindSound' /\ ConfigSound' /\ KeySound' /\ PolicySound' /\ SeenSound'
  BY <1>1 DEF KindSound, ConfigSound, KeySound, PolicySound, SeenSound
<1>5. BackedSound'
  BY <1>1 DEF Sound, BackedSound, Filed, Ruled, Login, Restored, Unspent
<1>6. BaseSound' /\ GatewaySound'
  BY <1>1
  DEF Sound, BaseSound, GatewaySound, Idle, At, Composition, Restored, Unspent,
      ConfigSound, After
<1>7. QED
  BY <1>3, <1>4, <1>5, <1>6 DEF Sound

\* A crash keeps whichever configuration is on disk, with all it needs.
LEMMA CrashStep ==
    ASSUME Types, Sound, Crash
    PROVE  Types' /\ Sound'
<1>1. /\ ~Idle /\ session \in Session /\ session' = NoSession /\ Idle'
      /\ UNCHANGED <<config, files, policy, key, identity, base, seen>>
  BY Busy DEF Crash, Idle, NoSession, docs
<1>2. Spared /\ left'.crash # Quota.crash
  BY Spending DEF Crash, Bound
<1>3. gw' \in [state : {"off", "on", "broken"}, cfg : Config]
  <2>1. {session.orig, session.want} \subseteq Config
    BY <1>1 DEF Session
  <2>2. QED
    BY <2>1 DEF Crash, Types, TypeOK
<1>4. Types'
  BY <1>1, <1>2, <1>3 DEF Types, TypeOK, Spared
<1>5. KindSound' /\ ConfigSound' /\ KeySound' /\ PolicySound' /\ SeenSound'
  BY <1>1 DEF KindSound, ConfigSound, KeySound, PolicySound, SeenSound
<1>6. BackedSound'
  BY <1>1, <1>2
  DEF Sound, BackedSound, Filed, Ruled, Login, Restored, Unspent, Spared, Bound
<1>7. BaseSound' /\ GatewaySound'
  BY <1>1, <1>2 DEF BaseSound, GatewaySound, Unspent, Idle, At
<1>8. QED
  BY <1>4, <1>5, <1>6, <1>7 DEF Sound

\* A client that waits for its answer reads nothing in between.
LEMMA ReadStep ==
    ASSUME Types, Sound, NEW c \in Client, ReadRevision(c) \/ ReadPolicy(c)
    PROVE  Types' /\ Sound'
<1>1. /\ Spared /\ ~Waiting(c)
      /\ UNCHANGED <<config, files, policy, key, identity, base, gw, session>>
  BY Spending DEF ReadRevision, ReadPolicy, Bound, docs
<1>2. /\ seen' \in [Client -> [revision : Config, policy : Policy]]
      /\ \A a \in Client : a # c => seen'[a] = seen[a]
  <2>1. PolicyDoc \in Policy /\ config \in Config
    BY ApplyAssumption DEF Types, TypeOK, PolicyDoc
  <2>2. seen \in [Client -> [revision : Config, policy : Policy]]
    BY DEF Types, TypeOK
  <2>3. CASE seen' = [seen EXCEPT ![c].revision = config]
    BY <2>1, <2>2, <2>3
  <2>4. CASE seen' = [seen EXCEPT ![c].policy = PolicyDoc]
    BY <2>1, <2>2, <2>4
  <2>5. QED
    BY <2>3, <2>4 DEF ReadRevision, ReadPolicy
<1>3. Types'
  BY <1>1, <1>2 DEF Types, TypeOK, Spared, Idle
<1>4. KindSound' /\ ConfigSound' /\ KeySound' /\ PolicySound'
  BY <1>1
  DEF Sound, KindSound, ConfigSound, KeySound, PolicySound, Idle, Restored, Unspent,
      Spared, Bound
<1>5. SeenSound'
  <2>1. ~Idle => session.by \in Client /\ session.by # c
    BY <1>1, Busy DEF Waiting, Session
  <2>2. QED
    BY <1>1, <1>2, <2>1 DEF Sound, SeenSound, Idle, PolicyDoc
<1>6. BackedSound' /\ BaseSound' /\ GatewaySound'
  BY <1>1
  DEF Sound, BackedSound, BaseSound, GatewaySound, Idle, At, Composition, Filed, Ruled,
      Login, Restored, Unspent, Spared, Bound
<1>7. QED
  BY <1>3, <1>4, <1>5, <1>6 DEF Sound

\* The command line starts the gateway with what is on disk.
LEMMA CommandStep ==
    ASSUME Types, Sound, OmgStart \/ Stop
    PROVE  Types' /\ Sound'
<1>1. /\ Spared /\ Idle /\ Idle'
      /\ UNCHANGED <<config, files, policy, key, base, seen, session>>
  BY Spending DEF OmgStart, Stop, Bound, Idle
<1>2. /\ gw' \in [state : {"off", "on", "broken"}, cfg : Config]
      /\ gw'.state = "on" => gw'.cfg = config
      /\ identity => identity'
      /\ identity' \in BOOLEAN
  <2>1. config \in Config /\ gw.cfg \in Config
    BY DEF Types, TypeOK
  <2>2. CASE OmgStart
    BY <2>1, <2>2, Operated DEF OmgStart, Serving
  <2>3. CASE Stop
    BY <2>1, <2>3, Operated DEF Stop
  <2>4. QED
    BY <2>2, <2>3
<1>3. Types'
  BY <1>1, <1>2 DEF Types, TypeOK, Spared
<1>4. KindSound' /\ ConfigSound' /\ KeySound' /\ PolicySound' /\ SeenSound'
  BY <1>1 DEF KindSound, ConfigSound, KeySound, PolicySound, SeenSound
<1>5. BackedSound' /\ BaseSound' /\ GatewaySound'
  BY <1>1, <1>2
  DEF Sound, BackedSound, BaseSound, GatewaySound, Composition, Filed, Ruled,
      Login, Restored, Unspent, Spared, Bound, Idle, At
<1>6. QED
  BY <1>3, <1>4, <1>5 DEF Sound

\* Init establishes the invariant.
LEMMA InitSound == Init => IInv
<1> SUFFICES ASSUME Init PROVE Types /\ Sound
  BY DEF IInv
<1>1. PICK n \in Net :
        config = [profile |-> Managed, tail |-> FALSE, net |-> n, pol |-> FALSE]
  BY DEF Init
<1>2. config \in Config /\ config.profile = Managed /\ ~config.tail /\ ~config.pol
  BY <1>1 DEF Config, AnyProfile
<1>3. session = NoSession /\ Idle /\ left = Quota
  BY DEF Init, Idle, NoSession
<1>4. Types
  <2>1. \A event \in Bound : Quota[event] <= Quota[event]
    BY ApplyAssumption
  <2>2. /\ base \in [effective : AnyProfile, from : AnyProfile]
        /\ gw \in [state : {"off", "on", "broken"}, cfg : Config]
        /\ seen \in [Client -> [revision : Config, policy : Policy]]
    BY <1>2, ApplyAssumption DEF Init, AnyProfile, PolicyDoc
  <2>3. QED
    BY <1>2, <1>3, <2>1, <2>2, ApplyAssumption DEF Init, Types, TypeOK
<1>5. KindSound /\ ConfigSound /\ KeySound /\ PolicySound /\ SeenSound
  BY <1>3 DEF KindSound, ConfigSound, KeySound, PolicySound, SeenSound
<1>6. BackedSound /\ BaseSound /\ GatewaySound
  BY <1>2, <1>3, ApplyAssumption
  DEF Init, BackedSound, BaseSound, GatewaySound, Filed, Ruled, Login, Composition
<1>7. QED
  BY <1>4, <1>5, <1>6 DEF Sound

LEMMA StutterStep ==
    ASSUME Types, Sound, UNCHANGED vars
    PROVE  Types' /\ Sound'
<1>1. UNCHANGED <<config, files, policy, key, identity, base, gw, seen, session, left>>
  BY DEF vars, docs
<1>2. Types'
  BY <1>1 DEF Types, TypeOK, Idle
<1>3. KindSound' /\ ConfigSound' /\ KeySound' /\ PolicySound' /\ SeenSound'
  BY <1>1
  DEF Sound, KindSound, ConfigSound, KeySound, PolicySound, SeenSound, Idle, PolicyDoc,
      Restored, Unspent
<1>4. BackedSound' /\ BaseSound' /\ GatewaySound'
  BY <1>1
  DEF Sound, BackedSound, BaseSound, GatewaySound, Idle, At, Composition, Filed, Ruled,
      Login, Restored, Unspent
<1>5. QED
  BY <1>2, <1>3, <1>4 DEF Sound

\* Every step keeps it.
LEMMA StepSound == IInv /\ [Next]_vars => IInv'
<1> SUFFICES ASSUME Types, Sound, [Next]_vars PROVE Types' /\ Sound'
  BY DEF IInv
<1>1. CASE Prepare \/ Reload \/ RollBack \/ Start
  BY <1>1, WriteProfileStep, WriteKeyStep, CreatePolicyStep, ValidateStep, SaveStep,
     ForgetStep, ReloadStep, RestoreStep, RestartStep, DiscardStep, CommitBaseStep,
     CommitConfigStep, CommittedStep, UncommitStep, RestoreBaseStep, TakeOverStep
  DEF Prepare, RollBack, Start
<1>2. CASE Return \/ OmgStart \/ Stop \/ Crash
  BY <1>2, ReturnStep, CommandStep, CrashStep
<1>3. CASE Rest \/ UNCHANGED vars
  BY <1>3, StutterStep DEF Rest
<1>4. ASSUME NEW c \in Client, Ask(c) PROVE Types' /\ Sound'
  <2>1. ASSUME NEW kind \in Kind, NEW want \in Candidate(kind),
               NEW k \in IF kind = "tailscale" THEN Key \cup {NoKey} ELSE {NoKey},
               NEW d \in IF kind = "policy" THEN Policy ELSE {Empty},
               Begin(c, kind, want, k, d)
        PROVE  Types' /\ Sound'
    <3>1. d \in Policy
      BY ApplyAssumption
    <3>2. QED
      BY <2>1, <3>1, BeginStep
  <2>2. QED
    BY <1>4, <2>1 DEF Ask
<1>5. ASSUME NEW c \in Client, ReadRevision(c) \/ ReadPolicy(c) PROVE Types' /\ Sound'
  BY <1>5, ReadStep
<1>6. QED
  BY <1>1, <1>2, <1>3, <1>4, <1>5 DEF Next

(* IInv holds in every state the helper and its clients reach. *)
THEOREM Invariant == Spec => []IInv
BY InitSound, StepSound, PTL DEF Spec

(* The configuration on disk has its profile, its policy file, its way to  *)
(* log in to Tailscale and the record of its composition, between any two  *)
(* writes of any action and after any crash (configuration_actions.go and  *)
(* policy_workspace.go), for any profiles, keys and numbers of failures.   *)
THEOREM ConfigurationIsBacked == Spec => []ConfigBacked
<1>1. IInv => ConfigBacked
  BY DEF IInv, Types, Sound, ConfigBacked, BackedSound, BaseSound, Filed, Ruled, Login,
         Composition
<1>2. QED
  BY <1>1, Invariant, PTL

(* A serving gateway has the configuration that is on disk when no action  *)
(* is under way.                                                           *)
THEOREM GatewayHasConfig == Spec => []NoDrift
<1>1. IInv => NoDrift
  BY DEF IInv, Sound, NoDrift, GatewaySound
<1>2. QED
  BY <1>1, Invariant, PTL

(* An action that fails leaves the configuration, the key and the record   *)
(* as it found them, and the gateway running if it was.                    *)
THEOREM FailureLeavesNothing == Spec => []FailureRestores
<1>1. IInv => FailureRestores
  BY DEF IInv, Sound, FailureRestores, ConfigSound, KeySound, BaseSound, GatewaySound, At,
         Idle
<1>2. QED
  BY <1>1, Invariant, PTL

-----------------------------------------------------------------------------
(* The refinement: every step is an edit, a view or nothing to the clients.*)

Desired == [config |-> IF Pending THEN session.orig ELSE config, policy |-> PolicyDoc]
View == [c \in Client |-> [config |-> seen[c].revision, policy |-> seen[c].policy]]

\* The abstract specification with the mapping in its place.
LEMMA Mapped ==
    /\ Atomic!Init <=> /\ Desired \in [{"config", "policy"} -> Config \cup Policy]
                       /\ View = [c \in Client |-> Desired]
    /\ Atomic!Next <=> \E c \in Client, d \in DOMAIN Desired :
          \/ \E v \in Config \cup Policy :
                View' = [View EXCEPT ![c][d] = v] /\ UNCHANGED Desired
          \/ \E v \in Config \cup Policy :
                /\ View[c][d] = Desired[d] /\ Desired' = [Desired EXCEPT ![d] = v]
                /\ UNCHANGED View
    /\ Atomic!vars = <<Desired, View>>
BY DEF Atomic!Init, Atomic!Next, Atomic!Look, Atomic!Commit, Atomic!vars, Atomic!Document,
       Desired, View

\* An edit of the configuration, or of the policy, by a client that has seen it.
LEMMA ConfigEdited ==
    ASSUME NEW c \in Client, Desired.config = seen[c].revision, Desired'.config \in Config,
           Desired'.policy = Desired.policy, UNCHANGED seen
    PROVE  Atomic!Next
<1> DEFINE v == Desired'.config
<1>1. View' = View /\ View[c]["config"] = Desired["config"]
  BY DEF View, Desired
<1>2. Desired' = [Desired EXCEPT !["config"] = v]
  BY DEF Desired
<1>3. "config" \in DOMAIN Desired /\ v \in Config \cup Policy
  BY DEF Desired
<1> HIDE DEF v
<1>4. QED
  BY <1>1, <1>2, <1>3, Mapped

\* A policy that its author has seen may be replaced by another one.
LEMMA PolicyEdited ==
    ASSUME NEW c \in Client, Desired.policy = seen[c].policy, Desired'.policy \in Policy,
           Desired'.config = Desired.config, UNCHANGED seen
    PROVE  Atomic!Next
<1> DEFINE v == Desired'.policy
<1>1. View' = View /\ View[c]["policy"] = Desired["policy"]
  BY DEF View, Desired
<1>2. Desired' = [Desired EXCEPT !["policy"] = v]
  BY DEF Desired
<1>3. "policy" \in DOMAIN Desired /\ v \in Config \cup Policy
  BY DEF Desired
<1> HIDE DEF v
<1>4. QED
  BY <1>1, <1>2, <1>3, Mapped

\* A client has read one of the documents.
LEMMA Viewed ==
    ASSUME Types, NEW c \in Client, UNCHANGED Desired, NEW v,
           \/ v \in Config /\ seen' = [seen EXCEPT ![c].revision = v]
           \/ v \in Policy /\ seen' = [seen EXCEPT ![c].policy = v]
    PROVE  Atomic!Next
<1>1. seen \in [Client -> [revision : Config, policy : Policy]]
  BY DEF Types, TypeOK
<1>2. DOMAIN Desired = {"config", "policy"}
  BY DEF Desired
<1>3. CASE v \in Config /\ seen' = [seen EXCEPT ![c].revision = v]
  <2>1. seen' = [a \in Client |-> IF a = c THEN [revision |-> v, policy |-> seen[c].policy]
                                  ELSE seen[a]]
    BY <1>1, <1>3, ZenonT(60)
  <2>2. View' = [a \in Client |-> IF a = c THEN [config |-> v, policy |-> seen[c].policy]
                                  ELSE [config |-> seen[a].revision,
                                        policy |-> seen[a].policy]]
    BY <2>1 DEF View
  <2>3. View' = [View EXCEPT ![c]["config"] = v]
    BY <2>2 DEF View
  <2>4. QED
    BY <1>2, <1>3, <2>3, Mapped
<1>4. CASE v \in Policy /\ seen' = [seen EXCEPT ![c].policy = v]
  <2>1. View' = [View EXCEPT ![c]["policy"] = v]
    BY <1>1, <1>4 DEF View
  <2>2. QED
    BY <1>2, <1>4, <2>1, Mapped
<1>5. QED
  BY <1>3, <1>4

\* A step within an action: its author's view stays, and so does what the
\* others see of the policy. Once the edit is made it is made.
Internal ==
    /\ ~Idle /\ session \in Session /\ UNCHANGED seen /\ PolicyDoc' = PolicyDoc
    /\ session' = NoSession \/ (session' \in Session /\ SameAction(session', session))
    /\ Pending \/ (UNCHANGED config /\ ~Pending')

LEMMA InternalStep ==
    ASSUME Types', Sound, Internal
    PROVE  Atomic!Next \/ UNCHANGED <<Desired, View>>
<1>1. View' = View
  BY DEF Internal, View
<1>2. Desired'.policy = Desired.policy
  BY DEF Internal, Desired
<1>3. CASE Desired'.config = Desired.config
  BY <1>1, <1>2, <1>3 DEF Desired
<1>4. CASE Desired'.config # Desired.config
  <2>1. Pending /\ session.kind # "policy" /\ Desired.config = session.orig
    BY <1>4 DEF Internal, Desired, Pending
  <2>2. ~Pending'
    <3>1. Pending' => session' \in Session /\ session'.orig = session.orig
      BY DEF Internal, Pending, Idle, NoSession, SameAction
    <3>2. QED
      BY <1>4, <2>1, <3>1 DEF Desired
  <2>3. Desired'.config = config' /\ config' \in Config
    BY <2>2 DEF Desired, Types, TypeOK
  <2>4. session.by \in Client /\ seen[session.by].revision = session.orig
    BY <2>1 DEF Internal, Sound, SeenSound, Session
  <2>5. QED
    BY <1>2, <2>1, <2>3, <2>4, ConfigEdited DEF Internal
<1>5. QED
  BY <1>3, <1>4

\* The same, of any action that is under way.
LEMMA GoingOn ==
    ASSUME Types, ~Idle, NEW step \in Step, Goto(step)
    PROVE  /\ session \in Session /\ session' \in Session
           /\ SameAction(session', session) /\ session'.at = step /\ ~Idle'
BY Busy, Going, Steps DEF Idle

\* The steps that write, validate, reload, roll back and commit.
LEMMA WorkInternal ==
    ASSUME Types, Sound, Prepare \/ Reload \/ RollBack \/ Start, ~Save, ~CreatePolicy
    PROVE  Internal
<1>1. /\ ~Idle /\ UNCHANGED seen
      /\ \E step \in Step : Goto(step) /\ (At("takeover") => step \in {"done", "late"})
  BY DEF Prepare, RollBack, Start, WriteProfile, WriteKey, Validate, Forget, Reload,
         Restore, Restart, Discard, CommitBase, CommitConfig, Committed, Uncommit,
         RestoreBase, TakeOver, Does, Meets, At, Idle, Step, docs
<1>2. PICK step \in Step : Goto(step) /\ (At("takeover") => step \in {"done", "late"})
  BY <1>1
<1>3. /\ session \in Session /\ session' \in Session
      /\ SameAction(session', session) /\ session'.at = step /\ ~Idle'
  BY <1>1, <1>2, GoingOn
<1>4. PolicyDoc' = PolicyDoc
  <2>1. CASE Discard
    BY <1>1, <2>1 DEF Discard, Sound, PolicySound, PolicyDoc, At
  <2>2. CASE ~Discard
    BY <2>2
    DEF Prepare, RollBack, Start, WriteProfile, WriteKey, Validate, Forget, Reload,
        Restore, Restart, CommitBase, CommitConfig, Committed, Uncommit,
        RestoreBase, TakeOver, Does, Meets, PolicyDoc, docs
  <2>3. QED
    BY <2>1, <2>2
<1>5. Pending \/ (UNCHANGED config /\ ~Pending')
  <2>1. CASE At("takeover")
    <3>1. UNCHANGED config
      BY <2>1
      DEF Prepare, RollBack, Start, WriteProfile, WriteKey, Validate, Forget, Reload,
          Restore, Restart, Discard, CommitBase, CommitConfig, Committed, Uncommit,
          RestoreBase, TakeOver, Does, Meets, At
    <3>2. QED
      BY <1>2, <1>3, <2>1, <3>1 DEF Pending, At
  <2>2. CASE session.kind = "policy"
    <3>1. UNCHANGED config
      BY <1>1, <2>2
      DEF Prepare, RollBack, Start, WriteProfile, WriteKey, Validate, Forget, Reload,
          Restore, Restart, Discard, CommitBase, CommitConfig, Committed, Uncommit,
          RestoreBase, TakeOver, Does, Meets, At, Sound, KindSound, docs
    <3>2. QED
      BY <1>3, <2>2, <3>1 DEF Pending, SameAction
  <2>3. CASE ~At("takeover") /\ session.kind # "policy"
    <3>1. session.at \notin {"done", "late"}
      BY DEF Prepare, RollBack, Start, WriteProfile, WriteKey, Validate, Forget, Reload,
             Restore, Restart, Discard, CommitBase, CommitConfig, Committed, Uncommit,
             RestoreBase, TakeOver, At
    <3>2. QED
      BY <1>1, <2>3, <3>1 DEF Pending, At
  <2>4. QED
    BY <2>1, <2>2, <2>3
<1>6. QED
  BY <1>1, <1>3, <1>4, <1>5 DEF Internal

\* The empty policy file stands for the document that clients see anyway.
LEMMA CreateInternal ==
    ASSUME Types, Types', Sound, CreatePolicy
    PROVE  Internal
<1>1. session.at = "create" /\ ~Idle /\ session \in Session /\ UNCHANGED <<seen, config>>
  BY Busy DEF CreatePolicy, At, Idle
<1>2. session.kind = "control" /\ policy = NoFile
  BY <1>1 DEF Sound, KindSound, PolicySound
<1>3. session' \in Session /\ SameAction(session', session)
  <2>1. session'.at \in {"validate", "failed"}
    BY <1>1 DEF CreatePolicy, Meets, Goto, Session
  <2>2. session' \in Session
    BY <2>1, Steps DEF Types, NoSession, Step
  <2>3. SameAction(session', session)
    BY <1>1 DEF CreatePolicy, Meets, Goto, Session, SameAction
  <2>4. QED
    BY <2>2, <2>3
<1>4. PolicyDoc' = PolicyDoc
  BY <1>2 DEF CreatePolicy, PolicyDoc
<1>5. Pending
  BY <1>1, <1>2 DEF Pending, Idle
<1>6. QED
  BY <1>1, <1>3, <1>4, <1>5 DEF Internal

\* The end of an action, and a crash, when nobody is answered.
LEMMA EndInternal ==
    ASSUME Types, Sound, Return \/ Crash, UNCHANGED seen
    PROVE  Internal
<1>1. /\ ~Idle /\ session \in Session /\ session' = NoSession /\ Idle'
      /\ UNCHANGED <<config, policy>>
  BY Busy DEF Return, Crash, Idle, NoSession, docs
<1>2. QED
  BY <1>1 DEF Internal, Pending, PolicyDoc

\* The edit of the policy is its save; the other saves are within an action.
LEMMA SaveRefines ==
    ASSUME Types, Types', Sound, Save
    PROVE  Atomic!Next \/ UNCHANGED <<Desired, View>>
<1>1. session.at = "save" /\ ~Idle /\ session \in Session /\ UNCHANGED seen
  BY Busy DEF Save, At, Idle
<1>2. PICK step \in {"reload", "done", "discard"} : Goto(step)
  BY DEF Save, Meets
<1>3. /\ session' \in Session /\ SameAction(session', session) /\ session'.at = step
      /\ ~Idle'
  <2>1. step \in Step
    BY DEF Step
  <2>2. QED
    BY <1>1, <1>2, <2>1, GoingOn
<1>4. CASE session.kind # "policy"
  <2>1. UNCHANGED policy
    BY <1>4 DEF Save
  <2>2. Internal
    BY <1>1, <1>3, <1>4, <2>1 DEF Internal, Pending, PolicyDoc
  <2>3. QED
    BY <2>2, InternalStep
<1>5. CASE session.kind = "policy" /\ policy' = session.doc
  <2>1. UNCHANGED config
    BY <1>5 DEF Save
  <2>2. ~Pending /\ ~Pending'
    BY <1>3, <1>5 DEF Pending, SameAction
  <2>3. Desired.policy = seen[session.by].policy /\ session.by \in Client
    BY <1>1, <1>5 DEF Desired, Sound, SeenSound, Session
  <2>4. Desired'.policy \in Policy
    BY <1>1, <1>5, ApplyAssumption DEF Desired, PolicyDoc, Session
  <2>5. Desired'.config = Desired.config
    BY <2>1, <2>2 DEF Desired
  <2>6. QED
    BY <1>1, <2>3, <2>4, <2>5, PolicyEdited
<1>6. CASE session.kind = "policy" /\ policy' = policy
  <2>1. UNCHANGED config
    BY <1>6 DEF Save
  <2>2. Internal
    BY <1>1, <1>3, <1>6, <2>1 DEF Internal, Pending, PolicyDoc, SameAction
  <2>3. QED
    BY <2>2, InternalStep
<1>7. QED
  BY <1>4, <1>5, <1>6 DEF Save

\* An answer shows its client what the edit has made.
LEMMA ReturnRefines ==
    ASSUME Types, Types', Sound, Return
    PROVE  Atomic!Next \/ UNCHANGED <<Desired, View>>
<1>1. CASE UNCHANGED seen
  BY <1>1, EndInternal, InternalStep
<1>2. CASE ~UNCHANGED seen
  <2>1. At("done") /\ UNCHANGED <<config, policy>> /\ session' = NoSession
    BY <1>2 DEF Return, docs
  <2>2. session \in Session
    BY <2>1, Busy DEF At, Idle
  <2>3. UNCHANGED Desired
    BY <2>1 DEF Desired, Pending, PolicyDoc, At, Idle, NoSession
  <2>4. /\ config \in Config /\ PolicyDoc \in Policy /\ session.by \in Client
    BY <2>2, ApplyAssumption DEF Types, TypeOK, PolicyDoc, Session
  <2>5. \/ seen' = [seen EXCEPT ![session.by].revision = config]
        \/ seen' = [seen EXCEPT ![session.by].policy = PolicyDoc]
    BY <1>2 DEF Return
  <2>6. QED
    BY <2>3, <2>4, <2>5, Viewed
<1>3. QED
  BY <1>1, <1>2

\* What begins an action, reads, or happens between two, edits nothing.
LEMMA OutsideRefines ==
    ASSUME Types, NEW c \in Client,
           Ask(c) \/ ReadRevision(c) \/ ReadPolicy(c) \/ OmgStart \/ Stop \/ Rest
    PROVE  Atomic!Next \/ UNCHANGED <<Desired, View>>
<1>1. UNCHANGED <<config, policy>>
  BY DEF Ask, Begin, ReadRevision, ReadPolicy, OmgStart, Stop, Rest, vars, docs
<1>2. CASE Ask(c)
  <2>1. Idle /\ session'.orig = config /\ UNCHANGED seen
    BY <1>2 DEF Ask, Begin
  <2>2. QED
    BY <1>1, <2>1 DEF Desired, View, Pending, PolicyDoc
<1>3. CASE ReadRevision(c) \/ ReadPolicy(c)
  <2>1. UNCHANGED session
    BY <1>3 DEF ReadRevision, ReadPolicy
  <2>2. UNCHANGED Desired
    BY <1>1, <2>1 DEF Desired, Pending, PolicyDoc, Idle
  <2>3. config \in Config /\ PolicyDoc \in Policy
    BY ApplyAssumption DEF Types, TypeOK, PolicyDoc
  <2>4. QED
    BY <1>3, <2>2, <2>3, Viewed DEF ReadRevision, ReadPolicy
<1>4. CASE OmgStart \/ Stop \/ Rest
  <2>1. UNCHANGED <<session, seen>>
    BY <1>4 DEF OmgStart, Stop, Rest, vars
  <2>2. QED
    BY <1>1, <2>1 DEF Desired, View, Pending, PolicyDoc, Idle
<1>5. QED
  BY <1>2, <1>3, <1>4

\* Every step is an atomic edit, a reading of the documents, or a stutter.
LEMMA StepRefines == IInv /\ IInv' /\ [Next]_vars => [Atomic!Next]_(Atomic!vars)
<1> SUFFICES ASSUME Types, Sound, Types', [Next]_vars
             PROVE  Atomic!Next \/ UNCHANGED <<Desired, View>>
  BY DEF IInv, Atomic!vars, Desired, View
<1>1. CASE Prepare \/ Reload \/ RollBack \/ Start
  BY <1>1, WorkInternal, CreateInternal, InternalStep, SaveRefines
<1>2. CASE Return
  BY <1>2, ReturnRefines
<1>3. CASE Crash
  <2>1. UNCHANGED seen
    BY <1>3 DEF Crash
  <2>2. QED
    BY <1>3, <2>1, EndInternal, InternalStep
<1>4. ASSUME NEW c \in Client, Ask(c) \/ ReadRevision(c) \/ ReadPolicy(c)
      PROVE  Atomic!Next \/ UNCHANGED <<Desired, View>>
  BY <1>4, OutsideRefines
<1>5. CASE OmgStart \/ Stop \/ Rest \/ UNCHANGED vars
  <2>1. UNCHANGED <<config, policy, session, seen>>
    BY <1>5 DEF OmgStart, Stop, Rest, vars, docs
  <2>2. QED
    BY <2>1 DEF Desired, View, Pending, PolicyDoc, Idle
<1>6. QED
  BY <1>1, <1>2, <1>3, <1>4, <1>5 DEF Next

(* The configuration actions implement atomic edits: each document changes *)
(* as a whole, once per action, and only on the revision that its author   *)
(* was given, whatever fails, crashes or comes between, for any number of  *)
(* clients (checkRevision under the lock in configuration_actions.go).     *)
THEOREM EditsAreAtomic == Spec => Implements
<1>1. Init => Atomic!Init
  <2> SUFFICES ASSUME Init PROVE Atomic!Init
    OBVIOUS
  <2>1. config \in Config /\ PolicyDoc \in Policy
    BY InitSound, ApplyAssumption DEF IInv, Types, TypeOK, PolicyDoc
  <2>2. Desired = [config |-> config, policy |-> PolicyDoc]
    BY DEF Init, Desired, Pending, Idle, NoSession
  <2>3. Desired \in [{"config", "policy"} -> Config \cup Policy]
    BY <2>1, <2>2
  <2>4. View = [c \in Client |-> Desired]
    BY <2>2 DEF Init, View
  <2>5. QED
    BY <2>3, <2>4, Mapped
<1>2. QED
  BY <1>1, StepRefines, Invariant, PTL DEF Spec, Implements, Atomic!Spec
============================================================================
