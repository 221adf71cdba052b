--------------------------- MODULE SleepLeaseProofs ---------------------------
(***************************************************************************)
(* Proofs about SleepLease for every finite set of connections and every   *)
(* number of disturbances.                                                 *)
(*                                                                         *)
(* Neither invariant is inductive. A release may switch the setting off    *)
(* only because nobody holds it, so the counter has to be right and has to *)
(* stay zero while the mutex is held; a step may drop the marker only      *)
(* because the setting is not OpenSurge's by then. IInv says both, for     *)
(* each step of what holds the mutex.                                      *)
(***************************************************************************)
EXTENDS SleepLease, FiniteSetTheorems, TLAPS

Held == {c \in Conn : far[c] = "held"}

\* The counter is the number of connections that were told they hold the
\* setting; a helper that does not accept has no connections.
CountSound ==
    /\ holders = Cardinality(Held)
    /\ up # "accept" => \A c \in Conn : far[c] = "none"

\* The mutex: who can have come to which step, and that nobody holds the
\* setting meanwhile.
LockSound ==
    /\ job.who = "nobody" => job = Unlocked
    /\ job.who # "nobody" => holders = 0 /\ job.at # "none"
    /\ job.who = "reconcile" <=> up = "reconcile"
    /\ up = "ended" => job = Unlocked
    /\ job.who = "acquire" =>
          up = "accept" /\ job.conn \in Conn /\ far[job.conn] = "acquire"
    /\ job.who \in {"reconcile", "release", "retry"} =>
          job.at \in {"stat", "clear", "remove"}

\* A step that may drop the marker finds the setting not to be OpenSurge's;
\* the step that switches it on finds the marker.
MarkerSound ==
    /\ left.applied <= Quota.applied
    /\ Unambiguous /\ sleep = Written(TRUE) => marker
    /\ job.at \in {"remove", "mark", "set"} => sleep # Written(TRUE)
    /\ job.at = "set" => marker

AwakeSound == holders > 0 => sleep.disabled \/ sleep.by = "other"

IInv == TypeOK /\ CountSound /\ LockSound /\ MarkerSound /\ AwakeSound

-----------------------------------------------------------------------------
(* Lemmas about the operators.                                             *)

\* The connections that hold are finitely many; none holds when they are 0.
LEMMA HeldFinite ==
    /\ IsFiniteSet(Held)
    /\ Cardinality(Held) \in 0 .. Cardinality(Conn)
    /\ Cardinality(Held) = 0 <=> \A c \in Conn : far[c] # "held"
<1>1. Held \in SUBSET Conn
  BY DEF Held
<1>2. IsFiniteSet(Held) /\ Cardinality(Held) <= Cardinality(Conn)
  BY <1>1, SleepAssumption, FS_Subset
<1>3. Cardinality(Held) \in Nat /\ Cardinality(Conn) \in Nat
  BY <1>2, SleepAssumption, FS_CardinalityType
<1>4. Cardinality(Held) = 0 <=> Held = {}
  BY <1>2, FS_EmptySet
<1>5. QED
  BY <1>2, <1>3, <1>4 DEF Held

\* The same of the state after a step.
LEMMA HeldFiniteNext ==
    /\ IsFiniteSet(Held')
    /\ Cardinality(Held') \in 0 .. Cardinality(Conn)
    /\ Cardinality(Held') = 0 <=> \A c \in Conn : far'[c] # "held"
<1>1. Held' \in SUBSET Conn
  BY DEF Held
<1>2. IsFiniteSet(Held') /\ Cardinality(Held') <= Cardinality(Conn)
  BY <1>1, SleepAssumption, FS_Subset
<1>3. Cardinality(Held') \in Nat /\ Cardinality(Conn) \in Nat
  BY <1>2, SleepAssumption, FS_CardinalityType
<1>4. Cardinality(Held') = 0 <=> Held' = {}
  BY <1>2, FS_EmptySet
<1>5. QED
  BY <1>2, <1>3, <1>4 DEF Held

\* A connection that begins to hold adds one to the count.
LEMMA HeldGrows ==
    ASSUME TypeOK, NEW c \in Conn, far[c] # "held",
           far' = [far EXCEPT ![c] = "held"]
    PROVE  Cardinality(Held') = Cardinality(Held) + 1
<1>1. Held' = Held \cup {c} /\ c \notin Held
  BY DEF TypeOK, Held
<1>2. QED
  BY <1>1, HeldFinite, FS_AddElement

\* A connection that is released takes one away.
LEMMA HeldShrinks ==
    ASSUME TypeOK, NEW c \in Conn, far[c] = "held",
           far' = [far EXCEPT ![c] = "none"]
    PROVE  Cardinality(Held') = Cardinality(Held) - 1
<1>1. Held' = Held \ {c} /\ c \in Held
  BY DEF TypeOK, Held
<1>2. QED
  BY <1>1, HeldFinite, FS_RemoveElement

\* Any other change of a connection leaves the count alone.
LEMMA HeldSame ==
    ASSUME TypeOK, NEW c \in Conn, far[c] # "held",
           NEW v \in {"none", "acquire", "refused"},
           far' = [far EXCEPT ![c] = v]
    PROVE  Held' = Held
BY DEF TypeOK, Held

\* What is left of a kind of disturbance never grows.
LEMMA SpendBounds ==
    ASSUME TypeOK, NEW kind \in Bound, Spend(kind)
    PROVE  left' \in [Bound -> Nat] /\ left'.applied <= left.applied
BY DEF TypeOK, Spend, Bound

-----------------------------------------------------------------------------
(* The control service: it changes neither the helper nor the system.      *)

\* A step that leaves the helper and the system alone keeps what they rest on.
LEMMA HelperUntouched ==
    ASSUME IInv, UNCHANGED <<far, helper, system>>,
           left' \in [Bound -> Nat], left'.applied <= left.applied
    PROVE  CountSound' /\ LockSound' /\ MarkerSound' /\ AwakeSound'
<1>1. Held' = Held
  BY DEF Held
<1>2. CountSound' /\ LockSound' /\ AwakeSound'
  BY <1>1 DEF IInv, CountSound, LockSound, AwakeSound, helper, system, Unlocked
<1>3. MarkerSound'
  BY SleepAssumption DEF IInv, TypeOK, MarkerSound, helper, system, Unambiguous, Written, Bound
<1>4. QED
  BY <1>2, <1>3

\* Every action of the service except the call that opens a connection.
LEMMA ServiceStep ==
    ASSUME IInv, \/ Enable \/ Answer \/ Timeout \/ Disable \/ CloseLease
                 \/ ServiceEnds \/ \E c \in Conn : Observe(c)
    PROVE  IInv'
<1>1. /\ UNCHANGED <<far, helper, system>>
      /\ \/ UNCHANGED left
         \/ \E kind \in Bound : Spend(kind)
  BY DEF Enable, Answer, Timeout, Disable, CloseLease, ServiceEnds, Observe, Bound
<1>2. left' \in [Bound -> Nat] /\ left'.applied <= left.applied
  <2>1. CASE UNCHANGED left
    BY <2>1 DEF IInv, TypeOK, Bound
  <2>2. CASE \E kind \in Bound : Spend(kind)
    BY <2>2, SpendBounds DEF IInv
  <2>3. QED BY <1>1, <2>1, <2>2
<1>3. /\ ctl' \in [requested : BOOLEAN, changing : {"no", "dial", "wait", "close"},
                  lease : Conn \cup {None}, conn : Conn \cup {None}]
      /\ near' \in [Conn -> {"none", "open"}]
  <2> USE DEF IInv, TypeOK
  <2>1. CASE Enable       BY <2>1 DEF Enable
  <2>2. CASE Answer       BY <2>2 DEF Answer, Failed
  <2>3. CASE Timeout      BY <2>3 DEF Timeout, Failed
  <2>4. CASE Disable      BY <2>4 DEF Disable
  <2>5. CASE CloseLease   BY <2>5 DEF CloseLease
  <2>6. CASE ServiceEnds  BY <2>6 DEF ServiceEnds, Off
  <2>7. CASE \E c \in Conn : Observe(c)
    BY <2>7, ZenonT(60) DEF Observe
  <2>8. QED
    BY <2>1, <2>2, <2>3, <2>4, <2>5, <2>6, <2>7
<1>4. TypeOK'
  BY <1>1, <1>2, <1>3 DEF IInv, TypeOK, helper, system
<1>5. QED
  BY <1>1, <1>2, <1>4, HelperUntouched DEF IInv

\* The call that opens a connection: it begins to acquire, and holds nothing.
LEMMA DialStep == ASSUME IInv, Dial PROVE IInv'
<1> USE DEF IInv
<1>1. CASE up = "accept"
  <2>1. PICK c \in Conn :
          /\ near[c] = "none" /\ far[c] = "none"
          /\ near' = [near EXCEPT ![c] = "open"]
          /\ far' = [far EXCEPT ![c] = "acquire"]
          /\ ctl' = [ctl EXCEPT !.changing = "wait", !.conn = c]
    BY <1>1 DEF Dial
  <2>2. UNCHANGED <<helper, system, left>>
    BY DEF Dial
  <2>3. Held' = Held
    BY <2>1, HeldSame
  <2>4. TypeOK'
    BY <2>1, <2>2 DEF TypeOK, helper, system
  <2>5. CountSound' /\ AwakeSound'
    BY <1>1, <2>2, <2>3 DEF CountSound, AwakeSound, helper, system
  <2>6. LockSound'
    BY <2>1, <2>2 DEF TypeOK, LockSound, Unlocked, helper
  <2>7. MarkerSound'
    BY <2>2 DEF MarkerSound, Unambiguous, Written, helper, system
  <2>8. QED
    BY <2>4, <2>5, <2>6, <2>7
<1>2. CASE up # "accept"
  <2>1. ctl' = Failed /\ UNCHANGED <<near, far, helper, system, left>>
    BY <1>2 DEF Dial
  <2>2. TypeOK'
    BY <2>1 DEF TypeOK, Failed, helper, system
  <2>3. left' \in [Bound -> Nat] /\ left'.applied <= left.applied
    BY <2>1 DEF TypeOK, Bound
  <2>4. QED
    BY <2>1, <2>2, <2>3, HelperUntouched
<1>3. QED
  BY <1>1, <1>2

-----------------------------------------------------------------------------
(* The helper: connections.                                                *)

LEMMA AcquireBeginStep ==
    ASSUME IInv, NEW c \in Conn, AcquireBegin(c) PROVE IInv'
<1> USE DEF IInv
<1>1. /\ up = "accept" /\ job = Unlocked /\ far[c] = "acquire"
      /\ UNCHANGED <<ctl, near, up, retry, marker, sleep, left>>
  BY DEF AcquireBegin, service, system
<1>2. CASE holders > 0
  <2>1. /\ holders' = holders + 1 /\ far' = [far EXCEPT ![c] = "held"]
        /\ UNCHANGED job
    BY <1>2 DEF AcquireBegin
  <2>2. holders' = Cardinality(Held')
    BY <1>1, <2>1, HeldGrows DEF CountSound
  <2>3. TypeOK'
    BY <1>1, <2>1, <2>2, HeldFiniteNext DEF TypeOK
  <2>4. CountSound' /\ LockSound'
    BY <1>1, <2>1, <2>2 DEF CountSound, LockSound, Unlocked
  <2>5. MarkerSound' /\ AwakeSound'
    BY <1>1, <1>2, <2>1 DEF MarkerSound, AwakeSound, Unambiguous, Written, Unlocked
  <2>6. QED
    BY <2>3, <2>4, <2>5
<1>3. CASE holders = 0
  <2>1. job' = [who |-> "acquire", conn |-> c, at |-> "stat"]
        /\ UNCHANGED <<holders, far>>
    BY <1>3 DEF AcquireBegin, Lock
  <2>2. Held' = Held
    BY <2>1 DEF Held
  <2>3. TypeOK'
    BY <1>1, <2>1 DEF TypeOK
  <2>4. CountSound' /\ LockSound'
    BY <1>1, <1>3, <2>1, <2>2 DEF CountSound, LockSound, Unlocked
  <2>5. MarkerSound' /\ AwakeSound'
    BY <1>1, <1>3, <2>1 DEF MarkerSound, AwakeSound, Unambiguous, Written
  <2>6. QED
    BY <2>3, <2>4, <2>5
<1>4. QED
  BY <1>2, <1>3, HeldFinite DEF CountSound

LEMMA HangupStep ==
    ASSUME IInv, NEW c \in Conn, Hangup(c) PROVE IInv'
<1> USE DEF IInv
<1>1. /\ far[c] = "refused" /\ far' = [far EXCEPT ![c] = "none"]
      /\ UNCHANGED <<ctl, near, up, holders, retry, job, marker, sleep, left>>
  BY DEF Hangup, service, helper, system
<1>2. Held' = Held
  BY <1>1, HeldSame
<1>3. TypeOK'
  BY <1>1 DEF TypeOK
<1>4. CountSound' /\ AwakeSound'
  BY <1>1, <1>2 DEF TypeOK, CountSound, AwakeSound
<1>5. LockSound' /\ MarkerSound'
  BY <1>1 DEF TypeOK, LockSound, MarkerSound, Unambiguous, Written, Unlocked
<1>6. QED
  BY <1>3, <1>4, <1>5

\* Only the last connection to be released takes the mutex for the clean-up.
LEMMA ReleaseStep ==
    ASSUME IInv, NEW c \in Conn, Release(c) PROVE IInv'
<1> USE DEF IInv
<1>1. /\ up = "accept" /\ job = Unlocked /\ far[c] = "held"
      /\ holders' = holders - 1 /\ far' = [far EXCEPT ![c] = "none"]
      /\ UNCHANGED <<ctl, near, up, retry, marker, sleep, left>>
  BY DEF Release, service, system
<1>2. \/ holders = 1 /\ job' = [who |-> "release", conn |-> None, at |-> "stat"]
      \/ holders # 1 /\ UNCHANGED job
  BY DEF Release, Lock
<1>3. holders' = Cardinality(Held')
  BY <1>1, HeldShrinks DEF CountSound
<1>4. holders > 0
  BY <1>1, HeldFinite DEF CountSound, TypeOK
<1>5. TypeOK'
  BY <1>1, <1>2, <1>3, HeldFiniteNext DEF TypeOK
<1>6. CountSound' /\ AwakeSound'
  BY <1>1, <1>3, <1>4 DEF CountSound, AwakeSound
<1>7. LockSound'
  BY <1>1, <1>2 DEF LockSound, Unlocked
<1>8. MarkerSound'
  BY <1>1, <1>2 DEF MarkerSound, Unambiguous, Written, Unlocked
<1>9. QED
  BY <1>5, <1>6, <1>7, <1>8

LEMMA RetryStep == ASSUME IInv, Retry PROVE IInv'
<1> USE DEF IInv
<1>1. /\ up # "ended" /\ job = Unlocked
      /\ UNCHANGED <<ctl, near, far, up, holders, marker, sleep, left>>
      /\ \/ holders > 0 /\ retry' = FALSE /\ UNCHANGED job
         \/ /\ ~(holders > 0) /\ UNCHANGED retry
            /\ job' = [who |-> "retry", conn |-> None, at |-> "stat"]
  BY DEF Retry, Lock, service, system
<1>2. Held' = Held
  BY <1>1 DEF Held
<1>3. TypeOK'
  <2>1. retry' \in BOOLEAN
    BY <1>1, Zenon DEF TypeOK
  <2>2. QED
    BY <1>1, <2>1 DEF TypeOK
<1>4. CountSound' /\ AwakeSound'
  BY <1>1, <1>2 DEF CountSound, AwakeSound
<1>5. LockSound'
  BY <1>1 DEF TypeOK, LockSound, Unlocked
<1>6. MarkerSound'
  BY <1>1 DEF MarkerSound, Unambiguous, Written, Unlocked
<1>7. QED
  BY <1>3, <1>4, <1>5, <1>6

-----------------------------------------------------------------------------
(* The helper: what happens under the mutex.                               *)

\* What a clean-up does when it ends, well or badly: a failing one refuses
\* the connection that wanted the setting; none of its ends changes who holds.
LEMMA EndReleaseStep ==
    ASSUME TypeOK, CountSound, LockSound, NEW ok \in BOOLEAN,
           job.who # "nobody", EndRelease(ok), holders' = holders
    PROVE  /\ job' \in [who : {"nobody", "reconcile", "acquire", "release", "retry"},
                        conn : Conn \cup {None},
                        at : {"none", "stat", "clear", "remove", "inspect", "mark", "set"}]
           /\ far' \in [Conn -> {"none", "acquire", "held", "refused"}]
           /\ retry' \in BOOLEAN /\ up' \in {"ended", "reconcile", "accept"}
           /\ job'.at \in {"none", "inspect"}
           /\ CountSound' /\ LockSound'
<1>1. \/ /\ ok /\ job.who = "acquire" /\ job' = [job EXCEPT !.at = "inspect"]
         /\ far' = far
      \/ /\ ~ok /\ job.who = "acquire" /\ job' = Unlocked
         /\ far' = [far EXCEPT ![job.conn] = "refused"]
      \/ job.who # "acquire" /\ job' = Unlocked /\ far' = far
  BY DEF EndRelease, Goto
<1>2. /\ job' \in [who : {"nobody", "reconcile", "acquire", "release", "retry"},
                   conn : Conn \cup {None},
                   at : {"none", "stat", "clear", "remove", "inspect", "mark", "set"}]
      /\ far' \in [Conn -> {"none", "acquire", "held", "refused"}]
      /\ job'.at \in {"none", "inspect"}
  BY <1>1 DEF TypeOK, Unlocked
<1>3. up' = IF job.who = "reconcile" THEN "accept" ELSE up
  BY DEF EndRelease
<1>4. retry' \in BOOLEAN
  <2>1. CASE job.who = "acquire"
    BY <2>1, Zenon DEF EndRelease, TypeOK
  <2>2. CASE job.who = "retry"
    BY <2>2 DEF EndRelease
  <2>3. CASE job.who \notin {"acquire", "retry"}
    BY <2>3 DEF EndRelease
  <2>4. QED
    BY <2>1, <2>2, <2>3
<1>5. Held' = Held
  <2>1. CASE far' = far
    BY <2>1 DEF Held
  <2>2. CASE job.who = "acquire" /\ far' = [far EXCEPT ![job.conn] = "refused"]
    BY <2>2, HeldSame DEF LockSound
  <2>3. QED
    BY <1>1, <2>1, <2>2
<1>6. CountSound'
  <2>1. CASE job.who = "acquire"
    BY <1>3, <1>5, <2>1 DEF CountSound, LockSound
  <2>2. CASE job.who # "acquire"
    BY <1>1, <1>3, <1>5, <2>2 DEF CountSound
  <2>3. QED
    BY <2>1, <2>2
<1>7. LockSound'
  BY <1>1, <1>3 DEF TypeOK, LockSound, Unlocked
<1>8. QED
  BY <1>2, <1>3, <1>4, <1>6, <1>7 DEF TypeOK

LEMMA StatStep == ASSUME IInv, Stat PROVE IInv'
<1> USE DEF IInv
<1>1. job.at = "stat" /\ UNCHANGED <<ctl, near, holders, marker, sleep, left>>
  BY DEF Stat, service, system
<1>2. CASE marker
  <2>1. job' = [job EXCEPT !.at = "clear"] /\ UNCHANGED <<far, retry, up>>
    BY <1>2 DEF Stat, Goto
  <2>2. Held' = Held
    BY <2>1 DEF Held
  <2>3. TypeOK'
    BY <1>1, <2>1 DEF TypeOK
  <2>4. CountSound' /\ AwakeSound'
    BY <1>1, <2>1, <2>2 DEF CountSound, AwakeSound
  <2>5. LockSound'
    BY <1>1, <2>1 DEF TypeOK, LockSound, Unlocked
  <2>6. MarkerSound'
    BY <1>1, <2>1 DEF TypeOK, MarkerSound, Unambiguous, Written
  <2>7. QED
    BY <2>3, <2>4, <2>5, <2>6
<1>3. CASE ~marker
  <2>1. EndRelease(TRUE)
    BY <1>3 DEF Stat
  <2>2. job.who # "nobody"
    BY <1>1 DEF LockSound, Unlocked
  <2>3. TypeOK' /\ CountSound' /\ LockSound'
    BY <1>1, <2>1, <2>2, EndReleaseStep DEF TypeOK
  <2>4. MarkerSound' /\ AwakeSound'
    BY <1>1, <2>1, <2>2, EndReleaseStep
       DEF MarkerSound, AwakeSound, Unambiguous, Written
  <2>5. QED
    BY <2>3, <2>4
<1>4. QED
  BY <1>2, <1>3

\* Nobody holds the setting while a clean-up switches it off.
LEMMA ClearStep == ASSUME IInv, Clear PROVE IInv'
<1> USE DEF IInv
<1>1. job.at = "clear" /\ UNCHANGED <<ctl, near, holders, marker>>
  BY DEF Clear, service
<1>2. job.who # "nobody" /\ holders = 0
  BY <1>1 DEF LockSound, Unlocked
<1>3. CASE /\ Goto("remove") /\ sleep' = Written(FALSE)
           /\ UNCHANGED <<far, retry, up, left>>
  <2>1. Held' = Held
    BY <1>3 DEF Held
  <2>2. TypeOK'
    BY <1>1, <1>3 DEF TypeOK, Goto, Written, Setting
  <2>3. CountSound' /\ AwakeSound'
    <3>1. CountSound'
      BY <1>1, <1>3, <2>1 DEF CountSound
    <3>2. AwakeSound'
      BY <1>1, <1>2 DEF AwakeSound
    <3>3. QED BY <3>1, <3>2
  <2>4. LockSound'
    BY <1>1, <1>2, <1>3 DEF TypeOK, LockSound, Unlocked, Goto
  <2>5. MarkerSound'
    BY <1>1, <1>3 DEF TypeOK, MarkerSound, Unambiguous, Written, Goto
  <2>6. QED
    BY <2>2, <2>3, <2>4, <2>5
<1>4. CASE /\ EndRelease(FALSE) /\ \E kind \in Bound : Spend(kind)
           /\ sleep' \in {sleep, Written(FALSE)}
  <2>1. left' \in [Bound -> Nat] /\ left'.applied <= left.applied
    BY <1>4, SpendBounds
  <2>2. sleep' \in Setting
    <3>1. sleep \in Setting /\ Written(FALSE) \in Setting
      BY DEF TypeOK, Written, Setting
    <3>2. QED BY <1>4, <3>1
  <2>3. TypeOK' /\ CountSound' /\ LockSound'
    BY <1>1, <1>2, <1>4, <2>1, <2>2, EndReleaseStep DEF TypeOK
  <2>4. job'.at \in {"none", "inspect"}
    BY <1>1, <1>2, <1>4, EndReleaseStep
  <2>5. MarkerSound'
    BY <1>1, <1>4, <2>1, <2>4, SleepAssumption
       DEF TypeOK, MarkerSound, Unambiguous, Written, Bound
  <2>6. AwakeSound'
    BY <1>1, <1>2 DEF AwakeSound
  <2>7. QED
    BY <2>3, <2>5, <2>6
<1>5. QED
  BY <1>3, <1>4 DEF Clear, Bound

LEMMA RemoveStep == ASSUME IInv, Remove PROVE IInv'
<1> USE DEF IInv
<1>1. job.at = "remove" /\ UNCHANGED <<ctl, near, holders, sleep>>
  BY DEF Remove, service
<1>2. job.who # "nobody" /\ holders = 0
  BY <1>1 DEF LockSound, Unlocked
<1>3. /\ marker' \in BOOLEAN /\ left' \in [Bound -> Nat]
      /\ left'.applied <= left.applied
  <2>1. CASE marker' = FALSE /\ UNCHANGED left
    <3>1. left' \in [Bound -> Nat] /\ left'.applied <= left.applied
      BY <2>1 DEF TypeOK, Bound
    <3>2. marker' \in BOOLEAN
      BY <2>1
    <3>3. QED BY <3>1, <3>2
  <2>2. CASE Spend("fault") /\ UNCHANGED marker
    BY <2>2, SpendBounds DEF TypeOK, Bound
  <2>3. QED
    BY <2>1, <2>2 DEF Remove
<1>4. PICK ok \in BOOLEAN : EndRelease(ok)
  BY DEF Remove
<1>5. /\ TypeOK' /\ CountSound' /\ LockSound'
      /\ job'.at \in {"none", "inspect"}
  BY <1>1, <1>2, <1>3, <1>4, EndReleaseStep DEF TypeOK
<1>6. MarkerSound'
  BY <1>1, <1>3, <1>5, SleepAssumption
     DEF TypeOK, MarkerSound, Unambiguous, Written, Bound
<1>7. AwakeSound'
  BY <1>1, <1>2 DEF AwakeSound
<1>8. QED
  BY <1>5, <1>6, <1>7

\* A refused connection was still acquiring.
LEMMA RefuseStep ==
    ASSUME IInv, job.who = "acquire", Refuse,
           UNCHANGED <<up, holders>>
    PROVE  /\ job' = Unlocked
           /\ far' \in [Conn -> {"none", "acquire", "held", "refused"}]
           /\ CountSound' /\ LockSound' /\ AwakeSound'
<1> USE DEF IInv
<1>1. /\ job.conn \in Conn /\ far[job.conn] = "acquire" /\ up = "accept"
      /\ far' = [far EXCEPT ![job.conn] = "refused"] /\ job' = Unlocked
      /\ holders = 0
  BY DEF LockSound, Refuse
<1>2. Held' = Held
  BY <1>1, HeldSame
<1>3. far' \in [Conn -> {"none", "acquire", "held", "refused"}]
  BY <1>1 DEF TypeOK
<1>4. CountSound' /\ LockSound'
  BY <1>1, <1>2 DEF CountSound, LockSound, Unlocked
<1>5. AwakeSound'
  BY <1>1 DEF AwakeSound
<1>6. QED
  BY <1>1, <1>3, <1>4, <1>5

\* From here on the setting is known not to be OpenSurge's.
LEMMA InspectStep == ASSUME IInv, Inspect PROVE IInv'
<1> USE DEF IInv
<1>1. /\ job.at = "inspect"
      /\ UNCHANGED <<ctl, near, up, holders, retry, marker, sleep>>
  BY DEF Inspect, service, system
<1>2. job.who = "acquire" /\ holders = 0
  BY <1>1 DEF TypeOK, LockSound, Unlocked
<1>3. CASE Refuse /\ (UNCHANGED left \/ Spend("fault"))
  <2>1. left' \in [Bound -> Nat] /\ left'.applied <= left.applied
    BY <1>3, SpendBounds DEF TypeOK, Bound
  <2>2. TypeOK'
    BY <1>1, <1>2, <1>3, <2>1, RefuseStep DEF TypeOK, Unlocked
  <2>3. MarkerSound'
    BY <1>1, <1>2, <1>3, <2>1, RefuseStep, SleepAssumption
       DEF TypeOK, MarkerSound, Unambiguous, Written, Unlocked, Bound
  <2>4. QED
    BY <1>1, <1>2, <1>3, <2>2, <2>3, RefuseStep
<1>4. CASE ~sleep.disabled /\ Goto("mark") /\ UNCHANGED <<far, left>>
  <2>1. Held' = Held
    BY <1>4 DEF Held
  <2>2. TypeOK'
    BY <1>1, <1>4 DEF TypeOK, Goto
  <2>3. CountSound' /\ LockSound'
    BY <1>1, <1>2, <1>4, <2>1 DEF TypeOK, CountSound, LockSound, Unlocked, Goto
  <2>4. MarkerSound'
    BY <1>1, <1>4 DEF TypeOK, MarkerSound, Unambiguous, Written, Goto
  <2>5. AwakeSound'
    BY <1>1, <1>2 DEF AwakeSound
  <2>6. QED
    BY <2>2, <2>3, <2>4, <2>5
<1>5. QED
  BY <1>3, <1>4 DEF Inspect

LEMMA MarkStep == ASSUME IInv, Mark PROVE IInv'
<1> USE DEF IInv
<1>1. /\ job.at = "mark"
      /\ UNCHANGED <<ctl, near, up, holders, retry, sleep>>
  BY DEF Mark, service
<1>2. job.who = "acquire" /\ holders = 0
  BY <1>1 DEF TypeOK, LockSound, Unlocked
<1>3. CASE Spend("fault") /\ Refuse /\ UNCHANGED marker
  <2>1. left' \in [Bound -> Nat] /\ left'.applied <= left.applied
    BY <1>3, SpendBounds DEF Bound
  <2>2. TypeOK'
    BY <1>1, <1>2, <1>3, <2>1, RefuseStep DEF TypeOK, Unlocked
  <2>3. MarkerSound'
    BY <1>1, <1>2, <1>3, <2>1, RefuseStep, SleepAssumption
       DEF TypeOK, MarkerSound, Unambiguous, Written, Unlocked, Bound
  <2>4. QED
    BY <1>1, <1>2, <1>3, <2>2, <2>3, RefuseStep
<1>4. CASE marker' = TRUE /\ Goto("set") /\ UNCHANGED <<far, left>>
  <2>1. Held' = Held
    BY <1>4 DEF Held
  <2>2. TypeOK'
    BY <1>1, <1>4 DEF TypeOK, Goto
  <2>3. CountSound' /\ LockSound'
    BY <1>1, <1>2, <1>4, <2>1 DEF TypeOK, CountSound, LockSound, Unlocked, Goto
  <2>4. MarkerSound'
    BY <1>1, <1>4 DEF TypeOK, MarkerSound, Unambiguous, Written, Goto
  <2>5. AwakeSound'
    BY <1>1, <1>2 DEF AwakeSound
  <2>6. QED
    BY <2>2, <2>3, <2>4, <2>5
<1>5. QED
  BY <1>3, <1>4 DEF Mark

\* A failing call drops the marker; the setting is OpenSurge's then only when
\* the call did its work and was reported to fail.
LEMMA SetStep == ASSUME IInv, Set PROVE IInv'
<1> USE DEF IInv
<1>1. job.at = "set" /\ UNCHANGED <<ctl, near, up, retry>>
  BY DEF Set, service
<1>2. job.who = "acquire" /\ holders = 0
  BY <1>1 DEF TypeOK, LockSound, Unlocked
<1>3. CASE /\ sleep' = Written(TRUE) /\ holders' = 1 /\ job' = Unlocked
           /\ far' = [far EXCEPT ![job.conn] = "held"] /\ UNCHANGED <<marker, left>>
  <2>1. job.conn \in Conn /\ far[job.conn] = "acquire" /\ up = "accept"
    BY <1>2 DEF LockSound
  <2>2. holders' = Cardinality(Held')
    <3>1. Cardinality(Held') = Cardinality(Held) + 1
      BY <1>3, <2>1, HeldGrows
    <3>2. Cardinality(Held) = 0
      BY <1>2 DEF CountSound
    <3>3. QED
      BY <1>3, <3>1, <3>2
  <2>3. TypeOK'
    BY <1>1, <1>3, <2>2, HeldFiniteNext DEF TypeOK, Unlocked, Written, Setting
  <2>4. CountSound' /\ LockSound'
    BY <1>1, <1>3, <2>1, <2>2 DEF CountSound, LockSound, Unlocked
  <2>5. MarkerSound' /\ AwakeSound'
    BY <1>1, <1>3 DEF MarkerSound, AwakeSound, Unambiguous, Written, Unlocked
  <2>6. QED
    BY <2>3, <2>4, <2>5
<1>4. CASE /\ Refuse /\ marker' = FALSE /\ UNCHANGED holders
           /\ \/ Spend("fault") /\ UNCHANGED sleep
              \/ Spend("applied") /\ sleep' = Written(TRUE)
  <2>1. left' \in [Bound -> Nat] /\ left'.applied <= left.applied
    BY <1>4, SpendBounds DEF Bound
  <2>2. sleep' \in Setting
    <3>1. sleep \in Setting /\ Written(TRUE) \in Setting
      BY DEF TypeOK, Written, Setting
    <3>2. QED BY <1>4, <3>1
  <2>3. TypeOK'
    <3>1. marker' \in BOOLEAN
      BY <1>4
    <3>2. QED
      BY <1>1, <1>2, <1>4, <2>1, <2>2, <3>1, RefuseStep DEF TypeOK, Unlocked
  <2>4. MarkerSound'
    <3>1. job' = Unlocked
      BY <1>1, <1>2, <1>4, RefuseStep
    <3>2. CASE UNCHANGED sleep
      BY <1>1, <1>4, <2>1, <3>1, <3>2, SleepAssumption
         DEF TypeOK, MarkerSound, Unambiguous, Written, Unlocked, Bound
    <3>3. CASE Spend("applied")
      <4>1. left'.applied < left.applied
        BY <3>3 DEF TypeOK, Spend, Bound
      <4>2. left'.applied < Quota.applied
        BY <2>1, <4>1, SleepAssumption DEF TypeOK, MarkerSound, Bound
      <4>3. ~Unambiguous'
        BY <4>2, SleepAssumption DEF Unambiguous, Bound
      <4>4. left'.applied <= Quota.applied
        BY <2>1, <4>2, SleepAssumption DEF Bound
      <4>5. job'.at = "none"
        BY <3>1 DEF Unlocked
      <4>6. QED
        BY <4>3, <4>4, <4>5 DEF MarkerSound
    <3>4. QED
      BY <1>4, <3>2, <3>3
  <2>5. QED
    BY <1>1, <1>2, <1>4, <2>3, <2>4, RefuseStep
<1>5. QED
  BY <1>3, <1>4 DEF Set

-----------------------------------------------------------------------------
(* The helper's life, and other tools.                                     *)

LEMMA HelperEndsStep == ASSUME IInv, HelperEnds PROVE IInv'
<1> USE DEF IInv
<1>1. /\ up' = "ended" /\ holders' = 0 /\ retry' = FALSE /\ job' = Unlocked
      /\ far' = [c \in Conn |-> "none"] /\ Spend("helper")
      /\ UNCHANGED <<ctl, near, marker, sleep>>
  BY DEF HelperEnds, service, system
<1>2. left' \in [Bound -> Nat] /\ left'.applied <= left.applied
  BY <1>1, SpendBounds DEF Bound
<1>3. holders' = Cardinality(Held')
  BY <1>1, HeldFiniteNext
<1>4. TypeOK'
  BY <1>1, <1>2, <1>3, HeldFiniteNext DEF TypeOK, Unlocked
<1>5. CountSound' /\ LockSound' /\ AwakeSound'
  BY <1>1, <1>3 DEF CountSound, LockSound, AwakeSound, Unlocked
<1>6. MarkerSound'
  BY <1>1, <1>2, SleepAssumption
     DEF TypeOK, MarkerSound, Unambiguous, Written, Unlocked, Bound
<1>7. QED
  BY <1>4, <1>5, <1>6

LEMMA HelperStartsStep == ASSUME IInv, HelperStarts PROVE IInv'
<1> USE DEF IInv
<1>1. /\ up = "ended" /\ up' = "reconcile"
      /\ job' = [who |-> "reconcile", conn |-> None, at |-> "stat"]
      /\ UNCHANGED <<ctl, near, far, holders, retry, marker, sleep, left>>
  BY DEF HelperStarts, Lock, service, system
<1>2. Held' = Held
  BY <1>1 DEF Held
<1>3. holders = 0
  BY <1>1, HeldFinite DEF CountSound
<1>4. TypeOK'
  BY <1>1 DEF TypeOK
<1>5. CountSound' /\ LockSound' /\ AwakeSound'
  BY <1>1, <1>2, <1>3 DEF CountSound, LockSound, AwakeSound, Unlocked
<1>6. MarkerSound'
  BY <1>1 DEF MarkerSound, Unambiguous, Written
<1>7. QED
  BY <1>4, <1>5, <1>6

LEMMA OtherToolStep == ASSUME IInv, OtherTool PROVE IInv'
<1> USE DEF IInv
<1>1. /\ sleep' = [disabled |-> ~sleep.disabled, by |-> "other"] /\ Spend("other")
      /\ UNCHANGED <<ctl, near, far, up, holders, retry, job, marker>>
  BY DEF OtherTool, service, helper
<1>2. left' \in [Bound -> Nat] /\ left'.applied <= left.applied
  BY <1>1, SpendBounds DEF Bound
<1>3. Held' = Held
  BY <1>1 DEF Held
<1>4. TypeOK'
  <2>1. sleep' \in Setting
    BY <1>1 DEF TypeOK, Setting
  <2>2. QED
    BY <1>1, <1>2, <2>1 DEF TypeOK
<1>5. CountSound' /\ LockSound' /\ AwakeSound'
  BY <1>1, <1>3 DEF CountSound, LockSound, AwakeSound, Unlocked
<1>6. MarkerSound'
  BY <1>1, <1>2, SleepAssumption DEF TypeOK, MarkerSound, Written, Bound
<1>7. QED
  BY <1>4, <1>5, <1>6

-----------------------------------------------------------------------------
(* The theorems.                                                           *)

\* Init establishes the invariant.
LEMMA InitSound == Init => IInv
<1> SUFFICES ASSUME Init PROVE IInv
  OBVIOUS
<1>1. holders = Cardinality(Held)
  BY HeldFinite DEF Init
<1>2. TypeOK
  BY SleepAssumption, HeldFinite, <1>1 DEF Init, TypeOK, Off, Setting
<1>3. CountSound /\ LockSound /\ AwakeSound
  BY <1>1 DEF Init, CountSound, LockSound, AwakeSound, Unlocked
<1>4. MarkerSound
  BY SleepAssumption DEF Init, MarkerSound, Written, Unambiguous, Bound
<1>5. QED
  BY <1>2, <1>3, <1>4 DEF IInv

\* Every step keeps it.
LEMMA StepSound == IInv /\ [Next]_vars => IInv'
<1> SUFFICES ASSUME IInv, [Next]_vars PROVE IInv'
  OBVIOUS
<1>1. CASE Enable \/ Answer \/ Timeout \/ Disable \/ CloseLease \/ ServiceEnds
           \/ \E c \in Conn : Observe(c)
  BY <1>1, ServiceStep
<1>2. CASE Dial
  BY <1>2, DialStep
<1>3. CASE \E c \in Conn : Serve(c)
  BY <1>3, AcquireBeginStep, ReleaseStep, HangupStep DEF Serve
<1>4. CASE Retry
  BY <1>4, RetryStep
<1>5. CASE Locked
  BY <1>5, StatStep, ClearStep, RemoveStep, InspectStep, MarkStep, SetStep
     DEF Locked
<1>6. CASE HelperEnds \/ HelperStarts \/ OtherTool
  BY <1>6, HelperEndsStep, HelperStartsStep, OtherToolStep
<1>7. CASE UNCHANGED vars
  <2>1. left' \in [Bound -> Nat] /\ left'.applied <= left.applied
    BY <1>7 DEF vars, IInv, TypeOK, Bound
  <2>2. TypeOK'
    BY <1>7 DEF vars, IInv, TypeOK
  <2>3. UNCHANGED <<far, helper, system>>
    BY <1>7 DEF vars, helper, system
  <2>4. QED
    BY <2>1, <2>2, <2>3, HelperUntouched DEF IInv
<1>8. QED
  BY <1>1, <1>2, <1>3, <1>4, <1>5, <1>6, <1>7 DEF Next

\* The setting is never left on without the marker from which a helper started
\* later (ReconcileOrphan) learns that it must be switched off: for every
\* number of connections, crashes of either process and failing calls.
THEOREM MarkerAlwaysCovers == Spec => []MarkerCoversSleep
<1>1. IInv => MarkerCoversSleep
  BY DEF IInv, MarkerSound, MarkerCoversSleep
<1>2. QED
  BY <1>1, InitSound, StepSound, PTL DEF Spec

\* A connection the helper counts keeps the Mac awake: Release and the retry
\* of a failed release switch the setting off only when nobody holds it.
THEOREM HolderStaysAwake == Spec => []LeaseKeepsAwake
<1>1. IInv => LeaseKeepsAwake
  BY HeldFinite DEF IInv, TypeOK, CountSound, AwakeSound, LeaseKeepsAwake
<1>2. QED
  BY <1>1, InitSound, StepSound, PTL DEF Spec
=============================================================================
