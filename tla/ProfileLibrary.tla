--------------------------- MODULE ProfileLibrary ----------------------------
(***************************************************************************)
(* The source library, the saved overlay, and what becomes of both: the    *)
(* desired profile and the one the gateway runs (internal/controlapi/      *)
(* sources.go, source_files.go, credentials.go, profile_overlay.go, the    *)
(* source handlers of server.go, workspaceCandidate).                      *)
(*                                                                         *)
(* Each HTTP request runs in a goroutine of its own. Only the overlay file *)
(* and the writing of the list are under the store's mutex, so between the *)
(* reading of a file and its writing other requests take their steps. What *)
(* the helper does with a candidate is ConfigApply's; here it succeeds or  *)
(* restores in one step.                                                   *)
(*                                                                         *)
(* A digest is the content it is of, and a composed file the sequence of   *)
(* what it was composed from. The revision of the configuration is its     *)
(* value. Stored flags are left out: every reading recomputes them.        *)
(***************************************************************************)
EXTENDS ProfileComposition

CONSTANTS
    Request,      \* concurrent requests of authenticated clients
    Contents,     \* name -> document: uploads and what the subscription serves
    Overlays,     \* name -> overlay document
    Quotas        \* a run's budgets: how often an event occurs, and any

Subscription == "subscription"   \* an id with an HTTPS address
Local == "local"                 \* an id of an uploaded file
Managed == "managed"             \* the rendered base of a gateway without source
Off == "off"                     \* the default overlay, disabled

ASSUME LibraryAssumption ==
    /\ Managed \in DOMAIN Contents
    /\ Off \in DOMAIN Overlays /\ ~Overlays[Off].enabled /\ ValidateProfileOverlay(Overlays[Off])

\* What cannot be parsed never enters the library, nor is it saved.
ASSUME DocumentsAssumption ==
    /\ \A c \in DOMAIN Contents : IsDocument(Contents[c])
    /\ \A o \in DOMAIN Overlays : IsOverlayDocument(Overlays[o])

VARIABLES
    feed,     \* what the subscription's address serves
    list,     \* sources.json: id -> its digest and its earlier versions
    files,    \* snapshots: <<id, digest>>
    address,  \* whether the subscription's URL is in the credential file
    overlay,  \* the saved overlay
    config,   \* the desired profile: mode, digests of source and overlay, file
    base,     \* the workspace's base metadata
    running,  \* the file the gateway runs, or NoFile
    mu,       \* the holder of the service's lifecycle mutex, or Nobody
    req,      \* what each request is at and holds
    left

library == <<list, files, address>>
desired == <<config, base, running>>
vars == <<feed, library, overlay, desired, mu, req, left>>

Spend(kind) ==
    /\ left[kind] > 0 /\ left.all > 0
    /\ left' = [left EXCEPT ![kind] = @ - 1, !.all = @ - 1]

NoFile == [by |-> "", of |-> <<>>]
Nobody == "nobody"
Idle == [at |-> "idle"]
Absent == <<>>
NoBase == [effective |-> NoFile, source |-> Absent, mode |-> Managed]

Init ==
    /\ feed \in DOMAIN Contents \ {Managed}
    /\ list = <<>> /\ files = {} /\ address = FALSE
    /\ overlay = Off
    /\ config = [mode |-> Managed, source |-> Absent, overlay |-> Off, file |-> [by |-> Managed, of |-> <<Managed>>]]
    /\ base = NoBase
    /\ running = NoFile /\ mu = Nobody
    /\ req = [r \in Request |-> Idle] /\ left \in Quotas

Goes(r, to) == req' = [req EXCEPT ![r] = to]
Moves(r, at) == req' = [req EXCEPT ![r].at = at]
Frees(r) == mu' = IF mu = r THEN Nobody ELSE mu

\* The document a composed file has.
Content(of) ==
    LET after[n \in 1..Len(of)] ==
            IF n = 1 THEN Contents[of[1]] ELSE ComposeProfileOverlay(after[n - 1], Overlays[of[n]])
    IN  after[Len(of)]
Fits(of, o) == Compatible(Content(of), Overlays[o])
With(of, o) == IF Overlays[o].enabled THEN Append(of, o) ELSE of
Effective(o) == IF Overlays[o].enabled THEN o ELSE Off

-----------------------------------------------------------------------------
(* Importing: the content is taken, its snapshot written, the list read,   *)
(* and, after every listed source was composed for its flags, written.     *)

\* The subscription's address changes what it serves.
Publish == Spend("publish") /\ feed' \in DOMAIN Contents \ {Managed, feed}
           /\ UNCHANGED <<library, overlay, desired, mu, req>>

Upload(r) ==
    /\ req[r] = Idle /\ Spend("ask")
    /\ \E c \in DOMAIN Contents \ {Managed} :
           Goes(r, [at |-> "import", id |-> Local, digest |-> c, before |-> <<>>])
    /\ UNCHANGED <<feed, library, overlay, desired, mu>>

\* The list to return to is read when the answer's header has come.
ImportURL(r) ==
    /\ req[r] = Idle /\ Spend("ask")
    /\ Goes(r, [at |-> "import", id |-> Subscription, digest |-> feed, before |-> list])
    /\ UNCHANGED <<feed, library, overlay, desired, mu>>

Refresh(r) == Subscription \in DOMAIN list /\ address /\ ImportURL(r)

Snapshot(r) ==
    /\ req[r].at = "import"
    /\ files' = files \cup {<<req[r].id, req[r].digest>>}
    /\ Goes(r, [at |-> "list", id |-> req[r].id, digest |-> req[r].digest,
                before |-> req[r].before, seen |-> list])
    /\ UNCHANGED <<feed, list, address, overlay, desired, mu, left>>

\* What was listed becomes a version, unless it is the same again.
Listed(seen, id, digest) ==
    LET old == IF id \in DOMAIN seen THEN seen[id].versions \cup ({seen[id].digest} \ {digest}) ELSE {}
    IN  [i \in {id} \cup DOMAIN seen |-> IF i = id THEN [digest |-> digest, versions |-> old] ELSE seen[i]]

SaveImport(r) ==
    /\ req[r].at = "list"
    /\ list' = Listed(req[r].seen, req[r].id, req[r].digest)
    /\ IF req[r].id = Subscription THEN Moves(r, "address") ELSE Goes(r, Idle)
    /\ UNCHANGED <<feed, files, address, overlay, desired, mu, left>>

KeepAddress(r) ==
    /\ req[r].at = "address" /\ address' = TRUE /\ Goes(r, Idle)
    /\ UNCHANGED <<feed, list, files, overlay, desired, mu, left>>

\* The address cannot be kept: the list goes back and the snapshot away, even one
\* an earlier import wrote.
AddressFails(r) ==
    /\ req[r].at = "address" /\ Spend("address")
    /\ list' = req[r].before /\ Moves(r, "remove")
    /\ UNCHANGED <<feed, files, address, overlay, desired, mu>>

RemoveSnapshot(r) ==
    /\ req[r].at = "remove" /\ Goes(r, Idle)
    /\ files' = files \ {<<req[r].id, req[r].digest>>}
    /\ UNCHANGED <<feed, list, address, overlay, desired, mu, left>>

-----------------------------------------------------------------------------
(* Editing the overlay: a client has read a revision and sends a document. *)

Edit(r) ==
    /\ req[r] = Idle /\ Spend("edit")
    /\ \E o \in DOMAIN Overlays : Goes(r, [at |-> "edit", seen |-> overlay, overlay |-> o])
    /\ UNCHANGED <<feed, library, overlay, desired, mu>>

\* The revision is compared, then the body is read and validated.
CheckEdit(r) ==
    /\ req[r].at = "edit"
    /\ IF req[r].seen = overlay /\ ValidateProfileOverlay(Overlays[req[r].overlay])
       THEN Moves(r, "write") ELSE Goes(r, Idle)
    /\ UNCHANGED <<feed, library, overlay, desired, mu, left>>

SaveProfileOverlay(r) ==
    /\ req[r].at = "write" /\ overlay' = req[r].overlay /\ Goes(r, Idle)
    /\ UNCHANGED <<feed, library, desired, mu, left>>

-----------------------------------------------------------------------------
(* Applying a source: the service composes, the helper compares again and  *)
(* saves, and reloads a gateway that runs.                                 *)

Choose(r) ==
    /\ req[r] = Idle /\ Spend("apply")
    /\ \E id \in DOMAIN list : Goes(r, [at |-> "choose", id |-> id, match |-> config])
    /\ UNCHANGED <<feed, library, overlay, desired, mu>>

Applicable(r) ==
    /\ req[r].id \in DOMAIN list
    /\ Valid(Contents[list[req[r].id].digest])
    /\ running # NoFile => mu = Nobody
    /\ req[r].match = config
    /\ <<req[r].id, list[req[r].id].digest>> \in files
    /\ Fits(<<list[req[r].id].digest>>, overlay)

Compose(r) ==
    /\ req[r].at = "choose" /\ Applicable(r)
    /\ Goes(r, [at |-> "apply", source |-> <<list[req[r].id].digest>>, overlay |-> overlay, match |-> req[r].match])
    /\ mu' = IF running # NoFile THEN r ELSE mu
    /\ UNCHANGED <<feed, library, overlay, desired, left>>

Refuse(r) ==
    /\ req[r].at = "choose" /\ ~Applicable(r) /\ Goes(r, Idle)
    /\ UNCHANGED <<feed, library, overlay, desired, mu, left>>

\* Mutant: the overlay's revision is read when the profile is saved.
RecordedLate(source, o) ==
    [mode |-> "imported", source |-> source, overlay |-> Effective(overlay),
     file |-> [by |-> "apply", of |-> With(source, o)]]

Recorded(source, o) ==
    [mode |-> "imported", source |-> source, overlay |-> Effective(o),
     file |-> [by |-> "apply", of |-> With(source, o)]]

ApplyProfile(r) ==
    /\ req[r].at = "apply" /\ req[r].match = config
    /\ config' = Recorded(req[r].source, req[r].overlay)
    /\ running' = IF running = NoFile THEN NoFile ELSE config'.file
    /\ Moves(r, "mark")
    /\ UNCHANGED <<feed, library, overlay, base, mu, left>>

\* Refused by the engine, or a reload that fails and whose restart may fail, too.
ApplyFails(r) ==
    /\ req[r].at = "apply"
    /\ IF req[r].match = config THEN Spend("engine") /\ running' \in {running, NoFile}
       ELSE UNCHANGED <<running, left>>
    /\ Goes(r, Idle) /\ Frees(r)
    /\ UNCHANGED <<feed, library, overlay, config, base>>

\* The list is read once more for its flags, and written.
MarkApplied(r) ==
    /\ req[r].at = "mark" /\ Goes(r, [at |-> "marked", seen |-> list])
    /\ UNCHANGED <<feed, library, overlay, desired, mu, left>>

SaveMarks(r) ==
    /\ req[r].at = "marked" /\ list' = req[r].seen /\ Goes(r, Idle) /\ Frees(r)
    /\ UNCHANGED <<feed, files, address, overlay, desired, left>>

-----------------------------------------------------------------------------
(* Starting from the Web: what is saved is composed, and started.          *)

Digests(id) == {list[id].digest} \cup list[id].versions

\* The selected source, from the library when the overlay has changed.
WorkspaceSource ==
    IF config.mode = Managed \/ config.overlay = Effective(overlay) THEN Absent
    ELSE IF \E id \in DOMAIN list :
                Head(config.source) \in Digests(id) /\ <<id, Head(config.source)>> \in files
         THEN config.source ELSE Absent

AskStart(r) ==
    /\ req[r] = Idle /\ running = NoFile /\ mu = Nobody /\ Spend("start")
    /\ Goes(r, [at |-> "start", source |-> WorkspaceSource, overlay |-> overlay, match |-> config])
    /\ mu' = r
    /\ UNCHANGED <<feed, library, overlay, desired>>

\* Mutant: the metadata of another composition serves.
AnyBase == IF base = NoBase THEN [NoBase EXCEPT !.mode = config.mode] ELSE base

\* The metadata is of the file that is configured, or of no use.
BaseNow == IF base.effective = config.file /\ base # NoBase THEN base ELSE [NoBase EXCEPT !.mode = config.mode]

\* Where a composition starts from: the library's source, the managed base, the base
\* of the last composition, or the configured file when nothing was composed into it.
Start(source) ==
    IF source # Absent THEN source
    ELSE IF BaseNow.mode = Managed THEN <<Managed>>
    ELSE IF BaseNow.source # Absent THEN BaseNow.source
    ELSE config.file.of

\* Composed into a file whose raw source is gone, an overlay cannot be exchanged.
Unavailable(source) ==
    /\ source = Absent /\ BaseNow.mode # Managed /\ BaseNow.source = Absent
    /\ config.overlay # Off

Unchanged == [config |-> config, base |-> base]
Refused == [config |-> NoFile, base |-> NoBase]
Materialized(from, o) ==
    LET file == [by |-> "start", of |-> With(from, o)]
    IN  [config |-> [mode |-> "imported", source |-> from, overlay |-> Effective(o), file |-> file],
         base |-> [effective |-> file, source |-> from, mode |-> BaseNow.mode]]

workspaceCandidate(source, o) ==
    LET on == Overlays[o].enabled
        from == Start(source)
    IN  IF ~on /\ config.mode = "imported" /\ config.overlay = Off THEN Unchanged
        ELSE IF Unavailable(source) THEN IF config.overlay = o THEN Unchanged ELSE Refused
        ELSE IF ~on /\ BaseNow.mode = Managed
        THEN [config |-> [mode |-> Managed, source |-> Absent, overlay |-> Off,
                          file |-> [by |-> Managed, of |-> <<Managed>>]], base |-> base]
        ELSE IF Fits(from, o) THEN Materialized(from, o) ELSE Refused

StartWeb(r) ==
    /\ req[r].at = "start" /\ req[r].match = config
    /\ LET candidate == workspaceCandidate(req[r].source, req[r].overlay)
       IN  /\ candidate # Refused
           /\ config' = candidate.config /\ base' = candidate.base
           /\ running' = candidate.config.file
    /\ Goes(r, Idle) /\ Frees(r)
    /\ UNCHANGED <<feed, library, overlay, left>>

StartFails(r) ==
    /\ req[r].at = "start"
    /\ IF req[r].match = config /\ workspaceCandidate(req[r].source, req[r].overlay) # Refused
       THEN Spend("engine") ELSE UNCHANGED left
    /\ Goes(r, Idle) /\ Frees(r)
    /\ UNCHANGED <<feed, library, overlay, desired>>

Stop ==
    /\ running # NoFile /\ mu = Nobody /\ running' = NoFile
    /\ left.stop > 0 /\ left' = [left EXCEPT !.stop = @ - 1]
    /\ UNCHANGED <<feed, library, overlay, config, base, mu, req>>

-----------------------------------------------------------------------------

Next ==
    \/ Publish \/ Stop
    \/ \E r \in Request :
        \/ Upload(r) \/ ImportURL(r) \/ Refresh(r) \/ Snapshot(r) \/ SaveImport(r)
        \/ KeepAddress(r) \/ AddressFails(r) \/ RemoveSnapshot(r)
        \/ Edit(r) \/ CheckEdit(r) \/ SaveProfileOverlay(r)
        \/ Choose(r) \/ Compose(r) \/ Refuse(r) \/ ApplyProfile(r) \/ ApplyFails(r)
        \/ MarkApplied(r) \/ SaveMarks(r)
        \/ AskStart(r) \/ StartWeb(r) \/ StartFails(r)

Spec == Init /\ [][Next]_vars

-----------------------------------------------------------------------------
(* Properties.                                                             *)

\* The variables have the shapes the actions rely on, and what is saved is an overlay.
TypeOK ==
    /\ feed \in DOMAIN Contents /\ address \in BOOLEAN
    /\ DOMAIN list \subseteq {Subscription, Local}
    /\ \A id \in DOMAIN list : Digests(id) \subseteq DOMAIN Contents
    /\ files \subseteq {Subscription, Local} \X DOMAIN Contents
    /\ ValidateProfileOverlay(Overlays[overlay])
    /\ config.mode \in {Managed, "imported"} /\ config.overlay \in DOMAIN Overlays
    /\ mu \in Request \cup {Nobody}
    /\ DOMAIN req = Request

\* The configured file is the recorded source with the recorded overlay composed into
\* it exactly once, and the base that a later start composes from is a raw source:
\* whichever of apply and start wrote it, and with whatever was saved meanwhile.
\* TypeOK is checked as a part of it.
RecordedInputs ==
    /\ TypeOK
    /\ config.mode = "imported" =>
        /\ Len(config.source) = 1
        /\ config.file.of = With(config.source, config.overlay)
    /\ Len(base.source) <= 1

\* Refreshes, imports of other content and a start with another overlay leave the
\* selected version alone: only an apply selects, or a start from or to no source.
SelectionStays ==
    [][\/ config'.source = config.source
       \/ config'.file.by = "apply"
       \/ {config.source, config'.source} = {Absent, <<Managed>>}]_vars

\* If everything a source refers to is there, so it is in what was composed from it,
\* unless the source lets candidates and providers share a list.
OverlayResolved ==
    LET source == Content(config.source)
    IN  config.mode = "imported" /\ Resolves(source) /\ FieldsApart(source)
            => Resolves(Content(config.file.of))

\* The overlay changes what it names and nothing else of the source.
SourceKept ==
    config.overlay # Off =>
        Kept(Content(config.source), Overlays[config.overlay], Content(config.file.of))
=============================================================================
