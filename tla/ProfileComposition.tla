------------------------- MODULE ProfileComposition --------------------------
(***************************************************************************)
(* The documents a user imports and the global overlay composed with them  *)
(* (internal/mihomo/profile.go and profile_overlay.go).                    *)
(*                                                                         *)
(* A document is what the composition can tell of one. Named entries are   *)
(* sequences of records with a name, in the order of the YAML; a group's   *)
(* candidates and providers are references to list nodes, because an       *)
(* imported document may let two groups share one list through an alias.   *)
(* Scalars, styles, key identity and the bodies of proxies and providers   *)
(* are abstracted to a body that tells one entry from its replacement.     *)
(***************************************************************************)
EXTENDS Naturals, SequencesExt

CONSTANTS
    Builtin,    \* targets every engine has: DIRECT, REJECT, ...
    Reserved,   \* names in OpenSurge's namespaces
    OwnedDNS,   \* DNS fields the gateway owns
    OverlayDNS  \* DNS fields an overlay may touch

Named(name, body) == [name |-> name, body |-> body]
RuleTo(kind, set, target) == [kind |-> kind, set |-> set, to |-> target]
IsMatch(rule) == rule.kind = "MATCH"

Names(entries) == {entries[i].name : i \in DOMAIN entries}
Distinct(entries) == \A i, j \in DOMAIN entries : entries[i].name = entries[j].name => i = j
Position(entries, name) == CHOOSE i \in DOMAIN entries : entries[i].name = name

\* Proxies and groups are one namespace.
Targets(doc) == Names(doc.proxies) \cup Names(doc.groups)

\* A map of which some entries are new.
Over(new, old) == [k \in DOMAIN new \cup DOMAIN old |-> IF k \in DOMAIN new THEN new[k] ELSE old[k]]

NoList == <<"", "">>
Lists(g) == {g.proxies, g.use} \ {NoList}
Items(doc, list) == IF list = NoList THEN <<>> ELSE doc.lists[list]
Candidates(doc, name) == Items(doc, doc.groups[Position(doc.groups, name)].proxies)
Uses(doc, name) == Items(doc, doc.groups[Position(doc.groups, name)].use)

-----------------------------------------------------------------------------
(* Reading a document.                                                     *)

HasMatch(rules) == rules # <<>> /\ IsMatch(Last(rules))

\* Rules that follow a MATCH could never apply.
RulesValid(rules) == \A i \in DOMAIN rules : IsMatch(rules[i]) => i = Len(rules)

NamesValid(doc) ==
    /\ Distinct(doc.proxies \o doc.groups)
    /\ Distinct(doc.providers)
    /\ Distinct(doc.ruleProviders)

NamespaceFree(doc) ==
    /\ (Targets(doc) \cup Names(doc.providers) \cup Names(doc.ruleProviders)) \cap Reserved = {}
    /\ \A name \in Names(doc.groups) : ToSet(Candidates(doc, name)) \cap Reserved = {}
    /\ \A i \in DOMAIN doc.rules : doc.rules[i].to \notin Reserved

Valid(doc) == RulesValid(doc.rules) /\ NamesValid(doc) /\ NamespaceFree(doc)

\* The gateway's own fields are dropped, and there is always a nameserver.
DefaultDNS == [nameserver |-> [kind |-> "list", of |-> << <<"1.1.1.1">>, <<"8.8.8.8">> >>]]
Resolvers(dns) == Over([f \in DOMAIN dns \ OwnedDNS |-> dns[f]], DefaultDNS)

-----------------------------------------------------------------------------
(* An overlay, and when it is one at all.                                  *)

Group(name, proxies, use) == [name |-> name, proxies |-> proxies, use |-> use]

NoOperations ==
    [enabled |-> FALSE, prepend |-> <<>>, append |-> <<>>,
     proxyAdd |-> <<>>, proxyReplace |-> <<>>, providerAdd |-> <<>>, providerReplace |-> <<>>,
     groupAdd |-> <<>>, groupReplace |-> <<>>, patch |-> <<>>,
     ruleProviderAdd |-> <<>>, ruleProviderReplace |-> <<>>,
     dnsMerge |-> <<>>, dnsAppend |-> <<>>]

OperationsValid(add, replace) ==
    /\ Distinct(add \o replace)
    /\ Names(add \o replace) \cap (Reserved \cup {""}) = {}

PatchValid(patch) ==
    /\ patch.name \notin Reserved \cup {""}
    /\ patch.proxies # <<>> \/ patch.use # <<>>
    /\ IsInjective(patch.proxies) /\ IsInjective(patch.use)

ValidateProfileOverlay(o) ==
    /\ \A i \in DOMAIN (o.prepend \o o.append) : ~IsMatch((o.prepend \o o.append)[i])
    /\ OperationsValid(o.proxyAdd, o.proxyReplace)
    /\ OperationsValid(o.groupAdd, o.groupReplace)
    /\ OperationsValid(o.providerAdd, o.providerReplace)
    /\ OperationsValid(o.ruleProviderAdd, o.ruleProviderReplace)
    /\ Distinct(o.patch) /\ \A i \in DOMAIN o.patch : PatchValid(o.patch[i])
    /\ DOMAIN o.dnsMerge \cup DOMAIN o.dnsAppend \subseteq OverlayDNS \ OwnedDNS
    /\ \A f \in DOMAIN o.dnsAppend : o.dnsAppend[f] # <<>>

-----------------------------------------------------------------------------
(* What parsing leaves of a document and of an overlay. Every alias of a   *)
(* document refers to a list that is there.                                *)

Entry == [name : STRING, body : Nat]
Rule == [kind : STRING, set : STRING, to : STRING]

IsDocument(doc) ==
    /\ doc = [proxies |-> doc.proxies, groups |-> doc.groups, lists |-> doc.lists, providers |-> doc.providers,
              ruleProviders |-> doc.ruleProviders, rules |-> doc.rules, dns |-> doc.dns]
    /\ {doc.proxies, doc.providers, doc.ruleProviders} \subseteq Seq(Entry)
    /\ doc.rules \in Seq(Rule)
    /\ doc.groups \in Seq([name : STRING, proxies : STRING \X STRING, use : STRING \X STRING])
    /\ doc.lists \in [DOMAIN doc.lists -> Seq(STRING)]
    /\ \A i \in DOMAIN doc.groups : Lists(doc.groups[i]) \subseteq DOMAIN doc.lists

IsOverlayDocument(o) ==
    /\ o.enabled \in BOOLEAN
    /\ {o.prepend, o.append} \subseteq Seq(Rule)
    /\ {o.proxyAdd, o.proxyReplace, o.providerAdd, o.providerReplace,
        o.ruleProviderAdd, o.ruleProviderReplace} \subseteq Seq(Entry)
    /\ {o.groupAdd, o.groupReplace, o.patch}
           \subseteq Seq([name : STRING, proxies : Seq(STRING), use : Seq(STRING)])

-----------------------------------------------------------------------------
(* Named entries: a replacement takes the place of its target, an addition *)
(* comes last.                                                             *)

Replaced(entries, replacements) ==
    [i \in DOMAIN entries |->
        IF entries[i].name \in Names(replacements)
        THEN replacements[Position(replacements, entries[i].name)] ELSE entries[i]]
NamedApplied(entries, add, replace) == Replaced(entries, replace) \o add

NamedFit(own, taken, add, replace) == Names(replace) \subseteq own /\ Names(add) \cap taken = {}

-----------------------------------------------------------------------------
(* Groups: one of the overlay has lists of its own.                        *)

\* (A mark keeps them apart from the document's lists.)
ListOf(name, field, values) == IF values = <<>> THEN NoList ELSE <<name, field, "own">>
OwnGroup(g) ==
    [name |-> g.name, proxies |-> ListOf(g.name, "proxies", g.proxies), use |-> ListOf(g.name, "use", g.use)]
OwnGroups(groups) == [i \in DOMAIN groups |-> OwnGroup(groups[i])]

\* Each under the name of its group and its field.
OwnLists(groups) ==
    [list \in UNION {Lists(OwnGroup(groups[i])) : i \in DOMAIN groups} |->
        groups[Position(groups, list[1])][list[2]]]

GroupsApplied(doc, o) ==
    [doc EXCEPT !.groups = NamedApplied(@, OwnGroups(o.groupAdd), OwnGroups(o.groupReplace)),
                !.lists = Over(OwnLists(o.groupAdd \o o.groupReplace), @)]

\* The first group with a shared list holds its anchor: the aliases of a holder
\* that was replaced refer to nothing, and the result is no YAML.
AnchorsHold(doc, o) ==
    \A i, j \in DOMAIN doc.groups :
        /\ i < j
        /\ Lists(doc.groups[i]) \cap Lists(doc.groups[j]) # {}
        /\ doc.groups[i].name \in Names(o.groupReplace)
        => doc.groups[j].name \in Names(o.groupReplace)

\* A patch appends to the node of the list, whoever else refers to it, or gives the
\* group a list of its own.
Appended(doc, name, field, values) ==
    LET at == Position(doc.groups, name)
        old == doc.groups[at][field]
        list == IF old = NoList THEN <<name, field, "own">> ELSE old
    IN  IF values = <<>> THEN doc
        ELSE [doc EXCEPT !.groups[at][field] = list,
                         !.lists = Over([l \in {list} |-> Items(doc, old) \o values], @)]

Patched(doc, patch) ==
    Appended(Appended(doc, patch.name, "proxies", patch.proxies), patch.name, "use", patch.use)

PatchFits(doc, patch) ==
    /\ patch.name \in Names(doc.groups)
    /\ ToSet(patch.proxies) \cap ToSet(Candidates(doc, patch.name)) = {}
    /\ ToSet(patch.use) \cap ToSet(Uses(doc, patch.name)) = {}
    /\ ToSet(patch.proxies) \subseteq Builtin \cup Targets(doc)
    /\ ToSet(patch.use) \subseteq Names(doc.providers)

PatchTried(at, patch) ==
    IF at.fits /\ PatchFits(at.doc, patch) THEN [fits |-> TRUE, doc |-> Patched(at.doc, patch)]
    ELSE [fits |-> FALSE, doc |-> at.doc]

\* One patch after the other: a later one finds what the earlier ones have left.
PatchesApplied(doc, patches) ==
    LET after[n \in 0..Len(patches)] ==
            IF n = 0 THEN [fits |-> TRUE, doc |-> doc] ELSE PatchTried(after[n - 1], patches[n])
    IN  after[Len(patches)]

-----------------------------------------------------------------------------
(* References the overlay brings must resolve in the result.               *)

GroupResolves(doc, name) ==
    /\ ToSet(Candidates(doc, name)) \subseteq Builtin \cup Targets(doc)
    /\ ToSet(Uses(doc, name)) \subseteq Names(doc.providers)

\* Mutant: the target of an overlay's rule is not looked up.
RuleSetResolves(doc, rule) == rule.kind = "RULE-SET" => rule.set \in Names(doc.ruleProviders)

RuleResolves(doc, rule) ==
    /\ rule.kind = "RULE-SET" => rule.set \in Names(doc.ruleProviders)
    /\ rule.to \in Builtin \cup Targets(doc)

OverlayResolves(doc, o) ==
    /\ \A name \in Names(o.groupAdd \o o.groupReplace) : GroupResolves(doc, name)
    /\ \A i \in DOMAIN (o.prepend \o o.append) : RuleResolves(doc, (o.prepend \o o.append)[i])

-----------------------------------------------------------------------------
(* Rules and DNS.                                                          *)

\* Mutant: the user's rules come after the document's.
RulesBehind(rules, o) ==
    IF HasMatch(rules) THEN Front(rules) \o o.prepend \o o.append \o <<Last(rules)>>
    ELSE rules \o o.prepend \o o.append

RulesApplied(rules, o) ==
    LET body == IF HasMatch(rules) THEN Front(rules) ELSE rules
        terminal == IF HasMatch(rules) THEN <<Last(rules)>> ELSE <<>>
    IN  o.prepend \o body \o o.append \o terminal

Merged(old, new) ==
    IF old.kind = "map" /\ new.kind = "map"
    THEN [old EXCEPT !.of = SelectSeq(@, LAMBDA entry :
            \A i \in DOMAIN new.of : new.of[i][1] # entry[1]) \o new.of]
    ELSE new

DNSMerged(dns, merge) ==
    [f \in DOMAIN dns \cup DOMAIN merge |->
        IF f \notin DOMAIN merge THEN dns[f]
        ELSE IF f \notin DOMAIN dns THEN merge[f] ELSE Merged(dns[f], merge[f])]

DNSFits(dns, append) == \A f \in DOMAIN dns \cap DOMAIN append : dns[f].kind = "list"

DNSAppended(dns, append) ==
    [f \in DOMAIN dns \cup DOMAIN append |->
        IF f \notin DOMAIN append THEN dns[f]
        ELSE IF f \notin DOMAIN dns THEN [kind |-> "list", of |-> append[f]]
        ELSE [dns[f] EXCEPT !.of = @ \o append[f]]]

-----------------------------------------------------------------------------
(* The composition. A disabled overlay leaves the document as it is.       *)

EntriesApplied(doc, o) ==
    [doc EXCEPT !.proxies = NamedApplied(@, o.proxyAdd, o.proxyReplace),
                !.providers = NamedApplied(@, o.providerAdd, o.providerReplace),
                !.ruleProviders = NamedApplied(@, o.ruleProviderAdd, o.ruleProviderReplace)]
Unpatched(doc, o) == GroupsApplied(EntriesApplied(doc, o), o)

\* The result before its rules and DNS, and whether the patches fitted.
Composed(doc, o) == PatchesApplied(Unpatched(doc, o), o.patch)

ComposeProfileOverlay(doc, o) ==
    IF ~o.enabled THEN doc
    ELSE [Composed(doc, o).doc EXCEPT
            !.rules = RulesApplied(@, o),
            !.dns = DNSAppended(DNSMerged(Resolvers(@), o.dnsMerge), o.dnsAppend)]

Compatible(doc, o) ==
    /\ ValidateProfileOverlay(o)
    /\ Valid(doc)
    /\ o.enabled =>
        /\ NamedFit(Names(doc.proxies), Targets(doc), o.proxyAdd, o.proxyReplace)
        /\ NamedFit(Names(doc.providers), Names(doc.providers), o.providerAdd, o.providerReplace)
        /\ NamedFit(Names(doc.groups), Targets(doc) \cup Names(o.proxyAdd), o.groupAdd, o.groupReplace)
        /\ NamedFit(Names(doc.ruleProviders), Names(doc.ruleProviders), o.ruleProviderAdd, o.ruleProviderReplace)
        /\ AnchorsHold(doc, o)
        /\ Composed(doc, o).fits
        /\ OverlayResolves(Composed(doc, o).doc, o)
        /\ o.append # <<>> => HasMatch(doc.rules)
        /\ DNSFits(DNSMerged(Resolvers(doc.dns), o.dnsMerge), o.dnsAppend)
        /\ Valid(ComposeProfileOverlay(doc, o))

-----------------------------------------------------------------------------
(* What a composition promises.                                            *)

\* Whatever a document refers to is there.
Resolves(doc) ==
    /\ \A name \in Names(doc.groups) : GroupResolves(doc, name)
    /\ \A i \in DOMAIN doc.rules :
        /\ doc.rules[i].kind = "RULE-SET" => doc.rules[i].set \in Names(doc.ruleProviders)
        /\ doc.rules[i].to \in Builtin \cup Targets(doc)

\* No list serves as candidates and as providers at once: what a patch appends to one
\* is of one kind only.
FieldsApart(doc) ==
    \A i, j \in DOMAIN doc.groups : doc.groups[i].proxies = doc.groups[j].use => doc.groups[j].use = NoList

\* The user's rules first, then the document's own in their order, and what decides
\* about everything else still comes last.
RulesKept(raw, o, result) ==
    /\ IsPrefix(o.prepend \o (IF HasMatch(raw.rules) THEN Front(raw.rules) ELSE raw.rules), result.rules)
    /\ HasMatch(raw.rules) => Last(result.rules) = Last(raw.rules)

\* Entries the overlay does not name keep their place and body, but for groups that
\* share a list with a patched one.
Touched(doc, o) ==
    Names(o.groupReplace) \cup
    {g \in Names(doc.groups) : \E p \in Names(o.patch) \cap Names(doc.groups) :
        g = p \/ Lists(doc.groups[Position(doc.groups, g)]) \cap Lists(doc.groups[Position(doc.groups, p)]) # {}}

EntriesKept(old, new, named) ==
    \A i \in DOMAIN old : new[i].name = old[i].name /\ (old[i].name \notin named => new[i] = old[i])

Kept(raw, o, result) ==
    /\ RulesKept(raw, o, result)
    /\ EntriesKept(raw.proxies, result.proxies, Names(o.proxyReplace))
    /\ EntriesKept(raw.providers, result.providers, Names(o.providerReplace))
    /\ EntriesKept(raw.ruleProviders, result.ruleProviders, Names(o.ruleProviderReplace))
    /\ \A name \in Names(raw.groups) \ Touched(raw, o) :
        Candidates(result, name) = Candidates(raw, name) /\ Uses(result, name) = Uses(raw, name)
    /\ \A f \in DOMAIN Resolvers(raw.dns) \ (DOMAIN o.dnsMerge \cup DOMAIN o.dnsAppend) :
        result.dns[f] = Resolvers(raw.dns)[f]

=============================================================================
