------------------------- MODULE ProfileLibraryProofs -------------------------
(***************************************************************************)
(* Proofs about ProfileLibrary, for any number of requests under way, any  *)
(* documents and overlays, and any bound on events.                        *)
(*                                                                         *)
(* What is recorded of the configured file is only right because whatever  *)
(* a composition starts from is a raw source: the library's, the managed   *)
(* base, the base an earlier start has kept, or the configured file itself *)
(* when no overlay went into it. The invariant says so of every record     *)
(* that is kept, and of what each request carries from one step to the     *)
(* next.                                                                   *)
(*                                                                         *)
(* What the file then holds is a matter of the composition alone. The      *)
(* first part is about it: a document before its patches, what one patch   *)
(* changes, and by induction what any number of them leave as it was.      *)
(***************************************************************************)
EXTENDS ProfileLibrary, FiniteSetTheorems, SequenceTheorems, TLAPS

-----------------------------------------------------------------------------
(* Sequences and names.                                                   *)

\* Induction: a set of numbers with zero and every successor is that of all numbers.
LEMMA Induction ==
    ASSUME NEW T, T \subseteq Nat, 0 \in T, \A n \in T : n + 1 \in T
    PROVE  T = Nat
<1>1. SUFFICES ASSUME NEW k \in Nat, k \notin T PROVE FALSE
  OBVIOUS
<1> DEFINE A == T \cap 0..k
<1> DEFINE next == [n \in A |-> n + 1]
<1>2. IsFiniteSet(A)
  <2>1. IsFiniteSet(0..k)
    BY FS_Interval
  <2>2. A \in SUBSET (0..k)
    OBVIOUS
  <2>3. QED
    BY <2>1, <2>2, FS_Subset
<1>3. next \in Injection(A, A)
  <2>1. ASSUME NEW n \in A PROVE n + 1 \in A
    BY <1>1, <2>1
  <2>2. next \in [A -> A]
    BY <2>1
  <2>3. \A m, n \in A : next[m] = next[n] => m = n
    OBVIOUS
  <2>4. QED
    BY <2>2, <2>3 DEF Injection, IsInjective
<1>4. next \in Surjection(A, A)
  BY <1>2, <1>3, FS_Injection
<1>5. 0 \in A
  OBVIOUS
<1>6. PICK n \in A : next[n] = 0
  BY <1>4, <1>5 DEF Surjection
<1>7. QED
  BY <1>6

\* A name is found where it is.
LEMMA PositionIn ==
    ASSUME NEW entries, NEW name \in Names(entries)
    PROVE  Position(entries, name) \in DOMAIN entries /\ entries[Position(entries, name)].name = name
<1>1. \E i \in DOMAIN entries : entries[i].name = name
  BY DEF Names
<1>2. QED
  BY <1>1 DEF Position

\* Distinct names are found where they are.
LEMMA PositionOf ==
    ASSUME NEW entries, Distinct(entries), NEW i \in DOMAIN entries
    PROVE  Position(entries, entries[i].name) = i
<1>1. entries[i].name \in Names(entries)
  BY DEF Names
<1>2. QED
  BY <1>1, PositionIn DEF Distinct

\* What a sequence holds that was made of two.
LEMMA Joined ==
    ASSUME NEW S, NEW T, NEW s \in Seq(S), NEW t \in Seq(T)
    PROVE  /\ s \o t \in Seq(S \cup T)
           /\ DOMAIN (s \o t) = 1..(Len(s) + Len(t))
           /\ \A i \in DOMAIN s : i \in DOMAIN (s \o t) /\ (s \o t)[i] = s[i]
           /\ \A i \in DOMAIN t : Len(s) + i \in DOMAIN (s \o t) /\ (s \o t)[Len(s) + i] = t[i]
           /\ \A i \in DOMAIN (s \o t) \ DOMAIN s : i - Len(s) \in DOMAIN t /\ (s \o t)[i] = t[i - Len(s)]
<1>1. s \in Seq(S \cup T) /\ t \in Seq(S \cup T)
  OBVIOUS
<1>2. QED
  BY <1>1

\* Its elements are those of both.
LEMMA JoinedSet ==
    ASSUME NEW S, NEW T, NEW s \in Seq(S), NEW t \in Seq(T)
    PROVE  ToSet(s \o t) = ToSet(s) \cup ToSet(t)
<1>1. ToSet(s \o t) \subseteq ToSet(s) \cup ToSet(t)
  BY Joined DEF ToSet
<1>2. ToSet(s) \subseteq ToSet(s \o t)
  BY Joined DEF ToSet
<1>3. ASSUME NEW i \in DOMAIN t PROVE t[i] \in ToSet(s \o t)
  <2>1. Len(s) + i \in DOMAIN (s \o t) /\ (s \o t)[Len(s) + i] = t[i]
    BY Joined
  <2>2. QED
    BY <2>1 DEF ToSet
<1>4. QED
  BY <1>1, <1>2, <1>3 DEF ToSet

\* And its names.
LEMMA JoinedNames ==
    ASSUME NEW S, NEW T, NEW s \in Seq(S), NEW t \in Seq(T)
    PROVE  Names(s \o t) = Names(s) \cup Names(t)
<1>1. Names(s \o t) \subseteq Names(s) \cup Names(t)
  BY Joined DEF Names
<1>2. Names(s) \subseteq Names(s \o t)
  BY Joined DEF Names
<1>3. ASSUME NEW i \in DOMAIN t PROVE t[i].name \in Names(s \o t)
  <2>1. Len(s) + i \in DOMAIN (s \o t) /\ (s \o t)[Len(s) + i] = t[i]
    BY Joined
  <2>2. QED
    BY <2>1 DEF Names
<1>4. QED
  BY <1>1, <1>2, <1>3 DEF Names

\* A replacement has the name of what it replaces.
LEMMA ReplacedNames ==
    ASSUME NEW entries, NEW replacements
    PROVE  /\ DOMAIN Replaced(entries, replacements) = DOMAIN entries
           /\ \A i \in DOMAIN entries :
                /\ Replaced(entries, replacements)[i].name = entries[i].name
                /\ entries[i].name \notin Names(replacements) => Replaced(entries, replacements)[i] = entries[i]
                /\ entries[i].name \in Names(replacements) =>
                     \E j \in DOMAIN replacements : Replaced(entries, replacements)[i] = replacements[j]
BY PositionIn DEF Replaced

\* Replacing mixes the entries of two sequences.
LEMMA ReplacedType ==
    ASSUME NEW S, NEW T, NEW entries \in Seq(S), NEW replacements \in Seq(T),
           NEW new, new = Replaced(entries, replacements)
    PROVE  new \in Seq(S \cup T)
<1>1. DOMAIN new = DOMAIN entries /\ \A i \in DOMAIN entries : new[i] \in S \cup T
  BY ReplacedNames
<1>2. DOMAIN entries = 1..Len(entries) /\ Len(entries) \in Nat
  OBVIOUS
<1>3. new = [i \in 1..Len(entries) |-> new[i]]
  BY <1>1, <1>2 DEF Replaced
<1>4. QED
  BY <1>1, <1>2, <1>3

-----------------------------------------------------------------------------
(* A run of patches, and the fields of a document.                        *)

\* The patches are a run of steps, each from what the one before has left: there is
\* such a run for any number of them.
LEMMA PatchRun ==
    ASSUME NEW doc, NEW patches, Len(patches) \in Nat
    PROVE  \E after :
             /\ after = [n \in 0..Len(patches) |->
                           IF n = 0 THEN [fits |-> TRUE, doc |-> doc] ELSE PatchTried(after[n - 1], patches[n])]
             /\ PatchesApplied(doc, patches) = after[Len(patches)]
<1> DEFINE Steps(m, after) ==
       after = [n \in 0..m |-> IF n = 0 THEN [fits |-> TRUE, doc |-> doc] ELSE PatchTried(after[n - 1], patches[n])]
<1> DEFINE T == {m \in Nat : \E after : Steps(m, after)}
<1>1. 0 \in T
  <2>1. Steps(0, [n \in 0..0 |-> [fits |-> TRUE, doc |-> doc]])
    OBVIOUS
  <2>2. QED
    BY <2>1
<1>2. ASSUME NEW m \in T PROVE m + 1 \in T
  <2>1. PICK after : Steps(m, after)
    OBVIOUS
  <2> DEFINE longer == [n \in 0..(m + 1) |-> IF n = m + 1 THEN PatchTried(after[m], patches[m + 1]) ELSE after[n]]
  <2>2. Steps(m + 1, longer)
    <3>1. DOMAIN longer = 0..(m + 1)
      OBVIOUS
    <3>2. ASSUME NEW n \in 0..(m + 1)
          PROVE  longer[n] = IF n = 0 THEN [fits |-> TRUE, doc |-> doc] ELSE PatchTried(longer[n - 1], patches[n])
      <4>1. CASE n = m + 1
        <5>1. longer[m] = after[m] /\ m + 1 # 0 /\ m + 1 - 1 = m
          OBVIOUS
        <5>2. QED
          BY <4>1, <5>1
      <4>2. CASE n \in 0..m
        <5>1. n = 0 \/ (n - 1 \in 0..m /\ n - 1 # m + 1 /\ n - 1 \in 0..(m + 1))
          BY <4>2
        <5>2. n # m + 1 /\ longer[n] = after[n]
          BY <4>2
        <5>3. n # 0 => longer[n - 1] = after[n - 1]
          BY <5>1
        <5>4. after[n] = IF n = 0 THEN [fits |-> TRUE, doc |-> doc] ELSE PatchTried(after[n - 1], patches[n])
          BY <2>1, <4>2
        <5>5. QED
          BY <5>2, <5>3, <5>4
      <4>3. QED
        BY <4>1, <4>2
    <3> HIDE DEF longer
    <3>3. longer = [n \in 0..(m + 1) |-> longer[n]]
      BY <3>1 DEF longer
    <3>4. QED
      BY <3>2, <3>3
  <2> HIDE DEF Steps
  <2>3. m + 1 \in Nat
    OBVIOUS
  <2>4. QED
    BY <2>2, <2>3
<1> HIDE DEF Steps
<1>3. T = Nat
  BY <1>1, <1>2, Induction
<1>4. \E after : Steps(Len(patches), after)
  BY <1>3
<1> DEFINE run == CHOOSE after : Steps(Len(patches), after)
<1>5. Steps(Len(patches), run)
  BY <1>4
<1>6. PatchesApplied(doc, patches) = run[Len(patches)]
  BY DEF PatchesApplied, Steps
<1> HIDE DEF run
<1>7. QED
  BY <1>5, <1>6 DEF Steps

\* Proxies and providers, field by field.
LEMMA EntriesParts ==
    ASSUME NEW raw, IsDocument(raw), NEW o
    PROVE  EntriesApplied(raw, o) =
             [proxies |-> NamedApplied(raw.proxies, o.proxyAdd, o.proxyReplace), groups |-> raw.groups,
              lists |-> raw.lists, providers |-> NamedApplied(raw.providers, o.providerAdd, o.providerReplace),
              ruleProviders |-> NamedApplied(raw.ruleProviders, o.ruleProviderAdd, o.ruleProviderReplace),
              rules |-> raw.rules, dns |-> raw.dns]
<1> DEFINE a == NamedApplied(raw.proxies, o.proxyAdd, o.proxyReplace)
<1> DEFINE b == NamedApplied(raw.providers, o.providerAdd, o.providerReplace)
<1> DEFINE c == NamedApplied(raw.ruleProviders, o.ruleProviderAdd, o.ruleProviderReplace)
<1>1. EntriesApplied(raw, o) = [raw EXCEPT !.proxies = a, !.providers = b, !.ruleProviders = c]
  BY DEF EntriesApplied
<1> HIDE DEF a, b, c
<1>2. EntriesApplied(raw, o) = [[[raw EXCEPT !.proxies = a] EXCEPT !.providers = b] EXCEPT !.ruleProviders = c]
  BY <1>1
<1>3. raw = [proxies |-> raw.proxies, groups |-> raw.groups, lists |-> raw.lists, providers |-> raw.providers,
             ruleProviders |-> raw.ruleProviders, rules |-> raw.rules, dns |-> raw.dns]
  BY DEF IsDocument
<1>4. EntriesApplied(raw, o) =
         [proxies |-> a, groups |-> raw.groups, lists |-> raw.lists, providers |-> b, ruleProviders |-> c,
          rules |-> raw.rules, dns |-> raw.dns]
  BY <1>2, <1>3
<1>5. QED
  BY <1>4 DEF a, b, c

\* The document before its patches, field by field.
LEMMA UnpatchedParts ==
    ASSUME NEW raw, IsDocument(raw), NEW o
    PROVE  Unpatched(raw, o) =
             [proxies |-> NamedApplied(raw.proxies, o.proxyAdd, o.proxyReplace),
              groups |-> NamedApplied(raw.groups, OwnGroups(o.groupAdd), OwnGroups(o.groupReplace)),
              lists |-> Over(OwnLists(o.groupAdd \o o.groupReplace), raw.lists),
              providers |-> NamedApplied(raw.providers, o.providerAdd, o.providerReplace),
              ruleProviders |-> NamedApplied(raw.ruleProviders, o.ruleProviderAdd, o.ruleProviderReplace),
              rules |-> raw.rules, dns |-> raw.dns]
<1> DEFINE doc == EntriesApplied(raw, o)
<1> DEFINE a == NamedApplied(doc.groups, OwnGroups(o.groupAdd), OwnGroups(o.groupReplace))
<1> DEFINE b == Over(OwnLists(o.groupAdd \o o.groupReplace), doc.lists)
<1>1. Unpatched(raw, o) = [doc EXCEPT !.groups = a, !.lists = b]
  BY DEF Unpatched, GroupsApplied
<1>2. doc = [proxies |-> doc.proxies, groups |-> doc.groups, lists |-> doc.lists, providers |-> doc.providers,
             ruleProviders |-> doc.ruleProviders, rules |-> doc.rules, dns |-> doc.dns]
  BY EntriesParts
<1> HIDE DEF a, b, doc
<1>3. Unpatched(raw, o) = [[doc EXCEPT !.groups = a] EXCEPT !.lists = b]
  BY <1>1
<1>4. Unpatched(raw, o) =
         [proxies |-> doc.proxies, groups |-> a, lists |-> b, providers |-> doc.providers,
          ruleProviders |-> doc.ruleProviders, rules |-> doc.rules, dns |-> doc.dns]
  BY <1>2, <1>3
<1>5. QED
  BY <1>4, EntriesParts DEF a, b, doc

-----------------------------------------------------------------------------
(* What one patch changes.                                                *)

Own(name, field) == <<name, field, "own">>
Fields == {"proxies", "use"}

\* The documents between two patches differ in their groups and lists only.
Between(first, doc) ==
    /\ doc = [proxies |-> first.proxies, groups |-> doc.groups, lists |-> doc.lists,
              providers |-> first.providers, ruleProviders |-> first.ruleProviders,
              rules |-> first.rules, dns |-> first.dns]
    /\ DOMAIN doc.groups = DOMAIN first.groups
    /\ \A i \in DOMAIN first.groups :
        /\ doc.groups[i] = [name |-> first.groups[i].name, proxies |-> doc.groups[i].proxies, use |-> doc.groups[i].use]
        /\ \A f \in Fields : doc.groups[i][f] \in {first.groups[i][f], Own(first.groups[i].name, f)}

\* The node a patch of this group and field appends to, new when there was none.
Node(doc, at, field) == IF doc.groups[at][field] = NoList THEN Own(doc.groups[at].name, field) ELSE doc.groups[at][field]

AppendStep(first, doc, name, at, field, values, new) ==
    /\ at \in DOMAIN first.groups /\ first.groups[at].name = name /\ doc.groups[at].name = name
    /\ new = [proxies |-> first.proxies, groups |-> new.groups, lists |-> new.lists,
              providers |-> first.providers, ruleProviders |-> first.ruleProviders,
              rules |-> first.rules, dns |-> first.dns]
    /\ new.groups = [doc.groups EXCEPT ![at] = [doc.groups[at] EXCEPT ![field] = Node(doc, at, field)]]
    /\ new.lists = Over([l \in {Node(doc, at, field)} |-> Items(doc, doc.groups[at][field]) \o values], doc.lists)

\* What appending to a list changes: the list, and the group that had none.
LEMMA AppendedParts ==
    ASSUME NEW first, NEW doc, Between(first, doc), NEW name \in Names(doc.groups), NEW field \in Fields,
           NEW values, values # <<>>,
           NEW at, at = Position(doc.groups, name), NEW new, new = Appended(doc, name, field, values)
    PROVE  AppendStep(first, doc, name, at, field, values, new)
<1> DEFINE node == Node(doc, at, field)
<1> DEFINE groups == [doc.groups EXCEPT ![at] = [doc.groups[at] EXCEPT ![field] = node]]
<1> DEFINE lists == Over([l \in {node} |-> Items(doc, doc.groups[at][field]) \o values], doc.lists)
<1>1. at \in DOMAIN first.groups /\ first.groups[at].name = name /\ doc.groups[at].name = name
  <2>1. at \in DOMAIN doc.groups /\ doc.groups[at].name = name
    BY PositionIn
  <2>2. at \in DOMAIN first.groups
    BY <2>1 DEF Between
  <2>3. doc.groups[at] = [name |-> first.groups[at].name, proxies |-> doc.groups[at].proxies, use |-> doc.groups[at].use]
    BY <2>2 DEF Between
  <2>4. doc.groups[at].name = first.groups[at].name
    BY <2>3
  <2>5. QED
    BY <2>1, <2>2, <2>4
<1>2. new = [doc EXCEPT !.groups[at][field] = node, !.lists = lists]
  BY <1>1 DEF Appended, Own, Node
<1>3. doc = [proxies |-> first.proxies, groups |-> doc.groups, lists |-> doc.lists,
             providers |-> first.providers, ruleProviders |-> first.ruleProviders,
             rules |-> first.rules, dns |-> first.dns]
  BY DEF Between
<1> HIDE DEF node, lists
<1> DEFINE mid == [doc EXCEPT !.groups = groups]
<1>4. new = [mid EXCEPT !.lists = lists]
  BY <1>2, Zenon
<1> HIDE DEF groups
<1>5. mid =
        [proxies |-> first.proxies, groups |-> groups, lists |-> doc.lists,
         providers |-> first.providers, ruleProviders |-> first.ruleProviders,
         rules |-> first.rules, dns |-> first.dns]
  BY <1>3
<1> HIDE DEF mid
<1>6. new = [proxies |-> first.proxies, groups |-> groups, lists |-> lists,
             providers |-> first.providers, ruleProviders |-> first.ruleProviders,
             rules |-> first.rules, dns |-> first.dns]
  BY <1>4, <1>5
<1>7. new.groups = groups /\ new.lists = lists
  BY <1>6
<1>8. new = [proxies |-> first.proxies, groups |-> new.groups, lists |-> new.lists,
             providers |-> first.providers, ruleProviders |-> first.ruleProviders,
             rules |-> first.rules, dns |-> first.dns]
  BY <1>6, <1>7
<1>9. QED
  BY <1>1, <1>7, <1>8 DEF node, lists, groups, AppendStep

\* It stays one of these documents.
LEMMA AppendedBetween ==
    ASSUME NEW first, NEW doc, Between(first, doc), NEW name \in Names(doc.groups), NEW field \in Fields, NEW values
    PROVE  Between(first, Appended(doc, name, field, values))
<1>1. CASE values = <<>>
  BY <1>1 DEF Appended
<1>2. CASE values # <<>>
  <2>1. PICK at, new : at = Position(doc.groups, name) /\ new = Appended(doc, name, field, values)
    OBVIOUS
  <2>2. AppendStep(first, doc, name, at, field, values, new)
    BY <1>2, <2>1, AppendedParts
  <2> DEFINE node == Node(doc, at, field)
  <2>3. /\ at \in DOMAIN first.groups /\ first.groups[at].name = name
        /\ new = [proxies |-> first.proxies, groups |-> new.groups, lists |-> new.lists,
                  providers |-> first.providers, ruleProviders |-> first.ruleProviders,
                  rules |-> first.rules, dns |-> first.dns]
        /\ new.groups = [doc.groups EXCEPT ![at] = [doc.groups[at] EXCEPT ![field] = node]]
    BY <2>2 DEF AppendStep
  <2>4. node \in {first.groups[at][field], Own(first.groups[at].name, field)}
    <3>1. doc.groups[at][field] \in {first.groups[at][field], Own(first.groups[at].name, field)}
      BY <2>3 DEF Between
    <3>2. doc.groups[at].name = first.groups[at].name
      BY <2>2 DEF AppendStep
    <3>3. QED
      BY <3>1, <3>2 DEF Node
  <2> HIDE DEF node
  <2>5. DOMAIN new.groups = DOMAIN first.groups
    BY <2>3 DEF Between
  <2>6. ASSUME NEW i \in DOMAIN first.groups
        PROVE  /\ new.groups[i] = [name |-> first.groups[i].name, proxies |-> new.groups[i].proxies, use |-> new.groups[i].use]
               /\ \A f \in Fields : new.groups[i][f] \in {first.groups[i][f], Own(first.groups[i].name, f)}
    <3>1. doc.groups[i] = [name |-> first.groups[i].name, proxies |-> doc.groups[i].proxies, use |-> doc.groups[i].use]
      BY DEF Between
    <3>2. \A f \in Fields : doc.groups[i][f] \in {first.groups[i][f], Own(first.groups[i].name, f)}
      BY DEF Between
    <3>3. CASE i # at
      <4>1. new.groups[i] = doc.groups[i]
        BY <2>3, <3>3 DEF Between
      <4>2. QED
        BY <3>1, <3>2, <4>1
    <3>4. CASE i = at
      <4>1. new.groups[i] = [doc.groups[i] EXCEPT ![field] = node]
        BY <2>3, <3>4 DEF Between
      <4>2. CASE field = "proxies"
        <5>1. new.groups[i] = [name |-> first.groups[i].name, proxies |-> node, use |-> doc.groups[i].use]
          BY <3>1, <4>1, <4>2
        <5>2. QED
          BY <5>1, <3>2, <2>4, <3>4, <4>2 DEF Fields
      <4>3. CASE field = "use"
        <5>1. new.groups[i] = [name |-> first.groups[i].name, proxies |-> doc.groups[i].proxies, use |-> node]
          BY <3>1, <4>1, <4>3
        <5>2. QED
          BY <5>1, <3>2, <2>4, <3>4, <4>3 DEF Fields
      <4>4. QED
        BY <4>2, <4>3 DEF Fields
    <3>5. QED
      BY <3>3, <3>4
  <2>7. Between(first, new)
    BY <2>3, <2>5, <2>6, Zenon DEF Between
  <2>8. QED
    BY <2>1, <2>7
<1>3. QED
  BY <1>1, <1>2

-----------------------------------------------------------------------------
(* Entries and groups of an overlay.                                      *)

Grown(entries, add, replace, new) ==
    /\ \A i \in DOMAIN entries :
        /\ i \in DOMAIN new /\ new[i].name = entries[i].name
        /\ entries[i].name \notin Names(replace) => new[i] = entries[i]
        /\ entries[i].name \in Names(replace) => \E j \in DOMAIN replace : new[i] = replace[j]
    /\ \A i \in DOMAIN new \ DOMAIN entries : i - Len(entries) \in DOMAIN add /\ new[i] = add[i - Len(entries)]
    /\ Names(new) = Names(entries) \cup Names(add)

\* Replacing and adding: every entry keeps its place and name, additions come last.
LEMMA NamedParts ==
    ASSUME NEW S, NEW T, NEW entries \in Seq(S), NEW add \in Seq(T), NEW replace \in Seq(T),
           NEW new, new = NamedApplied(entries, add, replace)
    PROVE  new \in Seq(S \cup T) /\ Grown(entries, add, replace, new)
<1>1. PICK replaced : replaced = Replaced(entries, replace)
  OBVIOUS
<1>2. replaced \in Seq(S \cup T) /\ Len(replaced) = Len(entries) /\ DOMAIN replaced = DOMAIN entries
  <2>1. replaced \in Seq(S \cup T)
    BY <1>1, ReplacedType
  <2>2. DOMAIN replaced = DOMAIN entries
    BY <1>1, ReplacedNames
  <2>3. Len(replaced) = Len(entries)
    BY <2>1, <2>2
  <2>4. QED
    BY <2>1, <2>2, <2>3
<1>3. \A i \in DOMAIN entries :
        /\ replaced[i].name = entries[i].name
        /\ entries[i].name \notin Names(replace) => replaced[i] = entries[i]
        /\ entries[i].name \in Names(replace) => \E j \in DOMAIN replace : replaced[i] = replace[j]
  BY <1>1, ReplacedNames
<1>4. new = replaced \o add
  BY <1>1 DEF NamedApplied
<1>5. new \in Seq((S \cup T) \cup T)
  BY <1>2, <1>4, Joined
<1>6. (S \cup T) \cup T = S \cup T
  OBVIOUS
<1>7. /\ \A i \in DOMAIN replaced : i \in DOMAIN new /\ new[i] = replaced[i]
      /\ \A i \in DOMAIN new \ DOMAIN replaced : i - Len(replaced) \in DOMAIN add /\ new[i] = add[i - Len(replaced)]
  BY <1>2, <1>4, Joined
<1>8. Names(new) = Names(replaced) \cup Names(add)
  BY <1>2, <1>4, JoinedNames
<1>9. Names(replaced) = Names(entries)
  BY <1>2, <1>3 DEF Names
<1>10. QED
  BY <1>2, <1>3, <1>5, <1>6, <1>7, <1>8, <1>9 DEF Grown

\* Names stay distinct when the new ones are.
LEMMA NamedDistinct ==
    ASSUME NEW S, NEW T, NEW entries \in Seq(S), NEW add \in Seq(T), NEW replace \in Seq(T),
           Distinct(entries), Distinct(add), Names(entries) \cap Names(add) = {},
           NEW new, new = NamedApplied(entries, add, replace)
    PROVE  Distinct(new)
<1>1. new \in Seq(S \cup T) /\ Grown(entries, add, replace, new)
  BY NamedParts
<1>2. /\ new \in Seq(S \cup T)
      /\ \A i \in DOMAIN entries : i \in DOMAIN new /\ new[i].name = entries[i].name
      /\ \A i \in DOMAIN new \ DOMAIN entries : i - Len(entries) \in DOMAIN add /\ new[i] = add[i - Len(entries)]
  BY <1>1 DEF Grown
<1>3. ASSUME NEW i \in DOMAIN new, NEW j \in DOMAIN new, new[i].name = new[j].name PROVE i = j
  <2>1. CASE i \in DOMAIN entries /\ j \in DOMAIN entries
    BY <1>2, <1>3, <2>1 DEF Distinct
  <2>2. CASE i \notin DOMAIN entries /\ j \notin DOMAIN entries
    <3>1. i - Len(entries) = j - Len(entries)
      BY <1>2, <1>3, <2>2 DEF Distinct
    <3>2. i \in Int /\ j \in Int /\ Len(entries) \in Int
      BY <1>2
    <3>3. QED
      BY <3>1, <3>2
  <2>3. ASSUME NEW k \in DOMAIN new, NEW l \in DOMAIN new, k \in DOMAIN entries, l \notin DOMAIN entries,
               new[k].name = new[l].name
        PROVE  FALSE
    <3>1. new[k].name \in Names(entries)
      BY <1>2, <2>3 DEF Names
    <3>2. new[l].name \in Names(add)
      BY <1>2, <2>3 DEF Names
    <3>3. QED
      BY <2>3, <3>1, <3>2
  <2>4. QED
    BY <1>3, <2>1, <2>2, <2>3
<1>4. QED
  BY <1>3 DEF Distinct

\* A part of what is distinct is.
LEMMA DistinctParts ==
    ASSUME NEW S, NEW T, NEW s \in Seq(S), NEW t \in Seq(T), Distinct(s \o t)
    PROVE  Distinct(s) /\ Distinct(t)
<1>1. Distinct(s)
  BY Joined, SMTT(60) DEF Distinct
<1>2. ASSUME NEW i \in DOMAIN t, NEW j \in DOMAIN t, t[i].name = t[j].name PROVE i = j
  <2>1. /\ Len(s) + i \in DOMAIN (s \o t) /\ (s \o t)[Len(s) + i] = t[i]
        /\ Len(s) + j \in DOMAIN (s \o t) /\ (s \o t)[Len(s) + j] = t[j]
    BY Joined
  <2>2. Len(s) + i = Len(s) + j
    BY <1>2, <2>1, Zenon DEF Distinct
  <2>3. QED
    BY <2>2
<1>3. QED
  BY <1>1, <1>2 DEF Distinct

Composable(raw, o) == IsDocument(raw) /\ IsOverlayDocument(o) /\ o.enabled /\ Compatible(raw, o)

\* The groups of the overlay.
LEMMA OwnGroupsParts ==
    ASSUME NEW T, NEW groups \in Seq(T), NEW own, own = OwnGroups(groups)
    PROVE  /\ own \in Seq(ToSet(own)) /\ DOMAIN own = DOMAIN groups
           /\ \A i \in DOMAIN groups :
                /\ own[i] = [name |-> own[i].name, proxies |-> own[i].proxies, use |-> own[i].use]
                /\ own[i].name = groups[i].name
                /\ \A f \in Fields : own[i][f] \in {NoList, Own(own[i].name, f)}
           /\ Names(own) = Names(groups)
<1>1. DOMAIN own = DOMAIN groups /\ DOMAIN own = 1..Len(groups) /\ Len(groups) \in Nat
  BY DEF OwnGroups
<1>2. own = [i \in 1..Len(groups) |-> own[i]]
  BY <1>1 DEF OwnGroups
<1>3. \A i \in 1..Len(groups) : own[i] \in ToSet(own)
  BY <1>1 DEF ToSet
<1>4. own \in Seq(ToSet(own))
  BY <1>1, <1>2, <1>3
<1>5. ASSUME NEW i \in DOMAIN groups
      PROVE  /\ own[i] = [name |-> own[i].name, proxies |-> own[i].proxies, use |-> own[i].use]
             /\ own[i].name = groups[i].name
             /\ \A f \in Fields : own[i][f] \in {NoList, Own(own[i].name, f)}
  BY DEF OwnGroups, OwnGroup, ListOf, Own, Fields
<1>6. Names(own) = Names(groups)
  BY <1>1, <1>5 DEF Names
<1>7. QED
  BY <1>1, <1>4, <1>5, <1>6

-----------------------------------------------------------------------------
(* The document before its patches.                                       *)

\* A list of the overlay is named by three strings, one of the document by two.
LEMMA TwoIsNotThree == 1..2 # 1..3
<1>1. 3 \in 1..3 /\ 3 \notin 1..2
  OBVIOUS
<1>2. QED
  BY <1>1

\* So none is the other.
LEMMA OwnIsApart ==
    ASSUME NEW l \in STRING \X STRING, NEW name, NEW field
    PROVE  l # Own(name, field)
<1>1. PICK a, b : l = <<a, b>>
  OBVIOUS
<1>2. DOMAIN <<a, b>> = 1..2 /\ DOMAIN Own(name, field) = 1..3
  BY DEF Own
<1>3. QED
  BY <1>1, <1>2, TwoIsNotThree

\* Nor is it no list.
LEMMA OwnIsList ==
    ASSUME NEW name, NEW field
    PROVE  Own(name, field) # NoList
<1>1. DOMAIN NoList = 1..2 /\ DOMAIN Own(name, field) = 1..3
  BY DEF Own, NoList
<1>2. QED
  BY <1>1, TwoIsNotThree

\* An element of a sequence.
LEMMA ElementIn ==
    ASSUME NEW S, NEW s \in Seq(S), NEW i \in DOMAIN s
    PROVE  s[i] \in S
OBVIOUS

Old(raw, o) == {i \in DOMAIN raw.groups : raw.groups[i].name \notin Names(o.groupReplace)}

First(raw, o, first) ==
    /\ \A i \in DOMAIN raw.groups : i \in DOMAIN first.groups /\ first.groups[i].name = raw.groups[i].name
    /\ \A i \in Old(raw, o) : first.groups[i] = raw.groups[i]
    /\ \A i \in DOMAIN first.groups \ Old(raw, o), f \in Fields :
          first.groups[i][f] \in {NoList, Own(first.groups[i].name, f)}
    /\ \A i \in DOMAIN first.groups :
          first.groups[i] = [name |-> first.groups[i].name, proxies |-> first.groups[i].proxies, use |-> first.groups[i].use]
    /\ Distinct(first.groups)
    /\ Names(first.groups) = Names(raw.groups) \cup Names(o.groupAdd)
    /\ \A i \in DOMAIN first.groups \ DOMAIN raw.groups : first.groups[i].name \in Names(o.groupAdd)
    /\ \A l \in DOMAIN raw.lists \cap (STRING \X STRING) : l \in DOMAIN first.lists /\ first.lists[l] = raw.lists[l]

\* So it is before the first patch.
LEMMA FirstHolds ==
    ASSUME NEW raw, NEW o, Composable(raw, o), NEW first, first = Unpatched(raw, o)
    PROVE  First(raw, o, first)
<1> DEFINE G == [name : STRING, proxies : STRING \X STRING, use : STRING \X STRING]
<1> DEFINE H == [name : STRING, proxies : Seq(STRING), use : Seq(STRING)]
<1>1. raw.groups \in Seq(G) /\ o.groupAdd \in Seq(H) /\ o.groupReplace \in Seq(H)
  BY DEF Composable, IsDocument, IsOverlayDocument
<1>2. /\ first.groups = NamedApplied(raw.groups, OwnGroups(o.groupAdd), OwnGroups(o.groupReplace))
      /\ first.lists = Over(OwnLists(o.groupAdd \o o.groupReplace), raw.lists)
  <2>1. IsDocument(raw)
    BY DEF Composable
  <2>2. QED
    BY <2>1, UnpatchedParts
<1>3. PICK add, replace : add = OwnGroups(o.groupAdd) /\ replace = OwnGroups(o.groupReplace)
  OBVIOUS
<1>4. /\ add \in Seq(ToSet(add)) /\ DOMAIN add = DOMAIN o.groupAdd
      /\ \A i \in DOMAIN add :
           /\ add[i] = [name |-> add[i].name, proxies |-> add[i].proxies, use |-> add[i].use]
           /\ add[i].name = o.groupAdd[i].name
           /\ \A f \in Fields : add[i][f] \in {NoList, Own(add[i].name, f)}
      /\ Names(add) = Names(o.groupAdd)
  BY <1>1, <1>3, OwnGroupsParts
<1>5. /\ replace \in Seq(ToSet(replace))
      /\ \A i \in DOMAIN replace :
           /\ replace[i] = [name |-> replace[i].name, proxies |-> replace[i].proxies, use |-> replace[i].use]
           /\ \A f \in Fields : replace[i][f] \in {NoList, Own(replace[i].name, f)}
      /\ Names(replace) = Names(o.groupReplace)
  BY <1>1, <1>3, OwnGroupsParts
<1>6. Grown(raw.groups, add, replace, first.groups)
  <2> DEFINE T == ToSet(add) \cup ToSet(replace)
  <2>1. add \in Seq(T) /\ replace \in Seq(T)
    BY <1>4, <1>5
  <2> HIDE DEF T, G
  <2>2. QED
    BY <1>1, <1>2, <1>3, <2>1, NamedParts
<1>7. Distinct(first.groups)
  <2>1. Distinct(raw.groups)
    <3>1. raw.proxies \in Seq(Entry) /\ Distinct(raw.proxies \o raw.groups)
      BY DEF Composable, Compatible, Valid, NamesValid, IsDocument
    <3>2. QED
      BY <1>1, <3>1, DistinctParts
  <2>2. Distinct(o.groupAdd)
    <3>1. Distinct(o.groupAdd \o o.groupReplace)
      BY DEF Composable, Compatible, ValidateProfileOverlay, OperationsValid
    <3>2. QED
      BY <1>1, <3>1, DistinctParts
  <2>3. Distinct(add)
    BY <1>4, <2>2 DEF Distinct
  <2>4. Names(raw.groups) \cap Names(add) = {}
    BY <1>4 DEF Composable, Compatible, NamedFit, Targets
  <2> DEFINE T == ToSet(add) \cup ToSet(replace)
  <2>5. add \in Seq(T) /\ replace \in Seq(T)
    BY <1>4, <1>5
  <2> HIDE DEF T, G
  <2>6. QED
    BY <1>1, <1>2, <1>3, <2>1, <2>3, <2>4, <2>5, NamedDistinct
<1>8. ASSUME NEW i \in Old(raw, o) PROVE first.groups[i] = raw.groups[i]
  BY <1>5, <1>6 DEF Old, Grown
<1>9. ASSUME NEW i \in DOMAIN first.groups, i \notin Old(raw, o)
      PROVE  \/ \E j \in DOMAIN add : first.groups[i] = add[j]
             \/ \E j \in DOMAIN replace : first.groups[i] = replace[j]
  <2>1. CASE i \in DOMAIN raw.groups
    <3>1. raw.groups[i].name \in Names(replace)
      BY <1>5, <1>9, <2>1 DEF Old
    <3>2. QED
      BY <1>6, <2>1, <3>1 DEF Grown
  <2>2. CASE i \notin DOMAIN raw.groups
    BY <1>6, <1>9, <2>2 DEF Grown
  <2>3. QED
    BY <2>1, <2>2
<1>10. ASSUME NEW i \in DOMAIN first.groups, i \notin Old(raw, o)
       PROVE  /\ first.groups[i] =
                   [name |-> first.groups[i].name, proxies |-> first.groups[i].proxies, use |-> first.groups[i].use]
              /\ \A f \in Fields : first.groups[i][f] \in {NoList, Own(first.groups[i].name, f)}
  BY <1>4, <1>5, <1>9, <1>10
<1>11. ASSUME NEW i \in DOMAIN raw.groups
       PROVE raw.groups[i] = [name |-> raw.groups[i].name, proxies |-> raw.groups[i].proxies, use |-> raw.groups[i].use]
  <2>1. ASSUME NEW g \in G PROVE g = [name |-> g.name, proxies |-> g.proxies, use |-> g.use]
    OBVIOUS
  <2> HIDE DEF G
  <2>2. raw.groups[i] \in G
    BY <1>1, ElementIn
  <2>3. QED
    BY <2>1, <2>2
<1>12. \A i \in DOMAIN first.groups :
          first.groups[i] = [name |-> first.groups[i].name, proxies |-> first.groups[i].proxies, use |-> first.groups[i].use]
  <2>1. Old(raw, o) \subseteq DOMAIN raw.groups
    BY DEF Old
  <2>2. QED
    BY <1>8, <1>10, <1>11, <2>1
<1>13. ASSUME NEW l \in DOMAIN raw.lists \cap (STRING \X STRING)
       PROVE  l \in DOMAIN first.lists /\ first.lists[l] = raw.lists[l]
  <2> DEFINE own == OwnLists(o.groupAdd \o o.groupReplace)
  <2>1. \A k \in DOMAIN own : \E name, f : k = Own(name, f)
    BY ZenonT(60) DEF OwnLists, Lists, OwnGroup, ListOf, Own
  <2>2. l \notin DOMAIN own
    BY <2>1, OwnIsApart
  <2> HIDE DEF own
  <2>3. QED
    BY <1>2, <2>2 DEF Over, own
<1>14. \A i \in DOMAIN first.groups \ DOMAIN raw.groups : first.groups[i].name \in Names(o.groupAdd)
  BY <1>4, <1>6, ZenonT(60) DEF Grown, Names
<1>15. QED
  BY <1>4, <1>6, <1>7, <1>8, <1>10, <1>12, <1>13, <1>14 DEF First, Grown

-----------------------------------------------------------------------------
(* Lists.                                                                 *)

ListsThere(raw, o, doc) ==
    \A i \in Old(raw, o), f \in Fields :
        doc.groups[i][f] = NoList
          \/ (doc.groups[i][f] \in DOMAIN doc.lists /\ doc.lists[doc.groups[i][f]] \in Seq(STRING))

Reached(raw, o, doc) == Between(Unpatched(raw, o), doc) /\ ListsThere(raw, o, doc)

\* What a document's own groups may have for a list.
LEMMA RawLists ==
    ASSUME NEW raw, NEW o, Composable(raw, o), NEW i \in DOMAIN raw.groups, NEW f \in Fields
    PROVE  /\ raw.groups[i][f] \in STRING \X STRING
           /\ raw.groups[i][f] = NoList
                \/ (raw.groups[i][f] \in DOMAIN raw.lists /\ raw.lists[raw.groups[i][f]] \in Seq(STRING))
<1> DEFINE G == [name : STRING, proxies : STRING \X STRING, use : STRING \X STRING]
<1>1. raw.groups \in Seq(G) /\ raw.lists \in [DOMAIN raw.lists -> Seq(STRING)] /\ Lists(raw.groups[i]) \subseteq DOMAIN raw.lists
  BY DEF Composable, IsDocument
<1>2. ASSUME NEW g \in G PROVE g.proxies \in STRING \X STRING /\ g.use \in STRING \X STRING
  OBVIOUS
<1> HIDE DEF G
<1>3. raw.groups[i] \in G
  BY <1>1, ElementIn
<1>4. raw.groups[i].proxies \in STRING \X STRING /\ raw.groups[i].use \in STRING \X STRING
  BY <1>2, <1>3
<1>5. QED
  BY <1>1, <1>4 DEF Lists, Fields

\* What a group's list may be, between two patches.
LEMMA ListIsOf ==
    ASSUME NEW raw, NEW o, Composable(raw, o), NEW first, first = Unpatched(raw, o),
           NEW doc, Between(first, doc), NEW i \in DOMAIN first.groups, NEW f \in Fields
    PROVE  /\ doc.groups[i].name = first.groups[i].name
           /\ \/ doc.groups[i][f] = NoList
              \/ doc.groups[i][f] = Own(first.groups[i].name, f)
              \/ i \in Old(raw, o) /\ doc.groups[i][f] = raw.groups[i][f]
<1>1. First(raw, o, first)
  BY FirstHolds
<1>2. doc.groups[i] = [name |-> first.groups[i].name, proxies |-> doc.groups[i].proxies, use |-> doc.groups[i].use]
  BY DEF Between
<1>3. doc.groups[i][f] \in {first.groups[i][f], Own(first.groups[i].name, f)}
  BY DEF Between
<1>4. CASE i \in Old(raw, o)
  BY <1>1, <1>2, <1>3, <1>4 DEF First
<1>5. CASE i \notin Old(raw, o)
  BY <1>1, <1>2, <1>3, <1>5 DEF First
<1>6. QED
  BY <1>4, <1>5

\* Nobody else has a list of this name.
LEMMA OwnIsMine ==
    ASSUME NEW raw, NEW o, Composable(raw, o), NEW first, first = Unpatched(raw, o),
           NEW doc, Between(first, doc), NEW i \in DOMAIN first.groups, NEW f \in Fields,
           NEW j \in DOMAIN first.groups, NEW g \in Fields, doc.groups[i][f] = Own(first.groups[j].name, g)
    PROVE  i = j /\ f = g
<1>1. doc.groups[i][f] # NoList
  BY OwnIsList
<1>2. i \in Old(raw, o) => doc.groups[i][f] # raw.groups[i][f]
  BY RawLists, OwnIsApart DEF Old
<1>3. Own(first.groups[i].name, f) = Own(first.groups[j].name, g)
  BY <1>1, <1>2, ListIsOf
<1>4. first.groups[i].name = first.groups[j].name /\ f = g
  BY <1>3 DEF Own
<1>5. Distinct(first.groups)
  BY FirstHolds DEF First
<1>6. QED
  BY <1>4, <1>5 DEF Distinct

After(doc, new, at, field, values, i, f) ==
    \/ /\ Items(new, new.groups[i][f]) = Items(doc, doc.groups[i][f])
       /\ values # <<>> => i # at \/ f # field
    \/ /\ values # <<>> /\ new.groups[i][f] = Node(doc, at, field) /\ Node(doc, at, field) # NoList
       /\ Items(new, new.groups[i][f]) = Items(doc, doc.groups[i][f]) \o values

\* What becomes of a list of the document's own when a patch appends to some list.
LEMMA ItemsAfter ==
    ASSUME NEW raw, NEW o, Composable(raw, o), NEW doc, Reached(raw, o, doc),
           NEW name \in Names(doc.groups), NEW field \in Fields, NEW values \in Seq(STRING),
           NEW at, at = Position(doc.groups, name), NEW new, new = Appended(doc, name, field, values),
           NEW i \in Old(raw, o), NEW f \in Fields
    PROVE  /\ After(doc, new, at, field, values, i, f)
           /\ i # at => new.groups[i] = doc.groups[i]
           /\ new.groups[i][f] = NoList
                \/ (new.groups[i][f] \in DOMAIN new.lists /\ new.lists[new.groups[i][f]] \in Seq(STRING))
<1>1. PICK first : first = Unpatched(raw, o)
  OBVIOUS
<1>2. Between(first, doc) /\ ListsThere(raw, o, doc)
  BY <1>1 DEF Reached
<1>3. First(raw, o, first)
  BY <1>1, FirstHolds
<1>4. i \in DOMAIN first.groups
  BY <1>3 DEF First, Old
<1>5. CASE values = <<>>
  <2>1. new = doc
    BY <1>5 DEF Appended
  <2>2. QED
    BY <1>2, <1>5, <2>1 DEF After, ListsThere
<1>6. CASE values # <<>>
  <2> DEFINE node == Node(doc, at, field)
  <2> DEFINE old == doc.groups[at][field]
  <2> DEFINE l == doc.groups[i][f]
  <2>1. AppendStep(first, doc, name, at, field, values, new)
    BY <1>2, <1>6, AppendedParts
  <2>2. /\ at \in DOMAIN first.groups /\ first.groups[at].name = name /\ doc.groups[at].name = name
        /\ new.groups = [doc.groups EXCEPT ![at] = [doc.groups[at] EXCEPT ![field] = node]]
        /\ new.lists = Over([k \in {node} |-> Items(doc, old) \o values], doc.lists)
    BY <2>1 DEF AppendStep
  <2>3. node # NoList
    BY OwnIsList DEF Node
  <2>4. \A k \in DOMAIN doc.lists \cup {node} :
           k \in DOMAIN new.lists /\ new.lists[k] = IF k = node THEN Items(doc, old) \o values ELSE doc.lists[k]
    BY <2>2 DEF Over
  <2>5. l = NoList \/ (l \in DOMAIN doc.lists /\ doc.lists[l] \in Seq(STRING))
    BY <1>2 DEF ListsThere
  <2>6. Items(doc, l) \in Seq(STRING)
    <3>1. CASE l = NoList
      <4>1. Items(doc, l) = <<>>
        BY <3>1 DEF Items
      <4>2. QED
        BY <4>1
    <3>2. CASE l # NoList
      BY <2>5, <3>2 DEF Items
    <3>3. QED
      BY <3>1, <3>2
  <2>7. doc.groups[i] = [name |-> first.groups[i].name, proxies |-> doc.groups[i].proxies, use |-> doc.groups[i].use]
    BY <1>2, <1>4 DEF Between
  <2>8. DOMAIN doc.groups = DOMAIN first.groups
    BY <1>2 DEF Between
  <2>9. i # at => new.groups[i] = doc.groups[i]
    BY <1>4, <2>2, <2>8
  <2>10. CASE i = at /\ f = field
    <3>1. new.groups[i] = [doc.groups[i] EXCEPT ![f] = node]
      BY <1>4, <2>2, <2>8, <2>10
    <3>2. new.groups[i][f] = node
      BY <2>7, <3>1 DEF Fields
    <3>3. Items(new, node) = Items(doc, l) \o values /\ new.lists[node] = Items(doc, l) \o values
      BY <2>3, <2>4, <2>10 DEF Items
    <3>4. Items(doc, l) \o values \in Seq(STRING)
      BY <2>6
    <3>5. QED
      BY <1>6, <2>3, <2>4, <2>9, <3>2, <3>3, <3>4 DEF After
  <2>11. CASE ~(i = at /\ f = field)
    <3>1. new.groups[i][f] = l
      <4>1. CASE i # at
        BY <2>9, <4>1
      <4>2. CASE i = at
        <5>1. new.groups[i] = [doc.groups[i] EXCEPT ![field] = node]
          BY <1>4, <2>2, <2>8, <4>2
        <5>2. QED
          BY <2>7, <2>11, <4>2, <5>1 DEF Fields
      <4>3. QED
        BY <4>1, <4>2
    <3>2. CASE l = node
      <4>1. old # NoList
        <5>1. ASSUME old = NoList PROVE FALSE
          <6>1. l = Own(first.groups[at].name, field)
            BY <2>2, <3>2, <5>1 DEF Node
          <6>2. i = at /\ f = field
            BY <1>1, <1>2, <1>4, <2>2, <6>1, OwnIsMine
          <6>3. QED
            BY <2>11, <6>2
        <5>2. QED
          BY <5>1
      <4>2. old = l
        BY <3>2, <4>1 DEF Node
      <4>3. Items(new, l) = Items(doc, l) \o values /\ new.lists[l] = Items(doc, l) \o values
        BY <2>3, <2>4, <3>2, <4>2 DEF Items
      <4>4. Items(doc, l) \o values \in Seq(STRING)
        BY <2>6
      <4>5. QED
        BY <1>6, <2>3, <2>4, <2>9, <3>1, <3>2, <4>3, <4>4 DEF After
    <3>3. CASE l # node
      <4>1. Items(new, l) = Items(doc, l)
        BY <2>4, <2>5, <3>3 DEF Items
      <4>2. l = NoList \/ (l \in DOMAIN new.lists /\ new.lists[l] \in Seq(STRING))
        BY <2>4, <2>5, <3>3
      <4>3. QED
        BY <2>9, <2>11, <3>1, <4>1, <4>2 DEF After
    <3>4. QED
      BY <3>2, <3>3
  <2>12. QED
    BY <2>10, <2>11
<1>7. QED
  BY <1>5, <1>6

-----------------------------------------------------------------------------
(* References.                                                            *)

\* It stays a document between two patches.
LEMMA AppendReaches ==
    ASSUME NEW raw, NEW o, Composable(raw, o), NEW doc, Reached(raw, o, doc),
           NEW name \in Names(doc.groups), NEW field \in Fields, NEW values \in Seq(STRING),
           NEW new, new = Appended(doc, name, field, values)
    PROVE  Reached(raw, o, new)
<1>1. Between(Unpatched(raw, o), new)
  BY AppendedBetween DEF Reached
<1>2. PICK at : at = Position(doc.groups, name)
  OBVIOUS
<1>3. ASSUME NEW i \in Old(raw, o), NEW f \in Fields
      PROVE  new.groups[i][f] = NoList
               \/ (new.groups[i][f] \in DOMAIN new.lists /\ new.lists[new.groups[i][f]] \in Seq(STRING))
  BY <1>2, ItemsAfter
<1>4. ListsThere(raw, o, new)
  BY <1>3 DEF ListsThere
<1>5. QED
  BY <1>1, <1>4 DEF Reached

\* Candidates and providers are in lists of their own, if they were in the document.
LEMMA StayApart ==
    ASSUME NEW raw, NEW o, Composable(raw, o), FieldsApart(raw), NEW first, first = Unpatched(raw, o),
           NEW doc, Between(first, doc), NEW i \in DOMAIN first.groups, NEW j \in DOMAIN first.groups,
           doc.groups[i].proxies = doc.groups[j].use
    PROVE  doc.groups[j].use = NoList
<1>1. "proxies" \in Fields /\ "use" \in Fields
  BY DEF Fields
<1>2. CASE doc.groups[i].proxies = Own(first.groups[i].name, "proxies")
  <2>1. doc.groups[j]["use"] = Own(first.groups[i].name, "proxies")
    BY <1>2
  <2>2. "use" = "proxies"
    BY <1>1, <2>1, OwnIsMine
  <2>3. QED
    BY <2>2
<1>3. CASE doc.groups[j].use = Own(first.groups[j].name, "use")
  <2>1. doc.groups[i]["proxies"] = Own(first.groups[j].name, "use")
    BY <1>3
  <2>2. "use" = "proxies"
    BY <1>1, <2>1, OwnIsMine
  <2>3. QED
    BY <2>2
<1>4. \/ doc.groups[i].proxies = NoList
      \/ doc.groups[i].proxies = Own(first.groups[i].name, "proxies")
      \/ i \in Old(raw, o) /\ doc.groups[i].proxies = raw.groups[i].proxies
  BY <1>1, ListIsOf
<1>5. \/ doc.groups[j].use = NoList
      \/ doc.groups[j].use = Own(first.groups[j].name, "use")
      \/ j \in Old(raw, o) /\ doc.groups[j].use = raw.groups[j].use
  BY <1>1, ListIsOf
<1>6. QED
  BY <1>2, <1>3, <1>4, <1>5 DEF FieldsApart, Old

\* The document's own groups refer to what is there.
OldResolve(raw, o, doc) ==
    \A i \in Old(raw, o) :
        /\ ToSet(Items(doc, doc.groups[i].proxies)) \subseteq Builtin \cup Targets(Unpatched(raw, o))
        /\ ToSet(Items(doc, doc.groups[i].use)) \subseteq Names(Unpatched(raw, o).providers)

There(raw, o, field) ==
    IF field = "proxies" THEN Builtin \cup Targets(Unpatched(raw, o)) ELSE Names(Unpatched(raw, o).providers)

\* What a patch appends is there.
LEMMA AppendResolves ==
    ASSUME NEW raw, NEW o, Composable(raw, o), FieldsApart(raw), NEW doc, Reached(raw, o, doc),
           OldResolve(raw, o, doc), NEW name \in Names(doc.groups), NEW field \in Fields, NEW values \in Seq(STRING),
           ToSet(values) \subseteq There(raw, o, field), NEW new, new = Appended(doc, name, field, values)
    PROVE  OldResolve(raw, o, new)
<1>1. PICK at, first : at = Position(doc.groups, name) /\ first = Unpatched(raw, o)
  OBVIOUS
<1>2. Between(first, doc) /\ Between(first, new) /\ ListsThere(raw, o, doc)
  BY <1>1, AppendedBetween DEF Reached
<1>3. Old(raw, o) \subseteq DOMAIN first.groups
  BY <1>1, FirstHolds DEF First, Old
<1>4. ASSUME NEW i \in Old(raw, o), NEW f \in Fields
      PROVE  ToSet(Items(new, new.groups[i][f])) \subseteq There(raw, o, f)
  <2>1. ToSet(Items(doc, doc.groups[i][f])) \subseteq There(raw, o, f)
    BY DEF OldResolve, There, Fields
  <2>2. After(doc, new, at, field, values, i, f)
    BY <1>1, ItemsAfter
  <2>3. CASE Items(new, new.groups[i][f]) = Items(doc, doc.groups[i][f])
    BY <2>1, <2>3
  <2>4. CASE /\ values # <<>> /\ new.groups[i][f] = Node(doc, at, field) /\ Node(doc, at, field) # NoList
             /\ Items(new, new.groups[i][f]) = Items(doc, doc.groups[i][f]) \o values
    <3>1. f = field
      <4>1. AppendStep(first, doc, name, at, field, values, new)
        BY <1>1, <1>2, <2>4, AppendedParts
      <4>2. at \in DOMAIN first.groups /\ DOMAIN doc.groups = DOMAIN first.groups
        BY <1>2, <4>1 DEF AppendStep, Between
      <4>3. new.groups[at] = [doc.groups[at] EXCEPT ![field] = Node(doc, at, field)]
        BY <4>1, <4>2 DEF AppendStep
      <4>4. doc.groups[at] =
              [name |-> first.groups[at].name, proxies |-> doc.groups[at].proxies, use |-> doc.groups[at].use]
        BY <1>2, <4>2 DEF Between
      <4>5. new.groups[at][field] = Node(doc, at, field)
        BY <4>3, <4>4 DEF Fields
      <4>6. CASE f = "use" /\ field = "proxies"
        <5>1. new.groups[at].proxies = new.groups[i].use
          BY <2>4, <4>5, <4>6
        <5>2. new.groups[i].use = NoList
          BY <1>1, <1>2, <1>3, <4>2, <5>1, StayApart
        <5>3. QED
          BY <2>4, <4>6, <5>2
      <4>7. CASE f = "proxies" /\ field = "use"
        <5>1. new.groups[i].proxies = new.groups[at].use
          BY <2>4, <4>5, <4>7
        <5>2. new.groups[at].use = NoList
          BY <1>1, <1>2, <1>3, <4>2, <5>1, StayApart
        <5>3. QED
          BY <2>4, <4>5, <4>7, <5>2
      <4>8. QED
        BY <4>6, <4>7 DEF Fields
    <3>2. Items(doc, doc.groups[i][f]) \in Seq(STRING)
      <4>1. CASE doc.groups[i][f] = NoList
        <5>1. Items(doc, doc.groups[i][f]) = <<>>
          BY <4>1 DEF Items
        <5>2. QED
          BY <5>1
      <4>2. CASE doc.groups[i][f] # NoList
        BY <1>2, <4>2 DEF Items, ListsThere
      <4>3. QED
        BY <4>1, <4>2
    <3>3. ToSet(Items(new, new.groups[i][f])) = ToSet(Items(doc, doc.groups[i][f])) \cup ToSet(values)
      BY <2>4, <3>2, JoinedSet
    <3>4. QED
      BY <2>1, <3>1, <3>3
  <2>5. QED
    BY <2>2, <2>3, <2>4 DEF After
<1>5. QED
  BY <1>4 DEF OldResolve, There, Fields

-----------------------------------------------------------------------------
(* What a patch does not touch.                                           *)

Untouched(raw, o) == {i \in DOMAIN raw.groups : raw.groups[i].name \notin Touched(raw, o)}

\* What no patch touches is as it was.
OldKept(raw, o, doc) ==
    \A i \in Untouched(raw, o) :
        /\ doc.groups[i] = raw.groups[i]
        /\ \A f \in Fields : Items(doc, raw.groups[i][f]) = Items(raw, raw.groups[i][f])

\* What is not touched is not replaced.
LEMMA UntouchedIsOld ==
    ASSUME NEW raw, NEW o
    PROVE  Untouched(raw, o) \subseteq Old(raw, o)
BY DEF Untouched, Old, Touched

\* The groups of a document that is composed have distinct names.
LEMMA RawDistinct ==
    ASSUME NEW raw, NEW o, Composable(raw, o)
    PROVE  Distinct(raw.groups)
<1> DEFINE G == [name : STRING, proxies : STRING \X STRING, use : STRING \X STRING]
<1>1. raw.groups \in Seq(G) /\ raw.proxies \in Seq(Entry) /\ Distinct(raw.proxies \o raw.groups)
  BY DEF Composable, Compatible, Valid, NamesValid, IsDocument
<1> HIDE DEF G
<1>2. QED
  BY <1>1, DistinctParts

\* Who shares a list with a patched group is touched.
LEMMA SharesIsTouched ==
    ASSUME NEW raw, NEW o, Composable(raw, o), NEW i \in DOMAIN raw.groups, NEW j \in DOMAIN raw.groups,
           raw.groups[j].name \in Names(o.patch),
           i = j \/ Lists(raw.groups[i]) \cap Lists(raw.groups[j]) # {}
    PROVE  i \notin Untouched(raw, o)
<1>1. Position(raw.groups, raw.groups[i].name) = i /\ Position(raw.groups, raw.groups[j].name) = j
  BY RawDistinct, PositionOf
<1>2. raw.groups[i].name \in Names(raw.groups) /\ raw.groups[j].name \in Names(raw.groups)
  BY DEF Names
<1>3. QED
  BY <1>1, <1>2 DEF Untouched, Touched

\* A patch leaves what it does not touch.
LEMMA AppendKeeps ==
    ASSUME NEW raw, NEW o, Composable(raw, o), NEW doc, Reached(raw, o, doc), OldKept(raw, o, doc),
           NEW name \in Names(doc.groups), name \in Names(o.patch), NEW field \in Fields, NEW values \in Seq(STRING),
           NEW new, new = Appended(doc, name, field, values)
    PROVE  OldKept(raw, o, new)
<1>1. PICK at, first : at = Position(doc.groups, name) /\ first = Unpatched(raw, o)
  OBVIOUS
<1>2. Between(first, doc) /\ First(raw, o, first)
  BY <1>1, FirstHolds DEF Reached
<1>3. CASE values = <<>>
  BY <1>3 DEF Appended
<1>4. CASE values # <<>>
  <2>1. AppendStep(first, doc, name, at, field, values, new)
    BY <1>1, <1>2, <1>4, AppendedParts
  <2>2. at \in DOMAIN first.groups /\ first.groups[at].name = name /\ doc.groups[at].name = name
    BY <2>1 DEF AppendStep
  <2>3. ASSUME NEW i \in Untouched(raw, o), NEW f \in Fields
        PROVE  new.groups[i] = raw.groups[i] /\ Items(new, raw.groups[i][f]) = Items(raw, raw.groups[i][f])
    <3>1. i \in Old(raw, o) /\ i \in DOMAIN raw.groups
      BY UntouchedIsOld DEF Untouched
    <3>2. i # at
      <4>1. ASSUME i = at PROVE FALSE
        <5>1. raw.groups[i].name \in Names(o.patch)
          BY <1>2, <2>2, <3>1, <4>1 DEF First
        <5>2. QED
          BY <3>1, <5>1, SharesIsTouched
      <4>2. QED
        BY <4>1
    <3>3. After(doc, new, at, field, values, i, f)
      BY <1>1, <3>1, ItemsAfter
    <3>4. i # at => new.groups[i] = doc.groups[i]
      <4>1. new.groups = [doc.groups EXCEPT ![at] = [doc.groups[at] EXCEPT ![field] = Node(doc, at, field)]]
        BY <2>1 DEF AppendStep
      <4>2. i \in DOMAIN doc.groups
        BY <1>2, <3>1 DEF Between, First
      <4>3. QED
        BY <4>1, <4>2
    <3>5. After(doc, new, at, field, values, i, f) /\ new.groups[i] = doc.groups[i]
      BY <3>2, <3>3, <3>4
    <3>6. doc.groups[i] = raw.groups[i] /\ Items(doc, raw.groups[i][f]) = Items(raw, raw.groups[i][f])
      BY DEF OldKept
    <3>7. CASE Items(new, new.groups[i][f]) = Items(doc, doc.groups[i][f])
      BY <3>5, <3>6, <3>7
    <3>8. CASE new.groups[i][f] = Node(doc, at, field) /\ Node(doc, at, field) # NoList
      <4>1. raw.groups[i][f] = Node(doc, at, field) /\ raw.groups[i][f] \in STRING \X STRING /\ raw.groups[i][f] # NoList
        BY <3>1, <3>5, <3>6, <3>8, RawLists
      <4>2. doc.groups[at][field] = raw.groups[i][f]
        BY <4>1, OwnIsApart DEF Node
      <4>3. at \in Old(raw, o) /\ raw.groups[at][field] = raw.groups[i][f]
        <5>1. doc.groups[at][field] # NoList /\ doc.groups[at][field] # Own(first.groups[at].name, field)
          BY <4>1, <4>2, OwnIsApart
        <5>2. QED
          BY <1>1, <1>2, <2>2, <4>2, <5>1, ListIsOf
      <4>4. at \in DOMAIN raw.groups /\ raw.groups[at].name \in Names(o.patch)
        BY <1>2, <2>2, <4>3 DEF Old, First
      <4>5. raw.groups[i][f] \in Lists(raw.groups[i]) \cap Lists(raw.groups[at])
        BY <4>1, <4>3 DEF Lists, Fields
      <4>6. QED
        BY <3>1, <4>4, <4>5, SharesIsTouched
    <3>9. QED
      BY <3>5, <3>7, <3>8 DEF After
  <2>4. QED
    BY <2>3 DEF OldKept, Fields
<1>5. QED
  BY <1>3, <1>4

\* What is so whichever patches were made.
SoFar(raw, o, doc) ==
    /\ Reached(raw, o, doc)
    /\ OldKept(raw, o, doc)
    /\ FieldsApart(raw) /\ Resolves(raw) => OldResolve(raw, o, doc)

\* Appending to one list.
LEMMA AppendGoesOn ==
    ASSUME NEW raw, NEW o, Composable(raw, o), NEW doc, SoFar(raw, o, doc),
           NEW name \in Names(doc.groups), name \in Names(o.patch), NEW field \in Fields, NEW values \in Seq(STRING),
           ToSet(values) \subseteq There(raw, o, field), NEW new, new = Appended(doc, name, field, values)
    PROVE  SoFar(raw, o, new)
<1>1. Reached(raw, o, new)
  BY AppendReaches DEF SoFar
<1>2. OldKept(raw, o, new)
  BY AppendKeeps DEF SoFar
<1>3. FieldsApart(raw) /\ Resolves(raw) => OldResolve(raw, o, new)
  BY AppendResolves DEF SoFar
<1>4. QED
  BY <1>1, <1>2, <1>3 DEF SoFar

\* Patches add no names.
LEMMA NamesBetween ==
    ASSUME NEW first, NEW doc, Between(first, doc)
    PROVE  /\ Names(doc.groups) = Names(first.groups)
           /\ Targets(doc) = Targets(first) /\ doc.providers = first.providers
<1>1. DOMAIN doc.groups = DOMAIN first.groups /\ doc.proxies = first.proxies /\ doc.providers = first.providers
  BY DEF Between
<1>2. ASSUME NEW i \in DOMAIN first.groups PROVE doc.groups[i].name = first.groups[i].name
  <2>1. doc.groups[i] = [name |-> first.groups[i].name, proxies |-> doc.groups[i].proxies, use |-> doc.groups[i].use]
    BY DEF Between
  <2>2. QED
    BY <2>1
<1>3. Names(doc.groups) = Names(first.groups)
  BY <1>1, <1>2 DEF Names
<1>4. QED
  BY <1>1, <1>3 DEF Targets

\* A patch that fits.
LEMMA PatchGoesOn ==
    ASSUME NEW raw, NEW o, Composable(raw, o), NEW doc, SoFar(raw, o, doc),
           NEW n \in DOMAIN o.patch, PatchFits(doc, o.patch[n])
    PROVE  SoFar(raw, o, Patched(doc, o.patch[n]))
<1> DEFINE patch == o.patch[n]
<1> DEFINE H == [name : STRING, proxies : Seq(STRING), use : Seq(STRING)]
<1>1. PICK first, mid : first = Unpatched(raw, o) /\ mid = Appended(doc, patch.name, "proxies", patch.proxies)
  OBVIOUS
<1>2. patch.proxies \in Seq(STRING) /\ patch.use \in Seq(STRING) /\ patch.name \in Names(o.patch)
  <2>1. o.patch \in Seq(H)
    BY DEF Composable, IsOverlayDocument
  <2>2. ASSUME NEW h \in H PROVE h.proxies \in Seq(STRING) /\ h.use \in Seq(STRING)
    OBVIOUS
  <2> HIDE DEF H
  <2>3. patch \in H
    BY <2>1, ElementIn
  <2>4. QED
    BY <2>2, <2>3 DEF Names
<1>3. Between(first, doc)
  BY <1>1 DEF SoFar, Reached
<1>4. /\ patch.name \in Names(doc.groups)
      /\ ToSet(patch.proxies) \subseteq There(raw, o, "proxies")
      /\ ToSet(patch.use) \subseteq There(raw, o, "use")
  BY <1>1, <1>3, NamesBetween DEF PatchFits, There
<1> HIDE DEF patch
<1>5. SoFar(raw, o, mid)
  BY <1>1, <1>2, <1>4, AppendGoesOn DEF Fields
<1>6. patch.name \in Names(mid.groups)
  <2>1. Between(first, mid)
    BY <1>1, <1>5 DEF SoFar, Reached
  <2>2. QED
    BY <1>3, <1>4, <2>1, NamesBetween
<1>7. SoFar(raw, o, Appended(mid, patch.name, "use", patch.use))
  BY <1>2, <1>4, <1>5, <1>6, AppendGoesOn DEF Fields
<1>8. QED
  BY <1>1, <1>7 DEF Patched, patch

-----------------------------------------------------------------------------
(* All patches.                                                           *)

\* What the overlay makes of proxies and providers.
EntriesGrown(raw, o, first) ==
    /\ Grown(raw.proxies, o.proxyAdd, o.proxyReplace, first.proxies)
    /\ Grown(raw.providers, o.providerAdd, o.providerReplace, first.providers)
    /\ Grown(raw.ruleProviders, o.ruleProviderAdd, o.ruleProviderReplace, first.ruleProviders)

\* The proxies and providers of the document before its patches.
LEMMA EntriesHold ==
    ASSUME NEW raw, NEW o, Composable(raw, o), NEW first, first = Unpatched(raw, o)
    PROVE  EntriesGrown(raw, o, first)
<1>1. IsDocument(raw) /\ IsOverlayDocument(o)
  BY DEF Composable
<1>2. /\ first.proxies = NamedApplied(raw.proxies, o.proxyAdd, o.proxyReplace)
      /\ first.providers = NamedApplied(raw.providers, o.providerAdd, o.providerReplace)
      /\ first.ruleProviders = NamedApplied(raw.ruleProviders, o.ruleProviderAdd, o.ruleProviderReplace)
  BY <1>1, UnpatchedParts
<1>3. /\ {raw.proxies, raw.providers, raw.ruleProviders} \subseteq Seq(Entry)
      /\ {o.proxyAdd, o.proxyReplace, o.providerAdd, o.providerReplace, o.ruleProviderAdd, o.ruleProviderReplace}
           \subseteq Seq(Entry)
  BY <1>1, Zenon DEF IsDocument, IsOverlayDocument
<1>4. Grown(raw.proxies, o.proxyAdd, o.proxyReplace, first.proxies)
  BY <1>2, <1>3, NamedParts
<1>5. Grown(raw.providers, o.providerAdd, o.providerReplace, first.providers)
  BY <1>2, <1>3, NamedParts
<1>6. Grown(raw.ruleProviders, o.ruleProviderAdd, o.ruleProviderReplace, first.ruleProviders)
  BY <1>2, <1>3, NamedParts
<1>7. QED
  BY <1>4, <1>5, <1>6 DEF EntriesGrown

\* Before the first patch.
LEMMA StartsSo ==
    ASSUME NEW raw, NEW o, Composable(raw, o), NEW first, first = Unpatched(raw, o)
    PROVE  SoFar(raw, o, first)
<1>1. First(raw, o, first) /\ EntriesGrown(raw, o, first)
  BY FirstHolds, EntriesHold
<1>2. Between(first, first)
  <2>1. first = [proxies |-> first.proxies, groups |-> first.groups, lists |-> first.lists,
                 providers |-> first.providers, ruleProviders |-> first.ruleProviders,
                 rules |-> first.rules, dns |-> first.dns]
    <3>1. IsDocument(raw)
      BY DEF Composable
    <3>2. PICK a, b, c, d, e, f, g :
             first = [proxies |-> a, groups |-> b, lists |-> c, providers |-> d, ruleProviders |-> e,
                      rules |-> f, dns |-> g]
      BY <3>1, UnpatchedParts
    <3>3. QED
      BY <3>2
  <2>2. QED
    BY <1>1, <2>1, Zenon DEF Between, First
<1>3. ASSUME NEW i \in Old(raw, o), NEW f \in Fields
      PROVE  /\ first.groups[i] = raw.groups[i] /\ i \in DOMAIN raw.groups
             /\ Items(first, raw.groups[i][f]) = Items(raw, raw.groups[i][f])
             /\ raw.groups[i][f] = NoList
                  \/ (raw.groups[i][f] \in DOMAIN first.lists /\ first.lists[raw.groups[i][f]] \in Seq(STRING))
  <2>1. first.groups[i] = raw.groups[i] /\ i \in DOMAIN raw.groups
    BY <1>1 DEF First, Old
  <2>2. /\ raw.groups[i][f] \in STRING \X STRING
        /\ raw.groups[i][f] = NoList
             \/ (raw.groups[i][f] \in DOMAIN raw.lists /\ raw.lists[raw.groups[i][f]] \in Seq(STRING))
    BY <2>1, RawLists
  <2>3. CASE raw.groups[i][f] = NoList
    BY <2>1, <2>3 DEF Items
  <2>4. CASE raw.groups[i][f] # NoList
    <3>1. raw.groups[i][f] \in DOMAIN raw.lists \cap (STRING \X STRING)
      BY <2>2, <2>4
    <3>2. raw.groups[i][f] \in DOMAIN first.lists /\ first.lists[raw.groups[i][f]] = raw.lists[raw.groups[i][f]]
      BY <1>1, <3>1 DEF First
    <3>3. QED
      BY <2>1, <2>2, <2>4, <3>2 DEF Items
  <2>5. QED
    BY <2>3, <2>4
<1>4. Reached(raw, o, first)
  <2>1. ListsThere(raw, o, first)
    BY <1>3 DEF ListsThere
  <2>2. QED
    BY <1>2, <2>1 DEF Reached
<1>5. OldKept(raw, o, first)
  <2>1. ASSUME NEW i \in Untouched(raw, o), NEW f \in Fields
        PROVE  first.groups[i] = raw.groups[i] /\ Items(first, raw.groups[i][f]) = Items(raw, raw.groups[i][f])
    BY <1>3, UntouchedIsOld
  <2>2. QED
    BY <2>1 DEF OldKept, Fields
<1>6. ASSUME Resolves(raw) PROVE OldResolve(raw, o, first)
  <2>1. Targets(raw) \subseteq Targets(first) /\ Names(raw.providers) \subseteq Names(first.providers)
    BY <1>1 DEF First, EntriesGrown, Grown, Targets
  <2>2. ASSUME NEW i \in Old(raw, o)
        PROVE  /\ ToSet(Items(first, first.groups[i].proxies)) \subseteq Builtin \cup Targets(first)
               /\ ToSet(Items(first, first.groups[i].use)) \subseteq Names(first.providers)
    <3>1. i \in DOMAIN raw.groups /\ raw.groups[i].name \in Names(raw.groups)
      BY DEF Old, Names
    <3>2. Position(raw.groups, raw.groups[i].name) = i
      BY <3>1, RawDistinct, PositionOf
    <3>3. /\ ToSet(Items(raw, raw.groups[i].proxies)) \subseteq Builtin \cup Targets(raw)
          /\ ToSet(Items(raw, raw.groups[i].use)) \subseteq Names(raw.providers)
      BY <1>6, <3>1, <3>2 DEF Resolves, GroupResolves, Candidates, Uses
    <3>4. /\ Items(first, first.groups[i]["proxies"]) = Items(raw, raw.groups[i]["proxies"])
          /\ Items(first, first.groups[i]["use"]) = Items(raw, raw.groups[i]["use"])
      BY <1>3 DEF Fields
    <3>5. QED
      BY <2>1, <3>3, <3>4
  <2>3. QED
    BY <2>2 DEF OldResolve
<1>7. QED
  BY <1>4, <1>5, <1>6 DEF SoFar

\* And after the last.
LEMMA ComposedSo ==
    ASSUME NEW raw, NEW o, Composable(raw, o)
    PROVE  SoFar(raw, o, Composed(raw, o).doc)
<1> DEFINE H == [name : STRING, proxies : Seq(STRING), use : Seq(STRING)]
<1>1. Len(o.patch) \in Nat /\ DOMAIN o.patch = 1..Len(o.patch)
  <2>1. o.patch \in Seq(H)
    BY DEF Composable, IsOverlayDocument
  <2> HIDE DEF H
  <2>2. QED
    BY <2>1
<1>2. PICK first : first = Unpatched(raw, o)
  OBVIOUS
<1>3. PICK after :
         /\ after = [n \in 0..Len(o.patch) |->
                       IF n = 0 THEN [fits |-> TRUE, doc |-> first] ELSE PatchTried(after[n - 1], o.patch[n])]
         /\ PatchesApplied(first, o.patch) = after[Len(o.patch)]
  BY <1>1, PatchRun
<1>4. \A k \in 0..Len(o.patch) : k # 0 => after[k] = PatchTried(after[k - 1], o.patch[k])
  <2>1. ASSUME NEW k \in 0..Len(o.patch), k # 0 PROVE after[k] = PatchTried(after[k - 1], o.patch[k])
    BY <1>3, <2>1, Zenon
  <2>2. QED
    BY <2>1
<1> DEFINE Good(n) == n <= Len(o.patch) => after[n].fits \in BOOLEAN /\ (after[n].fits => SoFar(raw, o, after[n].doc))
<1> DEFINE T == {n \in Nat : Good(n)}
<1>5. 0 \in T
  <2>1. after[0] = [fits |-> TRUE, doc |-> first]
    BY <1>1, <1>3
  <2>2. SoFar(raw, o, first)
    BY <1>2, StartsSo
  <2>3. Good(0)
    BY <2>1, <2>2
  <2> HIDE DEF Good
  <2>4. QED
    BY <2>3
<1>6. ASSUME NEW n \in T PROVE n + 1 \in T
  <2>1. CASE ~(n + 1 <= Len(o.patch))
    BY <2>1
  <2>2. CASE n + 1 <= Len(o.patch)
    <3>1. n \in Nat /\ n <= Len(o.patch) /\ n + 1 \in DOMAIN o.patch /\ n + 1 \in 0..Len(o.patch) /\ n + 1 # 0
      BY <1>1, <2>2
    <3>2. Good(n)
      OBVIOUS
    <3>3. after[n + 1] = PatchTried(after[n], o.patch[n + 1])
      <4>1. n + 1 - 1 = n
        BY <3>1
      <4>2. ASSUME NEW k, k \in 0..Len(o.patch), k # 0, k - 1 = n PROVE after[k] = PatchTried(after[n], o.patch[k])
        BY <1>4, <4>2, Zenon
      <4>3. QED
        BY <3>1, <4>1, <4>2
    <3>4. CASE after[n].fits /\ PatchFits(after[n].doc, o.patch[n + 1])
      <4>1. after[n + 1] = [fits |-> TRUE, doc |-> Patched(after[n].doc, o.patch[n + 1])]
        BY <3>3, <3>4 DEF PatchTried
      <4>2. SoFar(raw, o, after[n].doc)
        BY <3>1, <3>2, <3>4
      <4>3. SoFar(raw, o, Patched(after[n].doc, o.patch[n + 1]))
        BY <3>1, <3>4, <4>2, PatchGoesOn
      <4>4. Good(n + 1)
        BY <4>1, <4>3
      <4>5. QED
        BY <3>1, <4>4
    <3>5. CASE ~(after[n].fits /\ PatchFits(after[n].doc, o.patch[n + 1]))
      <4>1. after[n + 1] = [fits |-> FALSE, doc |-> after[n].doc]
        BY <3>3, <3>5 DEF PatchTried
      <4>2. Good(n + 1)
        BY <4>1
      <4>3. QED
        BY <3>1, <4>2
    <3>6. QED
      BY <3>4, <3>5
  <2>3. QED
    BY <2>1, <2>2
<1>7. T = Nat
  <2> HIDE DEF Good
  <2>1. T \subseteq Nat
    OBVIOUS
  <2> HIDE DEF T
  <2>2. QED
    BY <1>5, <1>6, <2>1, Induction
<1>8. Good(Len(o.patch))
  BY <1>1, <1>7
<1>9. Composed(raw, o) = after[Len(o.patch)]
  BY <1>2, <1>3 DEF Composed
<1>10. Composed(raw, o).fits
  BY DEF Composable, Compatible
<1>11. QED
  BY <1>1, <1>8, <1>9, <1>10

-----------------------------------------------------------------------------
(* The result.                                                            *)

\* The composition: what the patches have left, with the rules and the DNS.
Result(raw, o, first, doc, result) ==
    /\ Between(first, doc) /\ SoFar(raw, o, doc)
    /\ OverlayResolves(doc, o)
    /\ result.proxies = first.proxies /\ result.groups = doc.groups /\ result.lists = doc.lists
    /\ result.providers = first.providers /\ result.ruleProviders = first.ruleProviders
    /\ result.rules = RulesApplied(raw.rules, o)
    /\ result.dns = DNSAppended(DNSMerged(Resolvers(raw.dns), o.dnsMerge), o.dnsAppend)

\* So it is composed.
LEMMA ResultHolds ==
    ASSUME NEW raw, NEW o, Composable(raw, o), NEW first, first = Unpatched(raw, o),
           NEW doc, doc = Composed(raw, o).doc, NEW result, result = ComposeProfileOverlay(raw, o)
    PROVE  Result(raw, o, first, doc, result)
<1>1. Between(first, doc) /\ SoFar(raw, o, doc)
  BY ComposedSo DEF SoFar, Reached
<1>2. first.rules = raw.rules /\ first.dns = raw.dns
  <2>1. IsDocument(raw)
    BY DEF Composable
  <2>2. PICK a, b, c, d, e :
           first = [proxies |-> a, groups |-> b, lists |-> c, providers |-> d, ruleProviders |-> e,
                    rules |-> raw.rules, dns |-> raw.dns]
    BY <2>1, UnpatchedParts
  <2>3. QED
    BY <2>2
<1>3. doc = [proxies |-> first.proxies, groups |-> doc.groups, lists |-> doc.lists,
             providers |-> first.providers, ruleProviders |-> first.ruleProviders,
             rules |-> raw.rules, dns |-> raw.dns]
  BY <1>1, <1>2 DEF Between
<1> DEFINE rules == RulesApplied(doc.rules, o)
<1> DEFINE dns == DNSAppended(DNSMerged(Resolvers(doc.dns), o.dnsMerge), o.dnsAppend)
<1>4. result = [doc EXCEPT !.rules = rules, !.dns = dns]
  BY DEF Composable, ComposeProfileOverlay
<1>5. rules = RulesApplied(raw.rules, o) /\ dns = DNSAppended(DNSMerged(Resolvers(raw.dns), o.dnsMerge), o.dnsAppend)
  <2>1. doc.rules = raw.rules /\ doc.dns = raw.dns
    BY <1>3
  <2>2. QED
    BY <2>1
<1> HIDE DEF rules, dns
<1>6. result = [[doc EXCEPT !.rules = rules] EXCEPT !.dns = dns]
  BY <1>4
<1> DEFINE mid == [doc EXCEPT !.rules = rules]
<1>7. mid = [proxies |-> first.proxies, groups |-> doc.groups, lists |-> doc.lists,
             providers |-> first.providers, ruleProviders |-> first.ruleProviders,
             rules |-> rules, dns |-> raw.dns]
  BY <1>3
<1>8. result = [mid EXCEPT !.dns = dns]
  BY <1>6
<1> HIDE DEF mid
<1>9. result = [proxies |-> first.proxies, groups |-> doc.groups, lists |-> doc.lists,
                providers |-> first.providers, ruleProviders |-> first.ruleProviders,
                rules |-> rules, dns |-> dns]
  BY <1>7, <1>8
<1>10. /\ result.proxies = first.proxies /\ result.groups = doc.groups /\ result.lists = doc.lists
      /\ result.providers = first.providers /\ result.ruleProviders = first.ruleProviders
      /\ result.rules = rules /\ result.dns = dns
  BY <1>9
<1>11. OverlayResolves(doc, o)
  BY DEF Composable, Compatible
<1>12. QED
  BY <1>1, <1>5, <1>10, <1>11 DEF Result

\* Where a group of the document's is in the result.
LEMMA StaysPut ==
    ASSUME NEW raw, NEW o, Composable(raw, o), NEW first, first = Unpatched(raw, o), NEW doc, Between(first, doc),
           NEW i \in DOMAIN raw.groups
    PROVE  Position(doc.groups, raw.groups[i].name) = i
<1>1. First(raw, o, first)
  BY FirstHolds
<1>2. ASSUME NEW j \in DOMAIN first.groups PROVE doc.groups[j].name = first.groups[j].name
  <2>1. doc.groups[j] = [name |-> first.groups[j].name, proxies |-> doc.groups[j].proxies, use |-> doc.groups[j].use]
    BY DEF Between
  <2>2. QED
    BY <2>1
<1>3. Distinct(doc.groups)
  BY <1>1, <1>2 DEF First, Distinct, Between
<1>4. i \in DOMAIN doc.groups /\ doc.groups[i].name = raw.groups[i].name
  BY <1>1, <1>2 DEF First, Between
<1>5. QED
  BY <1>3, <1>4, PositionOf

\* The rules of the result.
RulesMade(rules, o, new) ==
    /\ ToSet(new) \subseteq ToSet(o.prepend) \cup ToSet(o.append) \cup ToSet(rules)
    /\ IsPrefix(o.prepend \o (IF HasMatch(rules) THEN Front(rules) ELSE rules), new)
    /\ HasMatch(rules) => Last(new) = Last(rules)

\* The two parts of a sequence.
LEMMA FrontAndLast ==
    ASSUME NEW S, NEW s \in Seq(S), s # <<>>
    PROVE  Front(s) \in Seq(S) /\ ToSet(Front(s)) \subseteq ToSet(s) /\ Last(s) \in S /\ Last(s) \in ToSet(s)
<1>1. Len(s) \in Nat /\ Len(s) # 0 /\ Len(s) \in DOMAIN s
  OBVIOUS
<1>2. Last(s) \in S /\ Last(s) \in ToSet(s)
  BY <1>1 DEF Last, ToSet
<1>3. Front(s) \in Seq(S) /\ \A i \in DOMAIN Front(s) : i \in DOMAIN s /\ Front(s)[i] = s[i]
  BY <1>1 DEF Front
<1>4. QED
  BY <1>2, <1>3 DEF ToSet

\* What comes first is a prefix.
LEMMA JoinedPrefix ==
    ASSUME NEW S, NEW s \in Seq(S), NEW t \in Seq(S)
    PROVE  IsPrefix(s, s \o t)
BY DEF IsPrefix

\* The rules of a document and of an overlay.
LEMMA RulesMadeSo ==
    ASSUME NEW S, NEW rules \in Seq(S), NEW o, o.prepend \in Seq(S), o.append \in Seq(S),
           NEW new, new = RulesApplied(rules, o)
    PROVE  RulesMade(rules, o, new)
<1> DEFINE body == IF HasMatch(rules) THEN Front(rules) ELSE rules
<1> DEFINE terminal == IF HasMatch(rules) THEN <<Last(rules)>> ELSE <<>>
<1>1. body \in Seq(S) /\ ToSet(body) \subseteq ToSet(rules)
  BY FrontAndLast DEF HasMatch
<1>2. terminal \in Seq(S) /\ ToSet(terminal) \subseteq ToSet(rules)
  <2>1. CASE HasMatch(rules)
    <3>1. Last(rules) \in S /\ Last(rules) \in ToSet(rules)
      BY <2>1, FrontAndLast DEF HasMatch
    <3>2. terminal = <<Last(rules)>>
      BY <2>1
    <3>3. QED
      BY <3>1, <3>2 DEF ToSet
  <2>2. CASE ~HasMatch(rules)
    <3>1. terminal = <<>>
      BY <2>2
    <3>2. QED
      BY <3>1 DEF ToSet
  <2>3. QED
    BY <2>1, <2>2
<1>3. new = ((o.prepend \o body) \o o.append) \o terminal
  BY DEF RulesApplied
<1>4. HasMatch(rules) => terminal = <<Last(rules)>>
  OBVIOUS
<1>5. body = IF HasMatch(rules) THEN Front(rules) ELSE rules
  OBVIOUS
<1> HIDE DEF body, terminal
<1>6. PICK a, b, c : a = o.prepend \o body /\ c = o.append /\ b = a \o c
  OBVIOUS
<1>7. a \in Seq(S) /\ b \in Seq(S) /\ c \in Seq(S) /\ new = b \o terminal
  BY <1>1, <1>3, <1>6
<1>8. ToSet(a) = ToSet(o.prepend) \cup ToSet(body)
  BY <1>1, <1>6, JoinedSet
<1>9. ToSet(a \o c) = ToSet(a) \cup ToSet(c)
  BY <1>7, JoinedSet
<1>10. ToSet(new) = ToSet(b) \cup ToSet(terminal)
  BY <1>2, <1>7, JoinedSet
<1>11. IsPrefix(a, new)
  <2>1. PICK t : t = c \o terminal
    OBVIOUS
  <2>2. (a \o c) \o terminal = a \o (c \o terminal)
    <3>1. terminal \in Seq(S) /\ a \in Seq(S) /\ c \in Seq(S)
      BY <1>2, <1>7
    <3>2. QED
      BY ONLY <3>1, ConcatAssociative
  <2>3. t \in Seq(S)
    BY <1>2, <1>7, <2>1
  <2>4. t \in Seq(S) /\ new = a \o t
    BY <1>6, <1>7, <2>1, <2>2, <2>3, Zenon
  <2>5. QED
    BY <1>7, <2>4, JoinedPrefix
<1>12. ASSUME HasMatch(rules) PROVE Last(new) = Last(rules)
  <2>1. PICK x : x = Last(rules)
    OBVIOUS
  <2>2. new = b \o <<x>> /\ x \in S
    BY <1>4, <1>7, <1>12, <2>1, FrontAndLast DEF HasMatch
  <2>3. Last(new) = x
    BY <1>7, <2>2 DEF Last
  <2>4. QED
    BY <2>1, <2>3
<1>13. QED
  BY <1>1, <1>2, <1>5, <1>6, <1>8, <1>9, <1>10, <1>11, <1>12 DEF RulesMade

-----------------------------------------------------------------------------
(* What a composition promises.                                           *)

\* A rule that resolves, resolves where there is more.
LEMMA RuleOf ==
    ASSUME NEW doc, NEW rules, \A i \in DOMAIN rules : RuleResolves(doc, rules[i]), NEW rule \in ToSet(rules)
    PROVE  RuleResolves(doc, rule)
BY DEF ToSet

\* The rules of the result.
LEMMA ComposedRules ==
    ASSUME NEW raw, NEW o, Composable(raw, o), NEW result, result = ComposeProfileOverlay(raw, o)
    PROVE  RulesMade(raw.rules, o, result.rules)
<1>1. PICK first, doc : first = Unpatched(raw, o) /\ doc = Composed(raw, o).doc
  OBVIOUS
<1>2. Result(raw, o, first, doc, result)
  BY <1>1, ResultHolds
<1>3. raw.rules \in Seq(Rule) /\ o.prepend \in Seq(Rule) /\ o.append \in Seq(Rule)
  BY Zenon DEF Composable, IsDocument, IsOverlayDocument
<1>4. QED
  BY <1>2, <1>3, RulesMadeSo DEF Result

\* What resolves in the document resolves in the result.
LEMMA ComposedResolves ==
    ASSUME NEW raw, NEW o, Composable(raw, o), Resolves(raw), FieldsApart(raw)
    PROVE  Resolves(ComposeProfileOverlay(raw, o))
<1>1. PICK first, doc, result :
         first = Unpatched(raw, o) /\ doc = Composed(raw, o).doc /\ result = ComposeProfileOverlay(raw, o)
  OBVIOUS
<1>2. Result(raw, o, first, doc, result)
  BY <1>1, ResultHolds
<1>3. /\ Between(first, doc) /\ OldResolve(raw, o, doc) /\ OverlayResolves(doc, o)
      /\ result.proxies = first.proxies /\ result.groups = doc.groups /\ result.lists = doc.lists
      /\ result.providers = first.providers /\ result.ruleProviders = first.ruleProviders
  BY <1>2 DEF Result, SoFar
<1>4. First(raw, o, first) /\ EntriesGrown(raw, o, first)
  BY <1>1, FirstHolds, EntriesHold
<1>5. /\ Names(doc.groups) = Names(first.groups) /\ Targets(doc) = Targets(first)
      /\ doc.providers = first.providers /\ doc.ruleProviders = first.ruleProviders
  <2>1. Names(doc.groups) = Names(first.groups) /\ Targets(doc) = Targets(first) /\ doc.providers = first.providers
    BY <1>3, NamesBetween
  <2>2. doc.ruleProviders = first.ruleProviders
    BY <1>3 DEF Between
  <2>3. QED
    BY <2>1, <2>2
<1>6. /\ Targets(raw) \subseteq Targets(first) /\ Names(raw.ruleProviders) \subseteq Names(first.ruleProviders)
      /\ Targets(result) = Targets(first)
  BY <1>3, <1>4, <1>5 DEF First, EntriesGrown, Grown, Targets
<1>7. ASSUME NEW name \in Names(result.groups) PROVE GroupResolves(result, name)
  <2>1. GroupResolves(doc, name) => GroupResolves(result, name)
    BY <1>3, <1>5, <1>6 DEF GroupResolves, Candidates, Uses, Items
  <2>2. CASE name \in Names(o.groupAdd \o o.groupReplace)
    BY <1>3, <2>1, <2>2 DEF OverlayResolves
  <2>3. CASE name \notin Names(o.groupAdd \o o.groupReplace)
    <3>1. Names(o.groupAdd \o o.groupReplace) = Names(o.groupAdd) \cup Names(o.groupReplace)
      <4> DEFINE H == [name : STRING, proxies : Seq(STRING), use : Seq(STRING)]
      <4>1. o.groupAdd \in Seq(H) /\ o.groupReplace \in Seq(H)
        BY Zenon DEF Composable, IsOverlayDocument
      <4> HIDE DEF H
      <4>2. QED
        BY <4>1, JoinedNames
    <3>2. name \in Names(raw.groups)
      BY <1>3, <1>4, <1>5, <2>3, <3>1 DEF First
    <3>3. PICK i \in DOMAIN raw.groups : raw.groups[i].name = name
      BY <3>2 DEF Names
    <3>4. i \in Old(raw, o)
      BY <2>3, <3>1, <3>3 DEF Old
    <3>5. Position(doc.groups, name) = i
      BY <1>1, <1>3, <3>3, StaysPut
    <3>6. GroupResolves(doc, name)
      BY <1>1, <1>3, <1>5, <3>4, <3>5 DEF OldResolve, GroupResolves, Candidates, Uses
    <3>7. QED
      BY <2>1, <3>6
  <2>4. QED
    BY <2>2, <2>3
<1>8. ASSUME NEW i \in DOMAIN result.rules PROVE RuleResolves(result, result.rules[i])
  <2>1. ToSet(result.rules) \subseteq ToSet(o.prepend) \cup ToSet(o.append) \cup ToSet(raw.rules)
    BY <1>1, ComposedRules DEF RulesMade
  <2>2. result.rules[i] \in ToSet(result.rules)
    BY DEF ToSet
  <2>3. PICK rule : rule = result.rules[i]
    OBVIOUS
  <2>4. RuleResolves(doc, rule) => RuleResolves(result, rule)
    BY <1>3, <1>5, <1>6 DEF RuleResolves
  <2>5. CASE rule \in ToSet(o.prepend) \cup ToSet(o.append)
    <3>1. o.prepend \in Seq(Rule) /\ o.append \in Seq(Rule)
      BY Zenon DEF Composable, IsOverlayDocument
    <3>2. PICK rules : rules = o.prepend \o o.append
      OBVIOUS
    <3>3. rule \in ToSet(rules)
      BY <2>5, <3>1, <3>2, JoinedSet
    <3>4. \A j \in DOMAIN rules : RuleResolves(doc, rules[j])
      BY <1>3, <3>2 DEF OverlayResolves
    <3>5. QED
      BY <2>3, <2>4, <3>3, <3>4, RuleOf
  <2>6. CASE rule \in ToSet(raw.rules)
    <3>1. \A j \in DOMAIN raw.rules : RuleResolves(raw, raw.rules[j])
      BY DEF Resolves, RuleResolves
    <3>2. RuleResolves(raw, rule)
      BY <2>6, <3>1, RuleOf
    <3>3. QED
      BY <1>3, <1>6, <2>3, <3>2 DEF RuleResolves
  <2>7. QED
    BY <2>1, <2>2, <2>3, <2>5, <2>6
<1>9. Resolves(result)
  BY <1>7, <1>8 DEF Resolves, RuleResolves
<1>10. QED
  BY <1>1, <1>9

\* Entries the overlay does not name are kept.
LEMMA GrownKeeps ==
    ASSUME NEW old, NEW add, NEW replace, NEW new, Grown(old, add, replace, new)
    PROVE  EntriesKept(old, new, Names(replace))
BY DEF Grown, EntriesKept

\* What the overlay does not name is kept.
LEMMA ComposedKeeps ==
    ASSUME NEW raw, NEW o, Composable(raw, o)
    PROVE  Kept(raw, o, ComposeProfileOverlay(raw, o))
<1>1. PICK first, doc, result :
         first = Unpatched(raw, o) /\ doc = Composed(raw, o).doc /\ result = ComposeProfileOverlay(raw, o)
  OBVIOUS
<1>2. Result(raw, o, first, doc, result)
  BY <1>1, ResultHolds
<1>3. /\ Between(first, doc) /\ OldKept(raw, o, doc)
      /\ result.proxies = first.proxies /\ result.groups = doc.groups /\ result.lists = doc.lists
      /\ result.providers = first.providers /\ result.ruleProviders = first.ruleProviders
      /\ result.dns = DNSAppended(DNSMerged(Resolvers(raw.dns), o.dnsMerge), o.dnsAppend)
  BY <1>2 DEF Result, SoFar
<1>4. RulesKept(raw, o, result)
  <2>1. RulesMade(raw.rules, o, result.rules)
    BY <1>1, ComposedRules
  <2>2. QED
    BY <2>1 DEF RulesMade, RulesKept
<1>5. /\ EntriesKept(raw.proxies, result.proxies, Names(o.proxyReplace))
      /\ EntriesKept(raw.providers, result.providers, Names(o.providerReplace))
      /\ EntriesKept(raw.ruleProviders, result.ruleProviders, Names(o.ruleProviderReplace))
  BY <1>1, <1>3, EntriesHold, GrownKeeps DEF EntriesGrown
<1>6. ASSUME NEW name \in Names(raw.groups) \ Touched(raw, o)
      PROVE  Candidates(result, name) = Candidates(raw, name) /\ Uses(result, name) = Uses(raw, name)
  <2>1. PICK i \in DOMAIN raw.groups : raw.groups[i].name = name
    BY DEF Names
  <2>2. i \in Untouched(raw, o)
    BY <2>1 DEF Untouched
  <2>3. Position(raw.groups, name) = i /\ Position(result.groups, name) = i
    BY <1>1, <1>3, <2>1, StaysPut, RawDistinct, PositionOf
  <2>4. result.groups[i] = raw.groups[i]
    BY <1>3, <2>2 DEF OldKept
  <2>5. /\ Items(result, raw.groups[i]["proxies"]) = Items(raw, raw.groups[i]["proxies"])
        /\ Items(result, raw.groups[i]["use"]) = Items(raw, raw.groups[i]["use"])
    BY <1>3, <2>2 DEF OldKept, Fields, Items
  <2>6. QED
    BY <2>3, <2>4, <2>5 DEF Candidates, Uses
<1>7. ASSUME NEW f \in DOMAIN Resolvers(raw.dns) \ (DOMAIN o.dnsMerge \cup DOMAIN o.dnsAppend)
      PROVE  result.dns[f] = Resolvers(raw.dns)[f]
  <2>1. PICK dns : dns = Resolvers(raw.dns)
    OBVIOUS
  <2>2. PICK merged : merged = DNSMerged(dns, o.dnsMerge)
    OBVIOUS
  <2>3. f \in DOMAIN merged /\ merged[f] = dns[f]
    BY <2>1, <2>2 DEF DNSMerged
  <2>4. DNSAppended(merged, o.dnsAppend)[f] = merged[f]
    BY <2>3 DEF DNSAppended
  <2>5. QED
    BY <1>3, <2>1, <2>2, <2>3, <2>4
<1>8. Kept(raw, o, result)
  BY <1>4, <1>5, <1>6, <1>7 DEF Kept
<1>9. QED
  BY <1>1, <1>8

-----------------------------------------------------------------------------
(* What is kept, and what a request carries on.                            *)

Ids == {Subscription, Local}
Uploads == DOMAIN Contents \ {Managed}

\* A content of sources.json.
IsList(l) ==
    /\ DOMAIN l \subseteq Ids
    /\ \A id \in DOMAIN l : l[id].digest \in Uploads /\ l[id].versions \subseteq Uploads

IsOverlay(o) == o \in DOMAIN Overlays /\ ValidateProfileOverlay(Overlays[o])
IsRaw(source) == \E c \in DOMAIN Contents : source = <<c>>

Importing(q) == q.id \in Ids /\ q.digest \in Uploads /\ IsList(q.before)

\* What a request holds at each of its steps. A start has composed from the source
\* that was selected when it began, or leaves it to the helper.
RequestSound(q) ==
    /\ q.at = "import" =>
          /\ q = [at |-> "import", id |-> q.id, digest |-> q.digest, before |-> q.before]
          /\ Importing(q)
    /\ q.at \in {"list", "address", "remove"} =>
          /\ q = [at |-> q.at, id |-> q.id, digest |-> q.digest, before |-> q.before, seen |-> q.seen]
          /\ Importing(q) /\ IsList(q.seen)
    /\ q.at \in {"edit", "write"} =>
          /\ q = [at |-> q.at, seen |-> q.seen, overlay |-> q.overlay]
          /\ q.overlay \in DOMAIN Overlays /\ (q.at = "write" => IsOverlay(q.overlay))
    /\ q.at = "apply" =>
          /\ q = [at |-> "apply", source |-> q.source, overlay |-> q.overlay, match |-> q.match]
          /\ IsRaw(q.source) /\ q.overlay \in DOMAIN Overlays /\ Fits(q.source, q.overlay)
    /\ q.at = "marked" => IsList(q.seen)
    /\ q.at = "start" =>
          /\ q.overlay \in DOMAIN Overlays
          /\ q.source = Absent \/ (q.source = q.match.source /\ q.match.mode # Managed)

RequestsSound == DOMAIN req = Request /\ \A r \in Request : RequestSound(req[r])

LibrarySound ==
    /\ feed \in Uploads /\ address \in BOOLEAN /\ mu \in Request \cup {Nobody}
    /\ IsList(list) /\ files \subseteq Ids \X Uploads
    /\ IsOverlay(overlay)

ConfigSound ==
    /\ config.mode \in {Managed, "imported"} /\ config.overlay \in DOMAIN Overlays
    /\ config.mode = Managed => config.source = Absent /\ config.file.by = Managed /\ config.overlay = Off
    /\ config.mode = "imported" =>
          IsRaw(config.source) /\ config.file.of = With(config.source, config.overlay)
    /\ config.overlay # Off => Overlays[config.overlay].enabled /\ Fits(config.source, config.overlay)

\* The base is what the file it goes with was composed from.
BaseSound ==
    base = NoBase \/
        /\ IsRaw(base.source) /\ base.source = <<Head(base.effective.of)>>
        /\ base.effective.by = "start" /\ base.mode \in {Managed, "imported"}
        /\ base.mode = Managed => base.source = <<Managed>>

IInv == RequestsSound /\ LibrarySound /\ ConfigSound /\ BaseSound

-----------------------------------------------------------------------------
(* Compositions.                                                           *)

\* What is composed from a raw source begins with it, and is it when no overlay
\* is composed into it.
LEMMA WithSource ==
    ASSUME NEW source, IsRaw(source), NEW o
    PROVE  /\ Head(With(source, o)) = Head(source)
           /\ With(source, Effective(o)) = With(source, o)
           /\ With(source, Off) = source
<1> USE LibraryAssumption
<1>1. PICK c : source = <<c>>
  BY DEF IsRaw
<1>2. Head(Append(<<c>>, o)) = c /\ Head(<<c>>) = c
  OBVIOUS
<1>3. Head(With(source, o)) = Head(source)
  BY <1>1, <1>2 DEF With
<1>4. With(source, Off) = source
  BY DEF With
<1>5. With(source, Effective(o)) = With(source, o)
  BY <1>4 DEF With, Effective
<1>6. QED
  BY <1>3, <1>4, <1>5

\* An imported configuration names the raw source its file begins with.
LEMMA RawRecorded ==
    ASSUME ConfigSound, config.mode = "imported"
    PROVE  IsRaw(config.source) /\ config.source = <<Head(config.file.of)>>
<1>1. PICK c \in DOMAIN Contents : config.source = <<c>>
  BY DEF ConfigSound, IsRaw
<1>2. IsRaw(config.source) /\ config.file.of = With(config.source, config.overlay)
  BY DEF ConfigSound
<1>3. Head(config.file.of) = Head(config.source)
  BY <1>2, WithSource
<1>4. Head(config.source) = c
  BY <1>1
<1>5. QED
  BY <1>1, <1>2, <1>3, <1>4

\* The metadata that a composition goes by is that of the configured file.
LEMMA BaseOfFile ==
    ASSUME ConfigSound, BaseSound
    PROVE  /\ BaseNow.mode \in {Managed, "imported"}
           /\ BaseNow.source = Absent \/ (BaseNow.source = config.source /\ config.mode = "imported")
           /\ BaseNow.mode = Managed => config.source \in {Absent, <<Managed>>}
           /\ BaseNow.mode # Managed => config.mode = "imported"
<1>1. CASE base.effective = config.file /\ base # NoBase
  <2>1. BaseNow = base
    BY <1>1 DEF BaseNow
  <2>2. config.mode = "imported"
    BY <1>1 DEF ConfigSound, BaseSound, Managed
  <2>3. base.source = config.source
    BY <1>1, <2>2, RawRecorded DEF BaseSound
  <2>4. QED
    BY <1>1, <2>1, <2>2, <2>3 DEF BaseSound
<1>2. CASE ~(base.effective = config.file /\ base # NoBase)
  <2>1. BaseNow = [effective |-> NoFile, source |-> Absent, mode |-> config.mode]
    BY <1>2 DEF BaseNow, NoBase
  <2>2. QED
    BY <2>1 DEF ConfigSound
<1>3. QED
  BY <1>1, <1>2

\* Where a start may begin: at the selected source, or at the managed base.
LEMMA StartsRaw ==
    ASSUME ConfigSound, BaseSound, NEW source,
           source = Absent \/ (source = config.source /\ config.mode # Managed),
           ~Unavailable(source)
    PROVE  /\ IsRaw(Start(source))
           /\ \/ Start(source) = config.source
              \/ Start(source) = <<Managed>> /\ config.source = Absent
           /\ BaseNow.mode = Managed => Start(source) = <<Managed>>
<1>1. config.mode = "imported" => IsRaw(config.source) /\ config.source # Absent
  BY DEF ConfigSound, IsRaw, Absent
<1>2. CASE source # Absent
  BY <1>1, <1>2, BaseOfFile DEF Start, ConfigSound
<1>3. CASE source = Absent /\ BaseNow.mode = Managed
  BY <1>3, BaseOfFile, LibraryAssumption DEF Start, IsRaw
<1>4. CASE source = Absent /\ BaseNow.mode # Managed /\ BaseNow.source # Absent
  BY <1>1, <1>4, BaseOfFile DEF Start
<1>5. CASE source = Absent /\ BaseNow.mode # Managed /\ BaseNow.source = Absent
  <2>1. config.overlay = Off /\ config.mode = "imported"
    BY <1>5, BaseOfFile DEF Unavailable
  <2>2. IsRaw(config.source) /\ config.file.of = With(config.source, Off)
    BY <2>1 DEF ConfigSound
  <2>3. config.file.of = config.source
    BY <2>2, WithSource
  <2>4. QED
    BY <1>1, <1>5, <2>1, <2>3 DEF Start
<1>6. QED
  BY <1>2, <1>3, <1>4, <1>5

-----------------------------------------------------------------------------
(* Requests.                                                               *)

\* A request that goes on with what is right at its next step.
LEMMA GoesOn ==
    ASSUME RequestsSound, NEW r \in Request, NEW to, RequestSound(to), Goes(r, to)
    PROVE  RequestsSound'
BY DEF RequestsSound, Goes, RequestSound, Importing, IsList, IsOverlay

\* A request that has ended holds nothing.
LEMMA IdleSound == RequestSound(Idle)
BY DEF RequestSound, Idle

\* A request that moves on without learning anything holds what it held.
LEMMA MovesOn ==
    ASSUME RequestsSound, NEW r \in Request, NEW at, Moves(r, at), RequestSound([req[r] EXCEPT !.at = at])
    PROVE  RequestsSound'
<1>1. Goes(r, [req[r] EXCEPT !.at = at])
  BY DEF Moves, Goes
<1>2. QED
  BY <1>1, GoesOn

\* The library and the saved overlay, and requests about them.
LEMMA ListedSound ==
    ASSUME NEW seen, IsList(seen), NEW id \in Ids, NEW digest \in Uploads
    PROVE  IsList(Listed(seen, id, digest))
<1> DEFINE old == IF id \in DOMAIN seen THEN seen[id].versions \cup ({seen[id].digest} \ {digest}) ELSE {}
<1>1. old \subseteq Uploads
  BY DEF IsList
<1>2. Listed(seen, id, digest) =
         [i \in {id} \cup DOMAIN seen |-> IF i = id THEN [digest |-> digest, versions |-> old] ELSE seen[i]]
  BY DEF Listed
<1> HIDE DEF old
<1>3. QED
  BY <1>1, <1>2 DEF IsList

\* What each request takes along to its next step.
LEMMA ImportsGo ==
    ASSUME IInv, NEW r \in Request,
           \/ Upload(r) \/ ImportURL(r) \/ Snapshot(r) \/ SaveImport(r)
           \/ KeepAddress(r) \/ AddressFails(r) \/ RemoveSnapshot(r)
    PROVE  RequestsSound'
<1> DEFINE q == req[r]
<1> USE DEF IInv
<1>1. RequestSound(q)
  BY DEF RequestsSound
<1>2. CASE Upload(r) \/ ImportURL(r)
  <2>1. PICK id \in Ids, digest \in Uploads :
           \E before : IsList(before)
              /\ Goes(r, [at |-> "import", id |-> id, digest |-> digest, before |-> before])
    <3>1. CASE Upload(r)
      <4>1. IsList(<<>>)
        BY DEF IsList
      <4>2. QED
        BY <3>1, <4>1 DEF Upload, Ids, Uploads
    <3>2. CASE ImportURL(r)
      BY <3>2 DEF ImportURL, LibrarySound, Ids
    <3>3. QED
      BY <1>2, <3>1, <3>2
  <2>2. PICK before : /\ IsList(before)
                      /\ Goes(r, [at |-> "import", id |-> id, digest |-> digest, before |-> before])
    BY <2>1
  <2>3. RequestSound([at |-> "import", id |-> id, digest |-> digest, before |-> before])
    BY <2>2 DEF RequestSound, Importing
  <2>4. QED
    BY <2>2, <2>3, GoesOn
<1>3. CASE Snapshot(r)
  <2> DEFINE to == [at |-> "list", id |-> q.id, digest |-> q.digest, before |-> q.before, seen |-> list]
  <2>1. Goes(r, to)
    BY <1>3 DEF Snapshot
  <2>2. RequestSound(to)
    BY <1>1, <1>3 DEF Snapshot, RequestSound, Importing, LibrarySound
  <2>3. QED
    BY <2>1, <2>2, GoesOn
<1>4. CASE /\ q.at \in {"list", "address"}
           /\ Goes(r, Idle) \/ \E at \in {"address", "remove"} : Moves(r, at)
  <2>1. CASE Goes(r, Idle)
    BY <2>1, GoesOn, IdleSound
  <2>2. ASSUME NEW at \in {"address", "remove"}, Moves(r, at) PROVE RequestsSound'
    <3>1. RequestSound([q EXCEPT !.at = at])
      BY <1>1, <1>4 DEF RequestSound, Importing
    <3>2. QED
      BY <2>2, <3>1, MovesOn
  <2>3. QED
    BY <1>4, <2>1, <2>2
<1>5. CASE KeepAddress(r) \/ RemoveSnapshot(r)
  BY <1>5, GoesOn, IdleSound DEF KeepAddress, RemoveSnapshot
<1>6. QED
  BY <1>2, <1>3, <1>4, <1>5 DEF SaveImport, AddressFails

\* An edit of the overlay holds an overlay, and a valid one when it writes.
LEMMA EditsGo ==
    ASSUME IInv, NEW r \in Request, Edit(r) \/ CheckEdit(r) \/ SaveProfileOverlay(r)
    PROVE  RequestsSound'
<1> DEFINE q == req[r]
<1> USE DEF IInv
<1>1. RequestSound(q)
  BY DEF RequestsSound
<1>2. CASE Edit(r)
  <2>1. PICK o \in DOMAIN Overlays : Goes(r, [at |-> "edit", seen |-> overlay, overlay |-> o])
    BY <1>2 DEF Edit
  <2>2. RequestSound([at |-> "edit", seen |-> overlay, overlay |-> o])
    BY DEF RequestSound
  <2>3. QED
    BY <2>1, <2>2, GoesOn
<1>3. CASE CheckEdit(r) /\ Moves(r, "write") /\ ValidateProfileOverlay(Overlays[q.overlay])
  <2>1. RequestSound([q EXCEPT !.at = "write"])
    BY <1>1, <1>3 DEF CheckEdit, RequestSound, IsOverlay
  <2>2. QED
    BY <1>3, <2>1, MovesOn
<1>4. CASE Goes(r, Idle)
  BY <1>4, GoesOn, IdleSound
<1>5. QED
  BY <1>3, <1>2, <1>4 DEF CheckEdit, SaveProfileOverlay

\* An apply and a start hold a raw source, until they have answered.
LEMMA AppliesGo ==
    ASSUME IInv, NEW r \in Request,
           \/ Choose(r) \/ Compose(r) \/ Refuse(r) \/ ApplyProfile(r) \/ ApplyFails(r)
           \/ MarkApplied(r) \/ SaveMarks(r) \/ AskStart(r) \/ StartWeb(r) \/ StartFails(r)
    PROVE  RequestsSound'
<1> DEFINE q == req[r]
<1> USE DEF IInv
<1>1. RequestSound(q)
  BY DEF RequestsSound
<1>2. CASE Choose(r)
  <2>1. PICK id : Goes(r, [at |-> "choose", id |-> id, match |-> config])
    BY <1>2 DEF Choose
  <2>2. RequestSound([at |-> "choose", id |-> id, match |-> config])
    BY DEF RequestSound
  <2>3. QED
    BY <2>1, <2>2, GoesOn
<1>3. CASE Compose(r)
  <2> DEFINE to == [at |-> "apply", source |-> <<list[q.id].digest>>, overlay |-> overlay, match |-> q.match]
  <2>1. Goes(r, to)
    BY <1>3 DEF Compose
  <2>2. list[q.id].digest \in DOMAIN Contents
    BY <1>3 DEF Compose, Applicable, LibrarySound, IsList, Uploads
  <2>3. Fits(<<list[q.id].digest>>, overlay)
    BY <1>3 DEF Compose, Applicable
  <2>4. RequestSound(to)
    BY <2>2, <2>3 DEF RequestSound, IsRaw, LibrarySound, IsOverlay
  <2>5. QED
    BY <2>1, <2>4, GoesOn
<1>4. CASE ApplyProfile(r)
  <2>1. Moves(r, "mark") /\ q.at = "apply"
    BY <1>4 DEF ApplyProfile
  <2>2. RequestSound([q EXCEPT !.at = "mark"])
    BY <1>1, <2>1 DEF RequestSound
  <2>3. QED
    BY <2>1, <2>2, MovesOn
<1>5. CASE MarkApplied(r)
  <2>1. RequestSound([at |-> "marked", seen |-> list])
    BY DEF RequestSound, LibrarySound
  <2>2. QED
    BY <1>5, <2>1, GoesOn DEF MarkApplied
<1>6. CASE AskStart(r)
  <2> DEFINE to == [at |-> "start", source |-> WorkspaceSource, overlay |-> overlay, match |-> config]
  <2>1. WorkspaceSource = Absent \/ (WorkspaceSource = config.source /\ config.mode # Managed)
    BY DEF WorkspaceSource
  <2>2. RequestSound(to)
    BY <2>1 DEF RequestSound, LibrarySound, IsOverlay
  <2>3. QED
    BY <1>6, <2>2, GoesOn DEF AskStart
<1>7. CASE Goes(r, Idle)
  BY <1>7, GoesOn, IdleSound
<1>8. QED
  BY <1>2, <1>3, <1>4, <1>5, <1>6, <1>7 DEF Refuse, ApplyFails, SaveMarks, StartWeb, StartFails

-----------------------------------------------------------------------------
(* The library, and what is configured.                                    *)

LEMMA LibraryStep == IInv /\ [Next]_vars => LibrarySound'
<1> SUFFICES ASSUME IInv, [Next]_vars PROVE LibrarySound'
  OBVIOUS
<1> USE DEF IInv
<1>1. CASE Publish
  BY <1>1 DEF Publish, LibrarySound, library, desired, Uploads, IsList, IsOverlay
<1>2. CASE \E r \in Request : SaveImport(r) \/ AddressFails(r) \/ SaveMarks(r)
  <2>1. PICK r \in Request : SaveImport(r) \/ AddressFails(r) \/ SaveMarks(r)
    BY <1>2
  <2>2. RequestSound(req[r])
    BY DEF RequestsSound
  <2>3. IsList(list')
    <3>1. CASE SaveImport(r)
      BY <2>2, <3>1, ListedSound DEF SaveImport, RequestSound, Importing
    <3>2. CASE AddressFails(r)
      BY <2>2, <3>2 DEF AddressFails, RequestSound, Importing
    <3>3. CASE SaveMarks(r)
      BY <2>2, <3>3 DEF SaveMarks, RequestSound
    <3>4. QED
      BY <2>1, <3>1, <3>2, <3>3
  <2>4. UNCHANGED <<feed, files, address, overlay>> /\ mu' \in {mu, Nobody}
    BY <2>1 DEF SaveImport, AddressFails, SaveMarks, Frees, desired
  <2>5. QED
    BY <2>3, <2>4 DEF LibrarySound, IsOverlay
<1>3. CASE \E r \in Request : Snapshot(r) \/ RemoveSnapshot(r) \/ KeepAddress(r) \/ SaveProfileOverlay(r)
  <2>1. PICK r \in Request : Snapshot(r) \/ RemoveSnapshot(r) \/ KeepAddress(r) \/ SaveProfileOverlay(r)
    BY <1>3
  <2>2. RequestSound(req[r])
    BY DEF RequestsSound
  <2>3. UNCHANGED <<feed, list, mu>>
    BY <2>1 DEF Snapshot, RemoveSnapshot, KeepAddress, SaveProfileOverlay, library
  <2>4. files' \subseteq Ids \X Uploads /\ address' \in BOOLEAN
    <3>1. CASE Snapshot(r)
      <4>1. req[r].id \in Ids /\ req[r].digest \in Uploads
        BY <2>2, <3>1 DEF Snapshot, RequestSound, Importing
      <4>2. files' = files \cup {<<req[r].id, req[r].digest>>} /\ address' = address
        BY <3>1 DEF Snapshot
      <4>3. QED
        BY <4>1, <4>2 DEF LibrarySound
    <3>2. CASE ~Snapshot(r)
      BY <2>1, <3>2 DEF RemoveSnapshot, KeepAddress, SaveProfileOverlay, library, LibrarySound
    <3>3. QED
      BY <3>1, <3>2
  <2>5. IsOverlay(overlay')
    BY <2>1, <2>2 DEF Snapshot, RemoveSnapshot, KeepAddress, SaveProfileOverlay, RequestSound,
       LibrarySound, IsOverlay
  <2>6. QED
    BY <2>3, <2>4, <2>5 DEF LibrarySound, IsList
<1>4. CASE UNCHANGED <<feed, library, overlay>> /\ mu' \in {mu, Nobody} \cup Request
  BY <1>4 DEF library, LibrarySound, IsList, IsOverlay
<1>5. CASE \E r \in Request :
              \/ Upload(r) \/ ImportURL(r) \/ Edit(r) \/ CheckEdit(r) \/ Choose(r) \/ Compose(r)
              \/ Refuse(r) \/ ApplyProfile(r) \/ ApplyFails(r) \/ MarkApplied(r) \/ AskStart(r)
              \/ StartWeb(r) \/ StartFails(r)
  <2>1. UNCHANGED <<feed, library, overlay>>
    BY <1>5 DEF Upload, ImportURL, Edit, CheckEdit, Choose, Compose, Refuse, ApplyProfile, ApplyFails,
       MarkApplied, AskStart, StartWeb, StartFails
  <2>2. mu' \in {mu, Nobody} \cup Request
    BY <1>5 DEF Upload, ImportURL, Edit, CheckEdit, Choose, Compose, Refuse, ApplyProfile, ApplyFails,
       MarkApplied, AskStart, StartWeb, StartFails, Frees
  <2>3. QED
    BY <1>4, <2>1, <2>2
<1>6. CASE Stop \/ UNCHANGED vars
  BY <1>4, <1>6 DEF Stop, vars, library
<1>7. QED
  BY <1>1, <1>2, <1>3, <1>5, <1>6 DEF Next, Refresh

\* Only an apply and a start from the Web touch the configured file or its base.
LEMMA DesiredKept == [Next]_vars => \/ UNCHANGED <<config, base>>
                                    \/ \E r \in Request : ApplyProfile(r) \/ StartWeb(r)
<1> SUFFICES ASSUME [Next]_vars PROVE \/ UNCHANGED <<config, base>>
                                      \/ \E r \in Request : ApplyProfile(r) \/ StartWeb(r)
  OBVIOUS
<1>1. CASE Publish \/ Stop \/ UNCHANGED vars
  BY <1>1 DEF Publish, Stop, vars, desired
<1>2. ASSUME NEW r \in Request,
             \/ Upload(r) \/ ImportURL(r) \/ Refresh(r) \/ Snapshot(r) \/ SaveImport(r)
             \/ KeepAddress(r) \/ AddressFails(r) \/ RemoveSnapshot(r)
             \/ Edit(r) \/ CheckEdit(r) \/ SaveProfileOverlay(r)
      PROVE  UNCHANGED <<config, base>>
  BY <1>2 DEF Upload, ImportURL, Refresh, Snapshot, SaveImport, KeepAddress, AddressFails,
     RemoveSnapshot, Edit, CheckEdit, SaveProfileOverlay, desired
<1>3. ASSUME NEW r \in Request,
             \/ Choose(r) \/ Compose(r) \/ Refuse(r) \/ ApplyFails(r) \/ MarkApplied(r)
             \/ SaveMarks(r) \/ AskStart(r) \/ StartFails(r)
      PROVE  UNCHANGED <<config, base>>
  BY <1>3 DEF Choose, Compose, Refuse, ApplyFails, MarkApplied, SaveMarks, AskStart, StartFails, desired
<1>4. QED
  BY <1>1, <1>2, <1>3 DEF Next

\* What a start makes of the desired profile.
LEMMA StartRecords ==
    ASSUME IInv, NEW r \in Request, StartWeb(r)
    PROVE  /\ ConfigSound' /\ BaseSound'
           /\ \/ config'.source = config.source
              \/ {config.source, config'.source} = {Absent, <<Managed>>}
<1> DEFINE source == req[r].source
<1> DEFINE o == req[r].overlay
<1> DEFINE from == Start(source)
<1> USE DEF IInv
<1>1. /\ source = Absent \/ (source = config.source /\ config.mode # Managed)
      /\ o \in DOMAIN Overlays
  BY DEF StartWeb, RequestsSound, RequestSound
<1>2. /\ workspaceCandidate(source, o) # Refused
      /\ config' = workspaceCandidate(source, o).config /\ base' = workspaceCandidate(source, o).base
  BY DEF StartWeb
<1> HIDE DEF source, o
<1>3. CASE workspaceCandidate(source, o) = Unchanged
  <2>1. config' = config /\ base' = base
    BY <1>2, <1>3 DEF Unchanged
  <2>2. QED
    BY <2>1 DEF ConfigSound, BaseSound
<1>4. CASE /\ BaseNow.mode = Managed
           /\ workspaceCandidate(source, o) =
                 [config |-> [mode |-> Managed, source |-> Absent, overlay |-> Off,
                              file |-> [by |-> Managed, of |-> <<Managed>>]], base |-> base]
  <2>1. /\ config'.mode = Managed /\ config'.source = Absent /\ config'.overlay = Off
        /\ config'.file.by = Managed /\ base' = base
    BY <1>2, <1>4
  <2>2. ConfigSound' /\ BaseSound'
    BY <2>1, LibraryAssumption DEF ConfigSound, BaseSound, Managed
  <2>3. config.source \in {Absent, <<Managed>>}
    BY <1>4, BaseOfFile
  <2>4. QED
    BY <2>1, <2>2, <2>3
<1>5. CASE ~Unavailable(source) /\ Fits(from, o) /\ workspaceCandidate(source, o) = Materialized(from, o)
  <2>1. /\ IsRaw(from)
        /\ from = config.source \/ (from = <<Managed>> /\ config.source = Absent)
        /\ BaseNow.mode = Managed => from = <<Managed>>
    BY <1>1, <1>5, StartsRaw
  <2> HIDE DEF from
  <2>2. /\ config'.mode = "imported" /\ config'.source = from /\ config'.overlay = Effective(o)
        /\ config'.file = [by |-> "start", of |-> With(from, o)]
        /\ base' = [effective |-> [by |-> "start", of |-> With(from, o)], source |-> from, mode |-> BaseNow.mode]
    BY <1>2, <1>5 DEF Materialized
  <2>3. ConfigSound'
    <3>1. Effective(o) \in DOMAIN Overlays
      BY <1>1, LibraryAssumption DEF Effective
    <3>2. config'.file.of = With(from, Effective(o))
      BY <2>1, <2>2, WithSource
    <3>3. Effective(o) # Off => Overlays[Effective(o)].enabled /\ Fits(from, Effective(o))
      BY <1>5 DEF Effective
    <3>4. QED
      BY <2>1, <2>2, <3>1, <3>2, <3>3 DEF ConfigSound, Managed
  <2>4. BaseSound'
    <3>1. from = <<Head(With(from, o))>>
      <4>1. PICK c : from = <<c>>
        BY <2>1 DEF IsRaw
      <4>2. Head(With(from, o)) = Head(from)
        BY <2>1, WithSource
      <4>3. QED
        BY <4>1, <4>2
    <3>2. BaseNow.mode \in {Managed, "imported"}
      BY BaseOfFile
    <3>3. QED
      BY <2>1, <2>2, <3>1, <3>2 DEF BaseSound
  <2>5. QED
    BY <2>1, <2>2, <2>3, <2>4
<1>6. QED
  BY <1>2, <1>3, <1>4, <1>5, Zenon DEF workspaceCandidate

\* An apply writes what it records.
LEMMA ApplyRecords ==
    ASSUME IInv, NEW r \in Request, ApplyProfile(r)
    PROVE  ConfigSound' /\ BaseSound' /\ config'.file.by = "apply"
<1> DEFINE source == req[r].source
<1> DEFINE o == req[r].overlay
<1> USE DEF IInv
<1>1. /\ config' = [mode |-> "imported", source |-> source, overlay |-> Effective(o),
                    file |-> [by |-> "apply", of |-> With(source, o)]]
      /\ base' = base
  BY DEF ApplyProfile, Recorded
<1>2. IsRaw(source) /\ o \in DOMAIN Overlays /\ Fits(source, o)
  BY DEF ApplyProfile, RequestsSound, RequestSound
<1> HIDE DEF source, o
<1>3. Effective(o) \in DOMAIN Overlays /\ With(source, Effective(o)) = With(source, o)
  BY <1>2, WithSource, LibraryAssumption DEF Effective
<1>4. Effective(o) # Off => Overlays[Effective(o)].enabled /\ Fits(source, Effective(o))
  BY <1>2 DEF Effective
<1>5. QED
  BY <1>1, <1>2, <1>3, <1>4 DEF ConfigSound, BaseSound, Managed

-----------------------------------------------------------------------------
(* The document of the configured file.                                    *)

\* Of a raw source.
LEMMA ContentOfRaw ==
    ASSUME NEW c
    PROVE  Content(<<c>>) = Contents[c]
<1> DEFINE of == <<c>>
<1> DEFINE Run(after) ==
       after = [n \in 1..Len(of) |->
                  IF n = 1 THEN Contents[of[1]] ELSE ComposeProfileOverlay(after[n - 1], Overlays[of[n]])]
<1>1. Len(of) = 1 /\ of[1] = c
  OBVIOUS
<1>2. Run([n \in 1..1 |-> Contents[c]])
  BY <1>1
<1> DEFINE run == CHOOSE after : Run(after)
<1>3. Content(of) = run[Len(of)]
  BY DEF Content
<1>4. Run(run)
  BY <1>2
<1> HIDE DEF run, of
<1>5. run[1] = Contents[c]
  BY <1>1, <1>4
<1>6. QED
  BY <1>1, <1>3, <1>5 DEF of

\* Of a source with an overlay.
LEMMA ContentOfTwo ==
    ASSUME NEW c, NEW o
    PROVE  Content(<<c, o>>) = ComposeProfileOverlay(Contents[c], Overlays[o])
<1> DEFINE of == <<c, o>>
<1> DEFINE Run(after) ==
       after = [n \in 1..Len(of) |->
                  IF n = 1 THEN Contents[of[1]] ELSE ComposeProfileOverlay(after[n - 1], Overlays[of[n]])]
<1>1. Len(of) = 2 /\ of[1] = c /\ of[2] = o
  OBVIOUS
<1>2. Run([n \in 1..2 |-> IF n = 1 THEN Contents[c] ELSE ComposeProfileOverlay(Contents[c], Overlays[o])])
  BY <1>1
<1> DEFINE run == CHOOSE after : Run(after)
<1>3. Content(of) = run[Len(of)]
  BY DEF Content
<1>4. Run(run)
  BY <1>2
<1> HIDE DEF run, of
<1>5. run[1] = Contents[c]
  BY <1>1, <1>4
<1>6. run[2] = ComposeProfileOverlay(run[1], Overlays[o])
  BY <1>1, <1>4
<1>7. QED
  BY <1>1, <1>3, <1>5, <1>6 DEF of

\* One element after another.
LEMMA TwoOf ==
    ASSUME NEW c, NEW o
    PROVE  Append(<<c>>, o) = <<c, o>>
<1> DEFINE S == {c, o}
<1>1. <<c>> \in Seq(S) /\ <<c, o>> \in Seq(S) /\ o \in S
  OBVIOUS
<1>2. PICK s, t : s = Append(<<c>>, o) /\ t = <<c, o>>
  OBVIOUS
<1>3. Len(s) = 2 /\ s[1] = c /\ s[2] = o /\ s \in Seq(S)
  BY <1>1, <1>2
<1>4. Len(t) = 2 /\ t[1] = c /\ t[2] = o /\ t \in Seq(S)
  BY <1>1, <1>2
<1> HIDE DEF S
<1>5. s = t
  BY <1>3, <1>4
<1>6. QED
  BY <1>2, <1>5

\* What the configured file holds: the source, or what was composed from it.
LEMMA FileContent ==
    ASSUME ConfigSound, config.mode = "imported"
    PROVE  \E c \in DOMAIN Contents :
              /\ Content(config.source) = Contents[c]
              /\ config.overlay = Off => Content(config.file.of) = Contents[c]
              /\ config.overlay # Off =>
                    /\ Composable(Contents[c], Overlays[config.overlay])
                    /\ Content(config.file.of) = ComposeProfileOverlay(Contents[c], Overlays[config.overlay])
<1>1. PICK c \in DOMAIN Contents : config.source = <<c>>
  BY DEF ConfigSound, IsRaw
<1>2. Content(config.source) = Contents[c]
  BY <1>1, ContentOfRaw
<1>3. config.overlay \in DOMAIN Overlays /\ config.file.of = With(config.source, config.overlay)
  BY DEF ConfigSound
<1>4. ASSUME config.overlay = Off PROVE Content(config.file.of) = Contents[c]
  BY <1>1, <1>2, <1>3, <1>4, WithSource DEF ConfigSound
<1>5. ASSUME config.overlay # Off
      PROVE  /\ Composable(Contents[c], Overlays[config.overlay])
             /\ Content(config.file.of) = ComposeProfileOverlay(Contents[c], Overlays[config.overlay])
  <2>1. Overlays[config.overlay].enabled /\ Fits(config.source, config.overlay)
    BY <1>5 DEF ConfigSound
  <2>2. Composable(Contents[c], Overlays[config.overlay])
    BY <1>2, <1>3, <2>1, DocumentsAssumption DEF Fits, Composable
  <2>3. config.file.of = <<c, config.overlay>>
    <3>1. config.file.of = Append(<<c>>, config.overlay)
      BY <1>1, <1>3, <2>1 DEF With
    <3>2. QED
      BY <3>1, TwoOf
  <2>4. QED
    BY <2>2, <2>3, ContentOfTwo
<1>6. QED
  BY <1>2, <1>4, <1>5

-----------------------------------------------------------------------------
(* Theorems.                                                               *)

\* Init establishes the invariant.
LEMMA InitInv == Init => IInv
<1> SUFFICES ASSUME Init PROVE IInv
  OBVIOUS
<1> USE LibraryAssumption
<1>1. RequestsSound
  BY IdleSound DEF Init, RequestsSound
<1>2. LibrarySound
  <2>1. IsList(<<>>)
    BY DEF IsList
  <2>2. QED
    BY <2>1 DEF Init, LibrarySound, IsOverlay, Uploads
<1>3. ConfigSound /\ BaseSound
  BY DEF Init, ConfigSound, BaseSound, Managed
<1>4. QED
  BY <1>1, <1>2, <1>3 DEF IInv

\* Every step keeps it.
LEMMA NextInv == IInv /\ [Next]_vars => IInv'
<1> SUFFICES ASSUME IInv, [Next]_vars PROVE IInv'
  OBVIOUS
<1>1. RequestsSound'
  <2>1. CASE UNCHANGED req
    BY <2>1 DEF IInv, RequestsSound
  <2>2. CASE Publish \/ Stop \/ UNCHANGED vars
    BY <2>1, <2>2 DEF Publish, Stop, vars
  <2>3. QED
    BY <2>2, ImportsGo, EditsGo, AppliesGo DEF Next, Refresh
<1>2. LibrarySound'
  BY LibraryStep
<1>3. ConfigSound' /\ BaseSound'
  <2>1. CASE UNCHANGED <<config, base>>
    BY <2>1 DEF IInv, ConfigSound, BaseSound
  <2>2. QED
    BY <2>1, DesiredKept, StartRecords, ApplyRecords
<1>4. QED
  BY <1>1, <1>2, <1>3 DEF IInv

\* Every record that is kept, and all that a request carries on, starts from a
\* raw source, in every state of every run.
THEOREM Invariant == Spec => []IInv
BY InitInv, NextInv, PTL DEF Spec

\* Whichever of applying a source and starting from the Web wrote the configured
\* file, and whatever was imported or saved in between, it is the recorded source
\* with the recorded overlay composed into it once (applySource and
\* workspaceCandidate).
THEOREM FileIsAsRecorded == Spec => []RecordedInputs
<1>1. IInv => RecordedInputs
  <2> SUFFICES ASSUME IInv PROVE RecordedInputs
    OBVIOUS
  <2>1. TypeOK
    BY DEF IInv, LibrarySound, ConfigSound, RequestsSound, TypeOK, IsList, IsOverlay, Ids, Uploads, Digests
  <2>2. ASSUME NEW source, IsRaw(source) PROVE Len(source) = 1
    BY <2>2 DEF IsRaw
  <2>3. Len(base.source) <= 1
    <3>1. Len(<<>>) = 0
      OBVIOUS
    <3>2. NoBase.source = <<>>
      BY DEF NoBase, Absent
    <3>3. base = NoBase \/ IsRaw(base.source)
      BY DEF IInv, BaseSound
    <3>4. Len(base.source) = 0 \/ Len(base.source) = 1
      <4>1. CASE base = NoBase
        BY <3>1, <3>2, <4>1
      <4>2. CASE IsRaw(base.source)
        BY <2>2, <4>2
      <4>3. QED
        BY <3>3, <4>1, <4>2
    <3>5. ASSUME NEW n, n = 0 \/ n = 1 PROVE n <= 1
      BY <3>5
    <3>6. QED
      BY <3>4, <3>5, Zenon
  <2>4. QED
    BY <2>1, <2>2, <2>3 DEF IInv, ConfigSound, RecordedInputs
<1>2. QED
  BY <1>1, Invariant, PTL

\* For every document and every enabled overlay that is composed with it: if all a
\* document refers to is there, and none of its lists serves as candidates and as
\* providers at once, then all the result refers to is there, after any number of
\* patches (ComposeProfileOverlay).
THEOREM CompositionResolves ==
    \A raw, o : Composable(raw, o) /\ Resolves(raw) /\ FieldsApart(raw) => Resolves(ComposeProfileOverlay(raw, o))
BY ComposedResolves

\* And the result keeps the document's rules in order, its entries in place, and what
\* the overlay does not name, but for groups that share a list with a patched one.
THEOREM CompositionKeeps ==
    \A raw, o : Composable(raw, o) => Kept(raw, o, ComposeProfileOverlay(raw, o))
BY ComposedKeeps

\* So the configured file never refers to what is not there, if its source does not:
\* nothing is configured that was not composed from a source it fits (applySource,
\* workspaceCandidate).
THEOREM ReferencesResolve == Spec => []OverlayResolved
<1>1. IInv => OverlayResolved
  <2> SUFFICES ASSUME IInv, config.mode = "imported", Resolves(Content(config.source)),
                      FieldsApart(Content(config.source))
               PROVE  Resolves(Content(config.file.of))
    BY DEF OverlayResolved
  <2>1. QED
    BY FileContent, ComposedResolves DEF IInv
<1>2. QED
  BY <1>1, Invariant, PTL

\* And the overlay that was composed into it has changed what it names and nothing
\* else of the source.
THEOREM RestIsKept == Spec => []SourceKept
<1>1. IInv => SourceKept
  <2> SUFFICES ASSUME IInv, config.overlay # Off
               PROVE  Kept(Content(config.source), Overlays[config.overlay], Content(config.file.of))
    BY DEF SourceKept
  <2>1. config.mode = "imported"
    BY DEF IInv, ConfigSound
  <2>2. QED
    BY <2>1, FileContent, ComposedKeeps DEF IInv
<1>2. QED
  BY <1>1, Invariant, PTL

\* No refresh, import or edit moves the selected version, and no start replaces it
\* by another: only an apply selects, or a start that takes the managed base or
\* returns to it.
THEOREM SelectionIsKept == Spec => SelectionStays
<1>1. IInv /\ [Next]_vars =>
         [\/ config'.source = config.source
          \/ config'.file.by = "apply"
          \/ {config.source, config'.source} = {Absent, <<Managed>>}]_vars
  BY DesiredKept, StartRecords, ApplyRecords
<1>2. QED
  BY <1>1, Invariant, PTL DEF Spec, SelectionStays
=============================================================================
