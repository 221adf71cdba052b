-------------------------- MODULE DeviceRoutingProofs --------------------------
(***************************************************************************)
(* Proofs about DeviceRouting for every set of documents, sources and      *)
(* settings and every number of changes and faults.                        *)
(***************************************************************************)
EXTENDS DeviceRouting, FiniteSetTheorems, TLAPS

-----------------------------------------------------------------------------
(* Numbers and lists.                                                      *)

\* Induction: a set of numbers with zero and every successor is that of all numbers.
LEMMA Induction ==
    ASSUME NEW T, T \subseteq Nat, 0 \in T, \A n \in T : n + 1 \in T
    PROVE  T = Nat
<1>1. SUFFICES ASSUME NEW k \in Nat, k \notin T PROVE FALSE
  OBVIOUS
<1> DEFINE A == T \cap 0..k
<1> DEFINE next == [n \in A |-> n + 1]
<1>2. IsFiniteSet(A)
  <2>1. IsFiniteSet(0..k)
    BY FS_Interval
  <2>2. A \in SUBSET (0..k)
    OBVIOUS
  <2>3. QED
    BY <2>1, <2>2, FS_Subset
<1>3. next \in Injection(A, A)
  <2>1. ASSUME NEW n \in A PROVE n + 1 \in A
    BY <1>1, <2>1
  <2>2. next \in [A -> A]
    BY <2>1
  <2>3. \A m, n \in A : next[m] = next[n] => m = n
    OBVIOUS
  <2>4. QED
    BY <2>2, <2>3 DEF Injection, IsInjective
<1>4. next \in Surjection(A, A)
  BY <1>2, <1>3, FS_Injection
<1>5. 0 \in A
  OBVIOUS
<1>6. PICK n \in A : next[n] = 0
  BY <1>4, <1>5 DEF Surjection
<1>7. QED
  BY <1>6

\* What is where in two and in three lists one after the other.
LEMMA Joined2 ==
    ASSUME NEW S, NEW a \in Seq(S), NEW b \in Seq(S)
    PROVE  /\ a \o b \in Seq(S) /\ Len(a \o b) = Len(a) + Len(b) /\ Len(a) \in Nat /\ Len(b) \in Nat
           /\ \A i \in 1 .. (Len(a) + Len(b)) : (a \o b)[i] = IF i <= Len(a) THEN a[i] ELSE b[i - Len(a)]
OBVIOUS

LEMMA Joined3 ==
    ASSUME NEW S, NEW a \in Seq(S), NEW b \in Seq(S), NEW c \in Seq(S)
    PROVE  /\ a \o b \o c \in Seq(S)
           /\ DOMAIN (a \o b \o c) = 1 .. (Len(a) + Len(b) + Len(c))
           /\ \A i \in DOMAIN (a \o b \o c) :
                (a \o b \o c)[i] = IF i <= Len(a) THEN a[i]
                                   ELSE IF i <= Len(a) + Len(b) THEN b[i - Len(a)]
                                   ELSE c[i - (Len(a) + Len(b))]
<1> DEFINE ab == a \o b
<1>1. /\ ab \in Seq(S) /\ Len(ab) = Len(a) + Len(b) /\ Len(a) \in Nat /\ Len(b) \in Nat /\ Len(c) \in Nat
      /\ \A i \in 1 .. (Len(a) + Len(b)) : ab[i] = IF i <= Len(a) THEN a[i] ELSE b[i - Len(a)]
  BY Joined2
<1> HIDE DEF ab
<1>3. /\ ab \o c \in Seq(S) /\ Len(ab \o c) = Len(ab) + Len(c)
      /\ \A i \in 1 .. (Len(ab) + Len(c)) : (ab \o c)[i] = IF i <= Len(ab) THEN ab[i] ELSE c[i - Len(ab)]
  <2>1. ab \in Seq(S)
    BY <1>1
  <2>2. QED
    BY ONLY <2>1, c \in Seq(S), Joined2
<1> DEFINE abc == ab \o c
<1> HIDE DEF abc
<1>4. /\ abc \in Seq(S) /\ Len(abc) = Len(a) + Len(b) + Len(c)
      /\ \A i \in 1 .. (Len(a) + Len(b) + Len(c)) : abc[i] = IF i <= Len(ab) THEN ab[i] ELSE c[i - Len(ab)]
  BY <1>1, <1>3 DEF abc
<1>5. DOMAIN abc = 1 .. (Len(a) + Len(b) + Len(c))
  BY <1>1, <1>4
<1>6. \A i \in 1 .. (Len(a) + Len(b) + Len(c)) :
        abc[i] = IF i <= Len(a) THEN a[i]
                                   ELSE IF i <= Len(a) + Len(b) THEN b[i - Len(a)]
                                   ELSE c[i - (Len(a) + Len(b))]
  BY <1>1, <1>4
<1>7. QED
  BY <1>4, <1>5, <1>6 DEF ab, abc

\* Where a position in short lists is.
LEMMA ShortSum ==
    ASSUME NEW a \in {0, 1}, NEW b \in {0, 1}, NEW c \in {0, 1}, NEW i \in 1 .. (a + b + c), ~(i <= a)
    PROVE  /\ i <= a + b => i - a = 1 /\ i = a + 1 /\ b = 1
           /\ ~(i <= a + b) => i - (a + b) = 1 /\ i = a + b + 1 /\ c = 1
OBVIOUS

\* A list of one member or none.
LEMMA Short ==
    ASSUME NEW S, NEW a \in Seq(S), DOMAIN a \subseteq {1}
    PROVE  Len(a) \in {0, 1} /\ DOMAIN a = 1 .. Len(a)
<1>1. DOMAIN a = 1 .. Len(a) /\ Len(a) \in Nat
  OBVIOUS
<1>2. 2 \notin DOMAIN a
  OBVIOUS
<1>3. QED
  BY <1>1, <1>2

\* The members of two lists.
LEMMA JoinedMembers ==
    ASSUME NEW S, NEW a \in Seq(S), NEW b \in Seq(S)
    PROVE  ToSet(a \o b) = ToSet(a) \cup ToSet(b)
<1> DEFINE ab == a \o b
<1>1. /\ Len(ab) = Len(a) + Len(b) /\ Len(a) \in Nat /\ Len(b) \in Nat
      /\ \A i \in 1 .. (Len(a) + Len(b)) : ab[i] = IF i <= Len(a) THEN a[i] ELSE b[i - Len(a)]
  BY Joined2
<1>2. DOMAIN ab = 1 .. (Len(a) + Len(b)) /\ DOMAIN a = 1 .. Len(a) /\ DOMAIN b = 1 .. Len(b)
  BY <1>1
<1> HIDE DEF ab
<1>3. ASSUME NEW i \in DOMAIN ab PROVE ab[i] \in ToSet(a) \cup ToSet(b)
  <2>1. CASE i <= Len(a)
    BY <1>1, <1>2, <2>1 DEF ToSet
  <2>2. CASE ~(i <= Len(a))
    <3>1. i - Len(a) \in DOMAIN b /\ ab[i] = b[i - Len(a)]
      BY <1>1, <1>2, <2>2
    <3>2. QED
      BY <3>1 DEF ToSet
  <2>3. QED
    BY <2>1, <2>2
<1>4. ASSUME NEW i \in DOMAIN a PROVE a[i] \in ToSet(ab)
  <2>1. i \in DOMAIN ab /\ ab[i] = a[i]
    BY <1>1, <1>2
  <2>2. QED
    BY <2>1 DEF ToSet
<1>5. ASSUME NEW i \in DOMAIN b PROVE b[i] \in ToSet(ab)
  <2>1. i + Len(a) \in DOMAIN ab /\ ~(i + Len(a) <= Len(a)) /\ i + Len(a) - Len(a) = i
    BY <1>1, <1>2
  <2>2. ab[i + Len(a)] = b[i]
    BY <1>1, <1>2, <2>1
  <2>3. QED
    BY <2>1, <2>2 DEF ToSet
<1>6. QED
  BY <1>3, <1>4, <1>5 DEF ToSet, ab

\* Lists one after the other, by adding one at a time.
AddsUp(S, ss, f) ==
    /\ \A i \in 0 .. Len(ss) : f[i] \in Seq(S)
    /\ f[0] = <<>>
    /\ \A i \in 1 .. Len(ss) : f[i] = f[i - 1] \o ss[i]
    /\ FlattenSeq(ss) = f[Len(ss)]

LEMMA Flattening ==
    ASSUME NEW S, NEW ss \in Seq(Seq(S))
    PROVE  \E f : AddsUp(S, ss, f)
<1> DEFINE n == Len(ss)
           Runs(f, k) == f = [i \in 1 .. k |-> IF i = 1 THEN ss[i] ELSE f[i - 1] \o ss[i]]
           T == {k \in Nat : k < n => \E f : Runs(f, k + 1)}
<1>1. n \in Nat /\ \A i \in 1 .. n : ss[i] \in Seq(S)
  OBVIOUS
<1>2. CASE n = 0
  <2>1. FlattenSeq(ss) = <<>> /\ ss = <<>>
    BY <1>2 DEF FlattenSeq
  <2> DEFINE f == [i \in {0} |-> <<>>]
  <2>2. f[0] = <<>> /\ <<>> \in Seq(S) /\ 0 .. n = {0} /\ 1 .. n = {}
    BY <1>2
  <2>3. \A i \in 0 .. n : f[i] \in Seq(S)
    BY <2>2
  <2> HIDE DEF f
  <2>4. QED
    BY <1>2, <2>1, <2>2, <2>3 DEF AddsUp
<1>3. CASE n # 0
  <2> HIDE DEF Runs, n
  <2>0. \A k : k \in T <=> k \in Nat /\ (k < n => \E f : Runs(f, k + 1))
    OBVIOUS
  <2> HIDE DEF T
  <2>1. 0 \in T
    <3> DEFINE f == [i \in 1 .. 1 |-> ss[i]]
    <3>1. f = [i \in 1 .. 1 |-> IF i = 1 THEN ss[i] ELSE f[i - 1] \o ss[i]]
      OBVIOUS
    <3> HIDE DEF f
    <3>2. Runs(f, 0 + 1)
      BY <3>1 DEF Runs
    <3>3. QED
      BY <2>0, <3>2
  <2>2. \A k \in T : k + 1 \in T
    <3> SUFFICES ASSUME NEW k \in T PROVE k + 1 \in T
      OBVIOUS
    <3>0. k \in Nat /\ k + 1 \in Nat
      BY <2>0
    <3>a. SUFFICES ASSUME k + 1 < n PROVE \E f : Runs(f, k + 1 + 1)
      BY <2>0, <3>0
    <3>1. PICK f : Runs(f, k + 1)
      <4>1. k < n
        BY <1>1, <3>0, <3>a
      <4>2. QED
        BY <2>0, <3>0, <4>1
    <3> DEFINE g == [i \in 1 .. (k + 1 + 1) |-> IF i = k + 1 + 1 THEN f[k + 1] \o ss[k + 1 + 1] ELSE f[i]]
    <3>2a. \A i \in 1 .. (k + 1) : f[i] = IF i = 1 THEN ss[i] ELSE f[i - 1] \o ss[i]
      BY <3>1 DEF Runs
    <3>2b. \A i \in 1 .. (k + 1) : i \in 1 .. (k + 1 + 1) /\ i # k + 1 + 1
      BY <3>0
    <3>2. \A i \in 1 .. (k + 1) : g[i] = f[i]
      BY <3>2b
    <3>2e. k + 1 + 1 \in 1 .. (k + 1 + 1)
      BY <3>0
    <3>2c. g[k + 1 + 1] = f[k + 1] \o ss[k + 1 + 1]
      BY <3>2e
    <3>2d. DOMAIN g = 1 .. (k + 1 + 1) /\ g = [i \in 1 .. (k + 1 + 1) |-> g[i]]
      OBVIOUS
    <3> HIDE DEF g
    <3>3. ASSUME NEW i \in 1 .. (k + 1 + 1) PROVE g[i] = IF i = 1 THEN ss[i] ELSE g[i - 1] \o ss[i]
      <4>1. CASE i = k + 1 + 1
        <5>1. i # 1 /\ i - 1 = k + 1 /\ k + 1 \in 1 .. (k + 1)
          BY <3>0, <4>1
        <5>2. g[i] = f[k + 1] \o ss[i] /\ g[k + 1] = f[k + 1]
          BY <4>1, <5>1, <3>2, <3>2c
        <5>3. QED
          BY <5>1, <5>2
      <4>2. CASE i # k + 1 + 1
        <5>1. i \in 1 .. (k + 1)
          BY <3>0, <4>2
        <5>2. CASE i = 1
          BY <3>2, <3>2a, <5>1, <5>2
        <5>3. CASE i # 1
          <6>1. i - 1 \in 1 .. (k + 1)
            BY <3>0, <5>1, <5>3
          <6>2. g[i] = f[i] /\ g[i - 1] = f[i - 1] /\ f[i] = f[i - 1] \o ss[i]
            BY <3>2, <3>2a, <5>1, <5>3, <6>1
          <6>3. QED
            BY <5>3, <6>2
        <5>4. QED
          BY <5>2, <5>3
      <4>3. QED
        BY <4>1, <4>2
    <3>4. Runs(g, k + 1 + 1)
      BY <3>3, <3>2d DEF Runs
    <3>5. QED
      BY <3>4
  <2>3. T = Nat
    <3>1. T \subseteq Nat
      BY <2>0
    <3>2. QED
      BY ONLY <2>1, <2>2, <3>1, Induction
  <2>4. \E f : Runs(f, n - 1 + 1)
    <3>1. n - 1 \in Nat /\ n - 1 < n
      BY <1>1, <1>3
    <3>2. QED
      BY <2>0, <2>3, <3>1
  <2>4a. n - 1 + 1 = n
    BY <1>1
  <2>5. \E f : Runs(f, n)
    BY <2>4, <2>4a
  <2> DEFINE flat == CHOOSE f : Runs(f, n)
  <2>6. Runs(flat, n)
    BY <2>5
  <2>7. FlattenSeq(ss) = flat[n]
    BY <1>3 DEF FlattenSeq, Runs, n
  <2> HIDE DEF flat
  <2> DEFINE h == [i \in 0 .. n |-> IF i = 0 THEN <<>> ELSE flat[i]]
  <2>8. \A i \in 1 .. n : flat[i] = IF i = 1 THEN ss[i] ELSE flat[i - 1] \o ss[i]
    BY <2>6 DEF Runs
  <2>9. h[0] = <<>> /\ \A i \in 1 .. n : h[i] = flat[i]
    BY <1>1
  <2> HIDE DEF h
  <2> DEFINE U == {k \in Nat : k <= n => h[k] \in Seq(S)}
  <2>10. \A i \in 1 .. n : h[i] = h[i - 1] \o ss[i]
    <3> SUFFICES ASSUME NEW i \in 1 .. n PROVE h[i] = h[i - 1] \o ss[i]
      OBVIOUS
    <3>1. CASE i = 1
      <4>1. ss[1] \in Seq(S) /\ h[1] = ss[1] /\ i - 1 = 0
        BY <1>1, <2>8, <2>9, <3>1
      <4>2. <<>> \o ss[1] = ss[1]
        BY <4>1
      <4>3. QED
        BY <2>9, <3>1, <4>1, <4>2
    <3>2. CASE i # 1
      <4>1. i - 1 \in 1 .. n
        BY <1>1, <3>2
      <4>2. QED
        BY <2>8, <2>9, <3>2, <4>1
    <3>3. QED
      BY <3>1, <3>2
  <2>10a. \A k : k \in U <=> k \in Nat /\ (k <= n => h[k] \in Seq(S))
    OBVIOUS
  <2> HIDE DEF U
  <2>11. U = Nat
    <3>1. 0 \in U
      <4>1. <<>> \in Seq(S) /\ 0 \in Nat
        OBVIOUS
      <4>2. QED
        BY <2>9, <2>10a, <4>1
    <3>2. ASSUME NEW k \in U PROVE k + 1 \in U
      <4>0. SUFFICES ASSUME k \in Nat, k + 1 <= n PROVE h[k + 1] \in Seq(S)
        BY <2>10a
      <4>1. k + 1 \in 1 .. n /\ k + 1 - 1 = k /\ k <= n
        BY <1>1, <4>0
      <4>2. h[k + 1] = h[k] \o ss[k + 1] /\ ss[k + 1] \in Seq(S)
        <5>1. \A i \in 1 .. n : i - 1 = k => h[i] = h[k] \o ss[i]
          BY <2>10
        <5>2. PICK m \in 1 .. n : m = k + 1 /\ m - 1 = k
          BY <4>0, <4>1
        <5>3. h[m] = h[k] \o ss[m] /\ ss[m] \in Seq(S)
          BY <1>1, <5>1, <5>2
        <5>4. QED
          BY <5>2, <5>3
      <4>3. h[k] \in Seq(S)
        BY <2>10a, <4>0, <4>1
      <4>4. QED
        BY <4>2, <4>3
    <3>3. U \subseteq Nat
      BY <2>10a
    <3>4. QED
      BY ONLY <3>1, <3>2, <3>3, Induction
  <2>12. \A i \in 0 .. n : h[i] \in Seq(S)
    BY <1>1, <2>10a, <2>11
  <2>13. FlattenSeq(ss) = h[n]
    BY <1>1, <1>3, <2>7, <2>9
  <2>14. QED
    BY <2>9, <2>10, <2>12, <2>13 DEF n, AddsUp
<1>4. QED
  BY <1>2, <1>3

\* What is in lists one after the other is in one of them.
LEMMA FlattenedMembers ==
    ASSUME NEW S, NEW ss \in Seq(Seq(S))
    PROVE  /\ FlattenSeq(ss) \in Seq(S)
           /\ ToSet(FlattenSeq(ss)) = UNION {ToSet(ss[i]) : i \in DOMAIN ss}
<1> DEFINE n == Len(ss)
<1>1. n \in Nat /\ DOMAIN ss = 1 .. n /\ \A i \in 1 .. n : ss[i] \in Seq(S)
  OBVIOUS
<1>0. PICK f : AddsUp(S, ss, f)
  BY Flattening
<1>2. /\ \A i \in 0 .. n : f[i] \in Seq(S)
      /\ f[0] = <<>>
      /\ \A i \in 1 .. n : f[i] = f[i - 1] \o ss[i]
      /\ FlattenSeq(ss) = f[n]
  BY <1>0 DEF AddsUp
<1> DEFINE All(k) == UNION {ToSet(ss[i]) : i \in 1 .. k}
           U == {k \in Nat : k <= n => ToSet(f[k]) = All(k)}
<1> HIDE DEF n
<1>3. \A k : k \in U <=> k \in Nat /\ (k <= n => ToSet(f[k]) = All(k))
  OBVIOUS
<1>4. 0 \in U
  <2>1. 0 \in Nat /\ All(0) = {} /\ ToSet(<<>>) = {}
    BY DEF ToSet
  <2>2. QED
    BY <1>2, <1>3, <2>1
<1>5. ASSUME NEW k \in U PROVE k + 1 \in U
  <2> HIDE DEF U, All
  <2>0. k \in Nat /\ k + 1 \in Nat
    BY <1>3
  <2>1. SUFFICES ASSUME k + 1 <= n PROVE ToSet(f[k + 1]) = All(k + 1)
    BY <1>3, <2>0
  <2>2. PICK m \in 1 .. n : m = k + 1 /\ m - 1 = k
    BY <1>1, <2>0, <2>1
  <2>3. k \in 0 .. n /\ k <= n
    BY <1>1, <2>0, <2>1
  <2>4. f[m] = f[k] \o ss[m] /\ ss[m] \in Seq(S) /\ f[k] \in Seq(S)
    BY <1>1, <1>2, <2>2, <2>3
  <2>5. ToSet(f[m]) = ToSet(f[k]) \cup ToSet(ss[m])
    BY <2>4, JoinedMembers
  <2>6. ToSet(f[k]) = All(k)
    BY <1>3, <2>0, <2>3
  <2>7. All(k + 1) = All(k) \cup ToSet(ss[m])
    <3>1. \A i : i \in 1 .. (k + 1) <=> i \in 1 .. k \/ i = m
      BY <2>0, <2>2
    <3>2. QED
      BY <3>1 DEF All
  <2>8. QED
    BY <2>2, <2>5, <2>6, <2>7
<1>6. U = Nat
  <2>1. U \subseteq Nat
    BY <1>3
  <2> HIDE DEF U
  <2>2. QED
    BY ONLY <1>4, <1>5, <2>1, Induction
<1>7. ToSet(f[n]) = All(n) /\ f[n] \in Seq(S)
  <2> HIDE DEF U, All
  <2>1. n \in U /\ n <= n /\ n \in 0 .. n
    BY ONLY <1>1, <1>6
  <2>2. QED
    BY <1>2, <1>3, <2>1
<1>8. QED
  BY <1>1, <1>2, <1>7

\* The members of a list that are kept are those that pass.
LEMMA KeptMembers ==
    ASSUME NEW S, NEW list \in Seq(S), NEW P
    PROVE  LET kept == FlattenSeq([i \in DOMAIN list |-> IF list[i] \in P THEN <<list[i]>> ELSE <<>>])
           IN  kept \in Seq(S) /\ ToSet(kept) = ToSet(list) \cap P
<1> DEFINE ss == [i \in DOMAIN list |-> IF list[i] \in P THEN <<list[i]>> ELSE <<>>]
<1>1. ss \in Seq(Seq(S))
  <2>1. ASSUME NEW i \in DOMAIN list PROVE ss[i] \in Seq(S)
    <3>1. list[i] \in S
      OBVIOUS
    <3>2. <<list[i]>> \in Seq(S) /\ <<>> \in Seq(S)
      BY <3>1
    <3>3. QED
      BY <3>2
  <2>2. DOMAIN list = 1 .. Len(list) /\ Len(list) \in Nat
    OBVIOUS
  <2>3. ss \in [1 .. Len(list) -> Seq(S)]
    BY <2>1, <2>2
  <2> HIDE DEF ss
  <2>4. QED
    BY <2>2, <2>3
<1>2. DOMAIN ss = DOMAIN list /\ \A i \in DOMAIN list : ToSet(ss[i]) = {list[i]} \cap P
  BY DEF ToSet
<1> HIDE DEF ss
<1>3. FlattenSeq(ss) \in Seq(S) /\ ToSet(FlattenSeq(ss)) = UNION {ToSet(ss[i]) : i \in DOMAIN ss}
  BY <1>1, FlattenedMembers
<1>4. UNION {ToSet(ss[i]) : i \in DOMAIN ss} = ToSet(list) \cap P
  BY <1>2 DEF ToSet
<1>5. QED
  BY <1>3, <1>4 DEF ss

-----------------------------------------------------------------------------
(* Names.                                                                  *)

\* What is managed or built in is told apart.
LEMMA Names ==
    /\ DIRECT # REJECT /\ PASS \notin {DIRECT, REJECT} /\ Tailnet \notin {DIRECT, REJECT, PASS}
    /\ ExitGroup \notin {DIRECT, REJECT, PASS, Tailnet}
    /\ MacGlobal \notin {DIRECT, REJECT, PASS, Tailnet, ExitGroup}
    /\ MacTCP \notin {DIRECT, REJECT, PASS, Tailnet, ExitGroup, MacGlobal}
    /\ MacUDP \notin {DIRECT, REJECT, PASS, Tailnet, ExitGroup, MacGlobal, MacTCP}
    /\ none \notin {DIRECT, REJECT, PASS, Tailnet, ExitGroup, MacGlobal, MacTCP, MacUDP}
    /\ \A x \in {DIRECT, REJECT, PASS, Tailnet, ExitGroup, MacGlobal, MacTCP, MacUDP, none} :
          x \notin Node /\ x \notin Device \X Slot
<1>1. DOMAIN Managed = 1 .. 9
  BY DEF Managed
<1>2. /\ Managed[1] = DIRECT /\ Managed[2] = REJECT /\ Managed[3] = PASS /\ Managed[4] = Tailnet /\ Managed[5] = ExitGroup
      /\ Managed[6] = MacGlobal /\ Managed[7] = MacTCP /\ Managed[8] = MacUDP /\ Managed[9] = none
  BY DEF Managed
<1>3. \A i, j \in 1 .. 9 : i # j => Managed[i] # Managed[j]
  BY <1>1, RoutingAssumption DEF IsInjective
<1>4. \A i \in 1 .. 9 : Managed[i] \notin Node /\ Managed[i] \notin Device \X Slot
  BY <1>1, RoutingAssumption DEF ToSet
<1>5. QED
  BY <1>2, <1>3, <1>4

-----------------------------------------------------------------------------
(* The change of the Mac's mode.                                           *)

Saved(g) == IF g \in DOMAIN cache THEN cache[g] ELSE none

\* A live engine has for each group the saved choice, if it offers that.
LiveSound ==
    engine # NoEngine =>
        /\ DOMAIN selected = DOMAIN engine.groups
        /\ \A g \in DOMAIN selected : selected[g] = Restore(engine.groups[g], Saved(g))

\* What a list of choices says of the groups as they were: each is in it once,
\* with the choice it had.
Recalls(list, before) ==
    \A i \in DOMAIN list :
        /\ list[i].group \in DOMAIN before => list[i].from = before[list[i].group]
        /\ \A j \in DOMAIN list : list[i].group = list[j].group => i = j

Apart(todo, done) == \A i \in DOMAIN todo, j \in DOMAIN done : todo[i].group # done[j].group

Done(list, g) == \E i \in DOMAIN list : list[i].group = g

SwitchFields == {"at", "mode", "todo", "done", "before", "on", "faults"}

\* As long as nothing was lost, a group the change has not touched, or has put
\* back, would come up as it was in the engine the change was asked of.
SwitchSound ==
    switch # Idle =>
        /\ DOMAIN switch = SwitchFields /\ switch.at # "idle"
        /\ \E S : switch.todo \in Seq(S) /\ switch.done \in Seq(S)
        /\ Recalls(switch.todo, switch.before) /\ Recalls(switch.done, switch.before)
        /\ Apart(switch.todo, switch.done)
        /\ DOMAIN switch.before \subseteq MacGroups \cap DOMAIN switch.on.groups
        /\ switch.on # NoEngine
        /\ \A g \in DOMAIN switch.before :
              /\ Restore(switch.on.groups[g], switch.before[g]) = switch.before[g]
              /\ ~switch.faults /\ ~Done(switch.done, g) =>
                    Restore(switch.on.groups[g], Saved(g)) = switch.before[g]

ModeInv == LiveSound /\ SwitchSound

-----------------------------------------------------------------------------
LEMMA RestoreTwice ==
    ASSUME NEW members, NEW saved
    PROVE  Restore(members, Restore(members, saved)) = Restore(members, saved)
BY DEF Restore

\* What a choice made does to the saved ones.
LEMMA PutSaves ==
    ASSUME NEW g, NEW member, Put(g, member)
    PROVE  /\ DOMAIN cache' = DOMAIN cache \cup {g}
           /\ \A h : Saved(h)' = IF h = g THEN member ELSE Saved(h)
<1> DEFINE one == [x \in {g} |-> member]
<1>1. cache' = Over(one, cache)
  BY DEF Put
<1>2. DOMAIN one = {g} /\ one[g] = member
  OBVIOUS
<1> HIDE DEF one
<1>3. DOMAIN cache' = DOMAIN cache \cup {g}
  BY <1>1, <1>2 DEF Over
<1>4. ASSUME NEW h PROVE Saved(h)' = IF h = g THEN member ELSE Saved(h)
  BY <1>1, <1>2, <1>3 DEF Over, Saved
<1>5. QED
  BY <1>3, <1>4

LEMMA PutLive ==
    ASSUME LiveSound, NEW g, NEW member, Offers(g, member), Put(g, member), engine' = engine
    PROVE  LiveSound'
<1>1. selected' = [selected EXCEPT ![g] = member] /\ g \in DOMAIN selected /\ member \in ToSet(engine.groups[g])
  BY DEF Put, Offers
<1>2. DOMAIN selected' = DOMAIN engine'.groups /\ DOMAIN selected' = DOMAIN selected
  BY <1>1 DEF LiveSound, Offers
<1>3. ASSUME NEW h \in DOMAIN selected' PROVE selected'[h] = Restore(engine'.groups[h], Saved(h)')
  <2>1. Saved(h)' = IF h = g THEN member ELSE Saved(h)
    BY PutSaves
  <2>2. CASE h = g
    BY <1>1, <2>1, <2>2 DEF Restore
  <2>3. CASE h # g
    <3>1. selected'[h] = selected[h] /\ h \in DOMAIN selected
      BY <1>1, <1>2, <2>3
    <3>2. selected[h] = Restore(engine.groups[h], Saved(h))
      BY <3>1 DEF LiveSound, Offers
    <3>3. QED
      BY <2>1, <2>3, <3>1, <3>2
  <2>4. QED
    BY <2>2, <2>3
<1>4. QED
  BY <1>2, <1>3 DEF LiveSound

\* An engine that starts has what was saved.
LEMMA LaunchLive ==
    ASSUME NEW e, Launch(e), cache' = cache
    PROVE  LiveSound'
BY DEF Launch, LiveSound, Saved

-----------------------------------------------------------------------------
(* The steps of the change.                                                *)

\* Choices of other groups leave it alone.
LEMMA SwitchStays ==
    ASSUME SwitchSound, switch' = switch, \A g \in MacGroups : Saved(g)' = Saved(g)
    PROVE  SwitchSound'
BY DEF SwitchSound

\* The parts of a change after one of its parts was changed.
LEMMA SwitchTakes ==
    ASSUME DOMAIN switch = SwitchFields,
           switch' = [switch EXCEPT !.todo = Tail(@), !.done = <<Now>> \o @]
    PROVE  /\ DOMAIN switch' = SwitchFields
           /\ switch'.at = switch.at /\ switch'.before = switch.before /\ switch'.on = switch.on
           /\ switch'.faults = switch.faults
           /\ switch'.todo = Tail(switch.todo) /\ switch'.done = <<Now>> \o switch.done
BY DEF SwitchFields

LEMMA SwitchTurns ==
    ASSUME DOMAIN switch = SwitchFields, switch' = [switch EXCEPT !.at = "undo"]
    PROVE  /\ DOMAIN switch' = SwitchFields
           /\ switch'.at = "undo" /\ switch'.before = switch.before /\ switch'.on = switch.on
           /\ switch'.faults = switch.faults
           /\ switch'.todo = switch.todo /\ switch'.done = switch.done
BY DEF SwitchFields

LEMMA SwitchLoses ==
    ASSUME DOMAIN switch = SwitchFields, switch' = [switch EXCEPT !.at = "undo", !.faults = TRUE]
    PROVE  /\ DOMAIN switch' = SwitchFields
           /\ switch'.at = "undo" /\ switch'.before = switch.before /\ switch'.on = switch.on
           /\ switch'.faults
           /\ switch'.todo = switch.todo /\ switch'.done = switch.done
BY DEF SwitchFields

LEMMA SwitchUndoes ==
    ASSUME DOMAIN switch = SwitchFields, switch' = [switch EXCEPT !.done = Tail(@)]
    PROVE  /\ DOMAIN switch' = SwitchFields
           /\ switch'.at = switch.at /\ switch'.before = switch.before /\ switch'.on = switch.on
           /\ switch'.faults = switch.faults
           /\ switch'.todo = switch.todo /\ switch'.done = Tail(switch.done)
BY DEF SwitchFields

LEMMA SwitchSkips ==
    ASSUME DOMAIN switch = SwitchFields, switch' = [switch EXCEPT !.done = Tail(@), !.faults = TRUE]
    PROVE  /\ DOMAIN switch' = SwitchFields
           /\ switch'.at = switch.at /\ switch'.before = switch.before /\ switch'.on = switch.on
           /\ switch'.faults
           /\ switch'.todo = switch.todo /\ switch'.done = Tail(switch.done)
BY DEF SwitchFields

\* The rest of a list says no more than the list.
LEMMA RestRecalls ==
    ASSUME NEW S, NEW list \in Seq(S), list # <<>>, NEW before, Recalls(list, before)
    PROVE  /\ Tail(list) \in Seq(S) /\ Recalls(Tail(list), before)
           /\ \A i \in DOMAIN Tail(list) : i + 1 \in DOMAIN list /\ Tail(list)[i] = list[i + 1] /\ i + 1 # 1
           /\ \A g : Done(list, g) <=> (g = list[1].group \/ Done(Tail(list), g))
           /\ ~Done(Tail(list), list[1].group)
<1>1. Tail(list) \in Seq(S) /\ Len(Tail(list)) = Len(list) - 1 /\ Len(list) \in Nat \ {0}
  OBVIOUS
<1>2. DOMAIN list = 1 .. Len(list) /\ DOMAIN Tail(list) = 1 .. (Len(list) - 1)
  BY <1>1
<1>3. ASSUME NEW i \in DOMAIN Tail(list)
      PROVE  i \in Nat /\ i # 0 /\ i + 1 \in DOMAIN list /\ Tail(list)[i] = list[i + 1] /\ i + 1 # 1
  BY <1>1, <1>2
<1>4. ASSUME NEW i \in DOMAIN list, i # 1
      PROVE  i - 1 \in DOMAIN Tail(list) /\ Tail(list)[i - 1] = list[i]
  <2>1. i - 1 \in DOMAIN Tail(list)
    BY <1>1, <1>2, <1>4
  <2>2. i - 1 + 1 = i
    BY <1>2
  <2>3. QED
    BY <1>3, <2>1, <2>2
<1>5. Recalls(Tail(list), before)
  <2>1. ASSUME NEW i \in DOMAIN Tail(list), NEW j \in DOMAIN Tail(list), Tail(list)[i].group = Tail(list)[j].group
        PROVE  i = j
    <3>1. i + 1 = j + 1
      BY <1>3, <2>1 DEF Recalls
    <3>2. QED
      BY <1>3, <3>1
  <2>2. QED
    BY <1>3, <2>1 DEF Recalls
<1>6. 1 \in DOMAIN list
  BY <1>1, <1>2
<1>7. ~Done(Tail(list), list[1].group)
  BY <1>3, <1>6 DEF Done, Recalls
<1>8. \A g : Done(list, g) <=> (g = list[1].group \/ Done(Tail(list), g))
  BY <1>3, <1>4, <1>6 DEF Done
<1>9. QED
  BY <1>1, <1>3, <1>5, <1>7, <1>8

\* A choice that the list does not have yet can be put in front of it.
LEMMA MoreRecalls ==
    ASSUME NEW S, NEW list \in Seq(S), NEW c \in S, NEW before, Recalls(list, before), ~Done(list, c.group),
           c.group \in DOMAIN before => c.from = before[c.group]
    PROVE  /\ <<c>> \o list \in Seq(S) /\ Recalls(<<c>> \o list, before)
           /\ \A i \in DOMAIN (<<c>> \o list) :
                 (<<c>> \o list)[i] = c \/ \E j \in DOMAIN list : (<<c>> \o list)[i] = list[j]
           /\ \A g : Done(<<c>> \o list, g) <=> (g = c.group \/ Done(list, g))
<1> DEFINE more == <<c>> \o list
<1>1. more \in Seq(S) /\ Len(more) = Len(list) + 1 /\ Len(list) \in Nat
  OBVIOUS
<1>2. DOMAIN list = 1 .. Len(list) /\ DOMAIN more = 1 .. (Len(list) + 1)
  BY <1>1
<1>3. more[1] = c /\ \A i \in DOMAIN list : i + 1 \in DOMAIN more /\ more[i + 1] = list[i]
  BY <1>1, <1>2
<1> HIDE DEF more
<1>4. ASSUME NEW i \in DOMAIN more, i # 1
      PROVE  i - 1 \in DOMAIN list /\ more[i] = list[i - 1]
  <2>1. i - 1 \in DOMAIN list
    BY <1>1, <1>2, <1>4
  <2>2. i - 1 + 1 = i
    BY <1>2
  <2>3. QED
    BY <1>3, <2>1, <2>2
<1>5. Recalls(more, before)
  <2>1. ASSUME NEW i \in DOMAIN more PROVE more[i].group \in DOMAIN before => more[i].from = before[more[i].group]
    BY <1>3, <1>4 DEF Recalls
  <2>2. ASSUME NEW i \in DOMAIN more, NEW j \in DOMAIN more, more[i].group = more[j].group
        PROVE  i = j
    <3>1. CASE i # 1 /\ j # 1
      <4>1. i - 1 = j - 1
        BY <1>4, <2>2, <3>1 DEF Recalls
      <4>2. QED
        BY <1>2, <4>1
    <3>2. CASE i = 1 \/ j = 1
      BY <1>3, <1>4, <2>2, <3>2 DEF Done
    <3>3. QED
      BY <3>1, <3>2
  <2>3. QED
    BY <2>1, <2>2 DEF Recalls
<1>6. \A g : Done(more, g) <=> (g = c.group \/ Done(list, g))
  <2>1. 1 \in DOMAIN more
    BY <1>1, <1>2
  <2>2. QED
    BY <1>3, <1>4, <2>1 DEF Done
<1>7. \A i \in DOMAIN more : more[i] = c \/ \E j \in DOMAIN list : more[i] = list[j]
  BY <1>3, <1>4
<1>8. QED
  BY <1>1, <1>5, <1>6, <1>7 DEF more

LEMMA ApplyOneSound ==
    ASSUME SwitchSound, ApplyOne
    PROVE  SwitchSound'
<1>1. /\ switch # Idle /\ DOMAIN switch = SwitchFields /\ switch.at = "apply" /\ switch.todo # <<>>
      /\ switch' = [switch EXCEPT !.todo = Tail(@), !.done = <<Now>> \o @]
      /\ Put(Now.group, Now.to)
  BY DEF ApplyOne, SwitchSound, Idle
<1>2. PICK S : switch.todo \in Seq(S) /\ switch.done \in Seq(S)
  BY <1>1 DEF SwitchSound
<1>3. Recalls(switch.todo, switch.before) /\ Recalls(switch.done, switch.before)
      /\ Apart(switch.todo, switch.done)
  BY <1>1 DEF SwitchSound
<1>4. Now = switch.todo[1] /\ Now \in S /\ 1 \in DOMAIN switch.todo
  BY <1>1, <1>2 DEF Now
<1>5. ~Done(switch.done, Now.group)
  BY <1>3, <1>4 DEF Done, Apart
<1>6. Now.group \in DOMAIN switch.before => Now.from = switch.before[Now.group]
  BY <1>3, <1>4 DEF Recalls
<1> DEFINE todo == Tail(switch.todo)
           done == <<Now>> \o switch.done
<1>7. /\ todo \in Seq(S) /\ Recalls(todo, switch.before) /\ ~Done(todo, Now.group)
      /\ \A i \in DOMAIN todo : i + 1 \in DOMAIN switch.todo /\ todo[i] = switch.todo[i + 1]
  BY <1>1, <1>2, <1>3, <1>4, RestRecalls
<1>8. /\ done \in Seq(S) /\ Recalls(done, switch.before)
      /\ \A i \in DOMAIN done : done[i] = Now \/ \E j \in DOMAIN switch.done : done[i] = switch.done[j]
      /\ \A g : Done(done, g) <=> (g = Now.group \/ Done(switch.done, g))
  BY <1>2, <1>3, <1>4, <1>5, <1>6, MoreRecalls
<1> HIDE DEF todo, done
<1>9. Apart(todo, done)
  BY <1>3, <1>7, <1>8 DEF Apart, Done
<1>10. /\ DOMAIN switch' = SwitchFields /\ switch'.at = "apply" /\ switch'.before = switch.before
       /\ switch'.on = switch.on /\ switch'.faults = switch.faults
       /\ switch'.todo = todo /\ switch'.done = done
  BY <1>1, SwitchTakes DEF todo, done
<1>11. ASSUME NEW g \in DOMAIN switch.before
       PROVE  /\ Restore(switch.on.groups[g], switch.before[g]) = switch.before[g]
              /\ ~switch.faults /\ ~Done(done, g) =>
                    Restore(switch.on.groups[g], Saved(g)') = switch.before[g]
  <2>1. g # Now.group => Saved(g)' = Saved(g)
    BY <1>1, PutSaves
  <2>2. QED
    BY <1>1, <1>8, <2>1 DEF SwitchSound
<1>12. DOMAIN switch.before \subseteq MacGroups \cap DOMAIN switch.on.groups /\ switch.on # NoEngine
  BY <1>1 DEF SwitchSound
<1>13. QED
  BY <1>7, <1>8, <1>9, <1>10, <1>11, <1>12 DEF SwitchSound

LEMMA UndoOneSound ==
    ASSUME SwitchSound, UndoOne
    PROVE  SwitchSound'
<1> DEFINE c == Head(switch.done)
<1>1. /\ switch # Idle /\ DOMAIN switch = SwitchFields /\ switch.at = "undo" /\ switch.done # <<>>
      /\ switch' = [switch EXCEPT !.done = Tail(@)]
      /\ Put(c.group, c.from)
  BY DEF UndoOne, SwitchSound, Idle
<1>2. PICK S : switch.todo \in Seq(S) /\ switch.done \in Seq(S)
  BY <1>1 DEF SwitchSound
<1>3. Recalls(switch.todo, switch.before) /\ Recalls(switch.done, switch.before)
      /\ Apart(switch.todo, switch.done) /\ DOMAIN switch.before \subseteq MacGroups \cap DOMAIN switch.on.groups /\ switch.on # NoEngine
  BY <1>1 DEF SwitchSound
<1>4. c = switch.done[1] /\ 1 \in DOMAIN switch.done
  BY <1>1, <1>2
<1>5. c.group \in DOMAIN switch.before => c.from = switch.before[c.group]
  BY <1>3, <1>4 DEF Recalls
<1> DEFINE done == Tail(switch.done)
<1>6. /\ done \in Seq(S) /\ Recalls(done, switch.before)
      /\ \A i \in DOMAIN done : i + 1 \in DOMAIN switch.done /\ done[i] = switch.done[i + 1]
      /\ \A g : Done(switch.done, g) <=> (g = c.group \/ Done(done, g))
  BY <1>1, <1>2, <1>3, <1>4, RestRecalls
<1>7. /\ DOMAIN switch' = SwitchFields /\ switch'.at = "undo" /\ switch'.before = switch.before
      /\ switch'.on = switch.on /\ switch'.faults = switch.faults
      /\ switch'.todo = switch.todo /\ switch'.done = done
  BY <1>1, SwitchUndoes
<1> HIDE DEF c, done
<1>8. Apart(switch.todo, done)
  BY <1>3, <1>6 DEF Apart
<1>9. ASSUME NEW g \in DOMAIN switch.before
      PROVE  /\ Restore(switch.on.groups[g], switch.before[g]) = switch.before[g]
             /\ ~switch.faults /\ ~Done(done, g) =>
                   Restore(switch.on.groups[g], Saved(g)') = switch.before[g]
  <2>1. Saved(g)' = IF g = c.group THEN c.from ELSE Saved(g)
    BY <1>1, PutSaves
  <2>2. Restore(switch.on.groups[g], switch.before[g]) = switch.before[g]
    BY <1>1 DEF SwitchSound
  <2>3. CASE g = c.group
    BY <1>5, <2>1, <2>2, <2>3
  <2>4. CASE g # c.group
    BY <1>1, <1>6, <2>1, <2>2, <2>4 DEF SwitchSound
  <2>5. QED
    BY <2>3, <2>4
<1>10. QED
  BY <1>2, <1>3, <1>6, <1>7, <1>8, <1>9 DEF SwitchSound

\* A call that fails turns the change back and touches nothing saved.
LEMMA TurnSound ==
    ASSUME SwitchSound, switch # Idle, cache' = cache, switch' = [switch EXCEPT !.at = "undo"]
    PROVE  SwitchSound'
<1>1. /\ DOMAIN switch' = SwitchFields
      /\ switch'.at = "undo" /\ switch'.before = switch.before /\ switch'.on = switch.on
      /\ switch'.faults = switch.faults
      /\ switch'.todo = switch.todo /\ switch'.done = switch.done
  BY SwitchTurns DEF SwitchSound
<1>2. \A g : Saved(g)' = Saved(g)
  BY DEF Saved
<1>3. QED
  BY <1>1, <1>2 DEF SwitchSound

LEMMA ReplyLostSound ==
    ASSUME SwitchSound, ReplyLost
    PROVE  SwitchSound'
<1>1. switch # Idle /\ switch' = [switch EXCEPT !.at = "undo", !.faults = TRUE]
  BY DEF ReplyLost, Idle
<1>2. /\ DOMAIN switch' = SwitchFields
      /\ switch'.at = "undo" /\ switch'.before = switch.before /\ switch'.on = switch.on
      /\ switch'.faults
      /\ switch'.todo = switch.todo /\ switch'.done = switch.done
  BY <1>1, SwitchLoses DEF SwitchSound
<1>3. QED
  BY <1>1, <1>2 DEF SwitchSound

LEMMA UndoFailsSound ==
    ASSUME SwitchSound, UndoFails
    PROVE  SwitchSound'
<1>1. switch # Idle /\ switch.at = "undo" /\ switch.done # <<>>
      /\ switch' = [switch EXCEPT !.done = Tail(@), !.faults = TRUE]
  BY DEF UndoFails, Idle
<1> DEFINE done == Tail(switch.done)
<1>2. /\ DOMAIN switch' = SwitchFields
      /\ switch'.at = "undo" /\ switch'.before = switch.before /\ switch'.on = switch.on
      /\ switch'.faults
      /\ switch'.todo = switch.todo /\ switch'.done = done
  BY <1>1, SwitchSkips DEF SwitchSound
<1>3. PICK S : switch.todo \in Seq(S) /\ switch.done \in Seq(S)
  BY <1>1 DEF SwitchSound
<1>4. /\ done \in Seq(S) /\ Recalls(done, switch.before)
      /\ \A i \in DOMAIN done : i + 1 \in DOMAIN switch.done /\ done[i] = switch.done[i + 1]
  BY <1>1, <1>3, RestRecalls DEF SwitchSound
<1> HIDE DEF done
<1>5. Apart(switch.todo, done)
  BY <1>1, <1>4 DEF Apart, SwitchSound
<1>6. QED
  BY <1>1, <1>2, <1>3, <1>4, <1>5 DEF SwitchSound

\* A change has at most one choice for each of the Mac's groups.
LEMMA ChangesRecall ==
    ASSUME NEW mode, NEW policy, NEW health, NEW before, DOMAIN before \subseteq DOMAIN selected,
           \A g \in DOMAIN before : before[g] = selected[g]
    PROVE  /\ \E S : Changes(mode, policy, health) \in Seq(S)
           /\ Recalls(Changes(mode, policy, health), before)
<1> DEFINE Change(g, to) == IF selected[g] = to THEN <<>> ELSE <<[group |-> g, from |-> selected[g], to |-> to]>>
<1>1. PICK tcp, udp : Changes(mode, policy, health)
                      = (IF policy = none THEN <<>> ELSE Change(MacGlobal, policy))
                        \o Change(MacTCP, tcp) \o Change(MacUDP, udp)
  BY DEF Changes
<1> DEFINE all == IF policy = none THEN <<>> ELSE Change(MacGlobal, policy)
           one == Change(MacTCP, tcp)
           two == Change(MacUDP, udp)
<1> DEFINE S == {[group |-> g, from |-> selected[g], to |-> to] : g \in MacGroups, to \in {policy, tcp, udp}}
<1> DEFINE Says(list, g) == /\ list \in Seq(S) /\ DOMAIN list \subseteq {1}
                           /\ \A i \in DOMAIN list : list[i].group = g /\ list[i].from = selected[g]
<1>2. Says(all, MacGlobal) /\ Says(one, MacTCP) /\ Says(two, MacUDP)
  <2>1. ASSUME NEW g \in MacGroups, NEW to \in {policy, tcp, udp} PROVE Says(Change(g, to), g)
    <3>1. [group |-> g, from |-> selected[g], to |-> to] \in S
      OBVIOUS
    <3>2. CASE selected[g] = to
      BY <3>2
    <3>3. CASE selected[g] # to
      <4>1. Change(g, to) = <<[group |-> g, from |-> selected[g], to |-> to]>>
        BY <3>3
      <4> HIDE DEF Change, S
      <4>2. QED
        BY <3>1, <4>1
    <3>4. QED
      BY <3>2, <3>3
  <2>2. Says(<<>>, MacGlobal)
    OBVIOUS
  <2>3. QED
    BY <2>1, <2>2 DEF MacGroups
<1> HIDE DEF all, one, two, S
<1>3. /\ Len(all) \in {0, 1} /\ Len(one) \in {0, 1} /\ Len(two) \in {0, 1}
      /\ DOMAIN all = 1 .. Len(all) /\ DOMAIN one = 1 .. Len(one) /\ DOMAIN two = 1 .. Len(two)
  BY <1>2, Short
<1> DEFINE list == all \o one \o two
<1>4. list \in Seq(S) /\ DOMAIN list = 1 .. (Len(all) + Len(one) + Len(two))
  <2>1. all \in Seq(S) /\ one \in Seq(S) /\ two \in Seq(S)
    BY <1>2
  <2>2. QED
    BY ONLY <2>1, Joined3
<1>5. \A i \in DOMAIN list :
        \/ i \in DOMAIN all /\ list[i] = all[1] /\ i = 1
        \/ 1 \in DOMAIN one /\ list[i] = one[1] /\ i = Len(all) + 1
        \/ 1 \in DOMAIN two /\ list[i] = two[1] /\ i = Len(all) + Len(one) + 1
  <2>1. /\ all \in Seq(S) /\ one \in Seq(S) /\ two \in Seq(S)
        /\ Len(all) \in {0, 1} /\ Len(one) \in {0, 1} /\ Len(two) \in {0, 1}
    BY <1>2, <1>3
  <2>2. \A i \in DOMAIN list : list[i] = IF i <= Len(all) THEN all[i]
                                         ELSE IF i <= Len(all) + Len(one) THEN one[i - Len(all)]
                                         ELSE two[i - (Len(all) + Len(one))]
    BY ONLY <2>1, Joined3
  <2> HIDE DEF list
  <2>3. ASSUME NEW i \in DOMAIN list
        PROVE  \/ i \in DOMAIN all /\ list[i] = all[1] /\ i = 1
               \/ 1 \in DOMAIN one /\ list[i] = one[1] /\ i = Len(all) + 1
               \/ 1 \in DOMAIN two /\ list[i] = two[1] /\ i = Len(all) + Len(one) + 1
    <3>1. i \in 1 .. (Len(all) + Len(one) + Len(two))
      BY <1>4
    <3>2. CASE i <= Len(all)
      <4>1. i = 1 /\ i \in DOMAIN all
        BY <1>3, <2>1, <3>1, <3>2
      <4>2. QED
        BY <2>2, <3>2, <4>1
    <3>3. CASE ~(i <= Len(all)) /\ i <= Len(all) + Len(one)
      <4>1. i - Len(all) = 1 /\ i = Len(all) + 1 /\ Len(one) = 1
        <5>1. PICK a \in {0, 1}, b \in {0, 1}, c \in {0, 1} : a = Len(all) /\ b = Len(one) /\ c = Len(two)
          BY <2>1
        <5>2. i \in 1 .. (a + b + c) /\ ~(i <= a) /\ i <= a + b
          BY <3>1, <3>3, <5>1
        <5>3. i - a = 1 /\ i = a + 1 /\ b = 1
          BY ONLY <5>2, ShortSum, a \in {0, 1}, b \in {0, 1}, c \in {0, 1}
        <5>4. QED
          BY <5>1, <5>3
      <4>2. 1 \in DOMAIN one
        BY <1>3, <4>1
      <4>3. QED
        BY <2>2, <3>3, <4>1, <4>2
    <3>4. CASE ~(i <= Len(all)) /\ ~(i <= Len(all) + Len(one))
      <4>1. i - (Len(all) + Len(one)) = 1 /\ i = Len(all) + Len(one) + 1 /\ Len(two) = 1
        <5>1. PICK a \in {0, 1}, b \in {0, 1}, c \in {0, 1} : a = Len(all) /\ b = Len(one) /\ c = Len(two)
          BY <2>1
        <5>2. i \in 1 .. (a + b + c) /\ ~(i <= a) /\ ~(i <= a + b)
          BY <3>1, <3>4, <5>1
        <5>3. i - (a + b) = 1 /\ i = a + b + 1 /\ c = 1
          BY ONLY <5>2, ShortSum, a \in {0, 1}, b \in {0, 1}, c \in {0, 1}
        <5>4. QED
          BY <5>1, <5>3
      <4>2. 1 \in DOMAIN two
        BY <1>3, <4>1
      <4>3. QED
        BY <2>2, <3>4, <4>1, <4>2
    <3>5. QED
      BY <3>2, <3>3, <3>4
  <2>4. QED
    BY <2>3
<1> HIDE DEF list
<1>6. \A i \in DOMAIN list :
        \/ list[i].group = MacGlobal /\ i = 1
        \/ list[i].group = MacTCP /\ i = Len(all) + 1
        \/ list[i].group = MacUDP /\ i = Len(all) + Len(one) + 1
  BY <1>2, <1>3, <1>5
<1>7. \A i \in DOMAIN list : list[i].from = selected[list[i].group]
  BY <1>2, <1>3, <1>5
<1>8. Recalls(list, before)
  BY <1>6, <1>7, Names DEF Recalls
<1>9. QED
  BY <1>1, <1>4, <1>8 DEF list, all, one, two

LEMMA AskModeSound ==
    ASSUME LiveSound, NEW mode, NEW policy, NEW health, AskMode(mode, policy, health)
    PROVE  SwitchSound'
<1> DEFINE before == [g \in MacGroups \cap DOMAIN selected |-> selected[g]]
           list == Changes(mode, policy, health)
<1>1. /\ switch' = [at |-> "apply", mode |-> mode, todo |-> list, done |-> <<>>,
                    before |-> before, on |-> engine, faults |-> FALSE]
      /\ cache' = cache /\ engine # NoEngine
  BY DEF AskMode, NoEngine
<1>2. DOMAIN before = MacGroups \cap DOMAIN selected /\ \A g \in DOMAIN before : before[g] = selected[g]
  OBVIOUS
<1>3. PICK S : list \in Seq(S)
  BY <1>2, ChangesRecall
<1>4. Recalls(list, before)
  BY <1>2, ChangesRecall
<1> HIDE DEF before, list
<1>5. /\ DOMAIN switch' = SwitchFields /\ switch'.at = "apply" /\ switch'.todo = list /\ switch'.done = <<>>
      /\ switch'.before = before /\ switch'.on = engine
  BY <1>1 DEF SwitchFields
<1>5a. DOMAIN before \subseteq DOMAIN engine.groups
  BY <1>1, <1>2 DEF LiveSound
<1>6. Recalls(<<>>, before) /\ Apart(list, <<>>) /\ <<>> \in Seq(S)
  BY DEF Recalls, Apart
<1>7. ASSUME NEW g \in DOMAIN before
      PROVE  /\ Restore(engine.groups[g], before[g]) = before[g]
             /\ Restore(engine.groups[g], Saved(g)') = before[g]
  <2>1. selected[g] = Restore(engine.groups[g], Saved(g))
    BY <1>1, <1>2 DEF LiveSound
  <2>2. Saved(g)' = Saved(g)
    BY <1>1 DEF Saved
  <2>3. QED
    BY <1>2, <2>1, <2>2, RestoreTwice
<1>8. QED
  BY <1>1, <1>2, <1>3, <1>4, <1>5, <1>5a, <1>6, <1>7 DEF SwitchSound

-----------------------------------------------------------------------------
(* Every step.                                                             *)

LEMMA ModeInit == Init => ModeInv
BY DEF Init, ModeInv, LiveSound, SwitchSound

\* What changes neither the choices nor the change of the mode.
LEMMA ModeStays ==
    ASSUME ModeInv, switch' = switch, cache' = cache,
           \/ engine' = engine /\ selected' = selected
           \/ engine' = NoEngine
           \/ \E e : Launch(e)
    PROVE  ModeInv'
<1>1. \A g : Saved(g)' = Saved(g)
  BY DEF Saved
<1>2. SwitchSound'
  BY <1>1, SwitchStays DEF ModeInv
<1>3. LiveSound'
  <2>1. CASE engine' = engine /\ selected' = selected
    BY <1>1, <2>1 DEF ModeInv, LiveSound
  <2>2. CASE engine' = NoEngine
    BY <2>2 DEF LiveSound, NoEngine
  <2>3. CASE \E e : Launch(e)
    BY <2>3, LaunchLive
  <2>4. QED
    BY <2>1, <2>2, <2>3
<1>4. QED
  BY <1>2, <1>3 DEF ModeInv

LEMMA SelectMode ==
    ASSUME ModeInv, NEW g, NEW member, Select(g, member)
    PROVE  ModeInv'
<1>1. g \notin MacGroups /\ Offers(g, member) /\ Put(g, member) /\ engine' = engine /\ switch' = switch
  BY DEF Select
<1>2. LiveSound'
  BY <1>1, PutLive DEF ModeInv
<1>3. \A h \in MacGroups : Saved(h)' = Saved(h)
  BY <1>1, PutSaves
<1>4. QED
  BY <1>1, <1>2, <1>3, SwitchStays DEF ModeInv

LEMMA ChangeSteps ==
    ASSUME ModeInv,
           \/ \E mode \in {"rule", "direct", "global"}, policy \in Node \cup {ExitGroup, none}, health \in BOOLEAN :
                 AskMode(mode, policy, health)
           \/ ApplyOne \/ ApplyFails \/ ReplyLost \/ Verify \/ VerifyFails \/ UndoOne \/ UndoFails \/ Failed
    PROVE  ModeInv'
<1> USE DEF ModeInv
<1>1. CASE \E mode \in {"rule", "direct", "global"}, policy \in Node \cup {ExitGroup, none}, health \in BOOLEAN :
             AskMode(mode, policy, health)
  <2>1. PICK mode, policy, health : AskMode(mode, policy, health)
    BY <1>1
  <2>2. SwitchSound'
    BY <2>1, AskModeSound
  <2>3. LiveSound'
    BY <2>1 DEF AskMode, LiveSound, Saved
  <2>4. QED
    BY <2>2, <2>3
<1>2. CASE ApplyOne
  <2>1. SwitchSound'
    BY <1>2, ApplyOneSound
  <2>2. LiveSound'
    BY <1>2, PutLive DEF ApplyOne
  <2>3. QED
    BY <2>1, <2>2
<1>3. CASE ReplyLost
  <2>1. SwitchSound'
    BY <1>3, ReplyLostSound
  <2>2. LiveSound'
    BY <1>3, PutLive DEF ReplyLost
  <2>3. QED
    BY <2>1, <2>2
<1>4. CASE UndoOne
  <2>1. SwitchSound'
    BY <1>4, UndoOneSound
  <2>2. LiveSound'
    BY <1>4, PutLive DEF UndoOne
  <2>3. QED
    BY <2>1, <2>2
<1>5. CASE ApplyFails \/ Verify \/ VerifyFails \/ UndoFails \/ Failed
  <2>1. cache' = cache /\ engine' = engine /\ selected' = selected
    BY <1>5 DEF ApplyFails, Verify, VerifyFails, UndoFails, Failed
  <2>2. LiveSound'
    BY <2>1 DEF LiveSound, Saved
  <2>3. CASE switch # Idle /\ switch' = [switch EXCEPT !.at = "undo"]
    BY <2>1, <2>2, <2>3, TurnSound
  <2>4. CASE UndoFails
    BY <2>2, <2>4, UndoFailsSound
  <2>5. CASE switch' = Idle
    BY <2>2, <2>5 DEF SwitchSound
  <2>6. QED
    BY <1>5, <2>3, <2>4, <2>5 DEF ApplyFails, Verify, VerifyFails, Failed, Idle
<1>6. QED
  BY <1>1, <1>2, <1>3, <1>4, <1>5

LEMMA ModeNext == ModeInv /\ [Next]_vars => ModeInv'
<1> SUFFICES ASSUME ModeInv, [Next]_vars PROVE ModeInv'
  OBVIOUS
<1>1. CASE \E d \in DOMAIN Documents : Edit(d)
  BY <1>1, ModeStays DEF Edit
<1>2. CASE \E s \in DOMAIN Sources : ChangeSource(s)
  BY <1>2, ModeStays DEF ChangeSource
<1>3. CASE \E n \in DOMAIN Nets : ChangeNet(n)
  BY <1>3, ModeStays DEF ChangeNet
<1>4. CASE \E late \in BOOLEAN : Prepare(late) \/ Start(late)
  BY <1>4, ModeStays DEF Prepare, Start
<1>5. CASE Stop \/ PreparedDies
  BY <1>5, ModeStays DEF Stop, PreparedDies
<1>6. CASE \E g \in DOMAIN selected : \E m \in ToSet(engine.groups[g]) : Select(g, m)
  BY <1>6, SelectMode
<1>7. CASE \/ \E mode \in {"rule", "direct", "global"}, policy \in Node \cup {ExitGroup, none}, health \in BOOLEAN :
                 AskMode(mode, policy, health)
           \/ ApplyOne \/ ApplyFails \/ ReplyLost \/ Verify \/ VerifyFails \/ UndoOne \/ UndoFails \/ Failed
  BY <1>7, ChangeSteps
<1>8. CASE UNCHANGED vars
  BY <1>8, ModeStays DEF vars
<1>9. QED
  BY <1>1, <1>2, <1>3, <1>4, <1>5, <1>6, <1>7, <1>8 DEF Next

THEOREM ModeInvariant == Spec => []ModeInv
BY ModeInit, ModeNext, PTL DEF Spec

\* A request for a mode of the Mac ends with the mode or with its groups as they
\* were (SetLocalRouting), for every number of faults, choices and restarts of
\* the engine in the middle of it.
THEOREM ModeIsWhole == Spec => SwitchAllOrNothing
<1>1. ModeInv /\ [Next]_vars
      => [(switch # Idle /\ switch' = Idle /\ ~switch.faults /\ engine = switch.on)
            => \/ switch.todo = <<>> /\ Mode(selected) = switch.mode
               \/ \A g \in DOMAIN switch.before : selected[g] = switch.before[g]]_vars
  <2> SUFFICES ASSUME ModeInv, Next, switch # Idle, switch' = Idle, ~switch.faults, engine = switch.on,
                      ~(switch.todo = <<>> /\ Mode(selected) = switch.mode),
                      NEW g \in DOMAIN switch.before
               PROVE  selected[g] = switch.before[g]
    OBVIOUS
  <2>1. DOMAIN switch = SwitchFields /\ Idle.at = "idle" /\ DOMAIN Idle = {"at"}
    BY DEF ModeInv, SwitchSound, Idle
  <2>2. DOMAIN switch' # SwitchFields /\ switch' # switch
    BY <2>1 DEF SwitchFields, Idle
  <2>3. switch.done = <<>>
    <3>1. \A x : ~(Edit(x) \/ ChangeSource(x) \/ ChangeNet(x) \/ Prepare(x) \/ Start(x) \/ Stop \/ PreparedDies)
      BY <2>2 DEF Edit, ChangeSource, ChangeNet, Prepare, Start, Stop, PreparedDies
    <3>2. \A h, m : ~Select(h, m)
      BY <2>2 DEF Select
    <3>3. \A mode, policy, health : ~AskMode(mode, policy, health)
      BY DEF AskMode
    <3>4. ~(ApplyOne \/ ApplyFails \/ ReplyLost \/ VerifyFails \/ UndoOne \/ UndoFails)
      BY <2>1, <2>2 DEF ApplyOne, ApplyFails, ReplyLost, VerifyFails, UndoOne, UndoFails
    <3>5. ~Verify
      BY <2>1, <2>2 DEF Verify
    <3>6. Failed
      BY <3>1, <3>2, <3>3, <3>4, <3>5 DEF Next
    <3>7. QED
      BY <3>6 DEF Failed
  <2>4. Restore(engine.groups[g], Saved(g)) = switch.before[g]
    BY <2>3 DEF ModeInv, SwitchSound, Done
  <2>5. g \in DOMAIN selected /\ selected[g] = Restore(engine.groups[g], Saved(g))
    BY DEF ModeInv, SwitchSound, LiveSound
  <2>6. QED
    BY <2>4, <2>5
<1>2. QED
  BY <1>1, ModeInvariant, PTL DEF SwitchAllOrNothing, Spec

-----------------------------------------------------------------------------
(* The selectors of a compilation.                                         *)

LEMMA ProfileParts ==
    ASSUME NEW p \in EgressProfile
    PROVE  /\ p.defaults \in Seq(Named) /\ p.rules \in Seq(Override) /\ p.unsupported \in {"", "pass", "reject"}
           /\ \A i \in DOMAIN p.rules : p.rules[i] \in Override
<1>1. p.defaults \in Seq(Named) /\ p.rules \in Seq(Override) /\ p.unsupported \in {"", "pass", "reject"}
  BY DEF EgressProfile
<1>2. ASSUME NEW r \in Seq(Override) PROVE \A i \in DOMAIN r : r[i] \in Override
  OBVIOUS
<1>3. QED
  BY <1>1, <1>2

\* A document is a document after its templates were filled in.
LEMMA ProfileShape ==
    ASSUME NEW policy, IsDocument(policy), ValidPolicySet(policy), NEW name \in DOMAIN policy.profiles
    PROVE  Profile(policy, name) \in EgressProfile
<1> DEFINE p == policy.profiles[name]
           t == policy.templates[p.template]
<1>1. p \in EgressProfile /\ (p.template = "" \/ p.template \in DOMAIN policy.templates)
  BY DEF IsDocument, ValidPolicySet
<1>2. CASE p.template = ""
  BY <1>1, <1>2 DEF Profile
<1>3. CASE p.template # ""
  <2>1. t \in EgressTemplate
    BY <1>1, <1>3 DEF IsDocument
  <2>2. t.rules \o p.rules \in Seq(Override)
    <3>1. t.rules \in Seq(Override)
      BY <2>1 DEF EgressTemplate
    <3>2. p.rules \in Seq(Override)
      BY <1>1 DEF EgressProfile
    <3> HIDE DEF t, p
    <3>3. QED
      BY <3>1, <3>2
  <2> DEFINE defaults == IF p.defaults = <<>> THEN t.defaults ELSE p.defaults
             unsupported == IF p.unsupported = "" THEN t.unsupported ELSE p.unsupported
             rules == t.rules \o p.rules
  <2>3. defaults \in Seq(Named) /\ unsupported \in {"", "pass", "reject"}
    BY <1>1, <2>1 DEF EgressProfile, EgressTemplate
  <2>4. Profile(policy, name) = [p EXCEPT !.defaults = defaults, !.unsupported = unsupported, !.rules = rules]
    BY <1>3 DEF Profile
  <2> HIDE DEF p, defaults, unsupported, rules
  <2>5. [p EXCEPT !.defaults = defaults, !.unsupported = unsupported, !.rules = rules] \in EgressProfile
    BY <1>1, <2>2, <2>3 DEF EgressProfile, rules
  <2>6. QED
    BY <2>4, <2>5
<1>4. QED
  BY <1>2, <1>3

\* The candidates of every slot are a list of names.
LEMMA SlotShape ==
    ASSUME NEW policy, IsDocument(policy), ValidPolicySet(policy), NEW d, d.profile \in DOMAIN policy.profiles
    PROVE  \A s \in DOMAIN SlotCandidates(policy, d) : s \in Slot /\ SlotCandidates(policy, d)[s] \in Seq(Named)
<1> DEFINE profile == Profile(policy, d.profile)
           rules == profile.rules
<1>1. profile \in EgressProfile
  BY ProfileShape
<1> HIDE DEF profile
<1>2. (\A i \in DOMAIN rules : rules[i] \in Override) /\ profile.defaults \in Seq(Named)
  BY <1>1, ProfileParts
<1>3. ASSUME NEW s \in {"default"} \cup {rules[i].id : i \in DOMAIN rules}
      PROVE  s \in Slot /\ (s # "default" => rules[CHOOSE i \in DOMAIN rules : rules[i].id = s].policies \in Seq(Named))
  <2>1. CASE s = "default"
    BY <2>1, RoutingAssumption
  <2>2. CASE s # "default"
    <3>1. \E i \in DOMAIN rules : rules[i].id = s
      BY <2>2
    <3> DEFINE k == CHOOSE i \in DOMAIN rules : rules[i].id = s
    <3>2. k \in DOMAIN rules /\ rules[k].id = s
      BY <3>1
    <3> HIDE DEF k
    <3>3. rules[k] \in Override
      BY <1>2, <3>2
    <3>4. rules[k].id \in Slot /\ rules[k].policies \in Seq(Named)
      BY <3>3 DEF Override
    <3>5. QED
      BY <3>2, <3>4 DEF k
  <2>3. QED
    BY <2>1, <2>2
<1>4. <<>> \in Seq(Named)
  OBVIOUS
<1>5. QED
  BY <1>2, <1>3, <1>4 DEF SlotCandidates, profile

\* What a selector offers of its candidates.
LEMMA ResolvedSelector ==
    ASSUME NEW res, NEW g, NEW S, NEW candidates \in Seq(S)
    PROVE  LET offered == ResolveSelector(res, g, candidates)
               known == Recorded(res, g)
               current == IF known \in ToSet(candidates) THEN known ELSE candidates[1]
           IN  IF \A t \in ToSet(candidates) : Available(res, t) THEN offered = candidates
               ELSE IF (known = none /\ res.unavailable) \/ ~Available(res, current) THEN offered = <<>>
               ELSE /\ offered # <<>> /\ offered \in Seq(S)
                    /\ ToSet(offered) = {t \in ToSet(candidates) : Available(res, t)}
<1> DEFINE offered == ResolveSelector(res, g, candidates)
           known == Recorded(res, g)
           current == IF known \in ToSet(candidates) THEN known ELSE candidates[1]
           P == {t \in ToSet(candidates) : t # current /\ Available(res, t)}
           kept == FlattenSeq([i \in DOMAIN candidates |-> IF candidates[i] \in P THEN <<candidates[i]>> ELSE <<>>])
<1>1. CASE \A t \in ToSet(candidates) : Available(res, t)
  BY <1>1 DEF ResolveSelector
<1>2. CASE /\ ~\A t \in ToSet(candidates) : Available(res, t)
           /\ (known = none /\ res.unavailable) \/ ~Available(res, current)
  BY <1>2 DEF ResolveSelector
<1>3. CASE /\ ~\A t \in ToSet(candidates) : Available(res, t)
           /\ ~((known = none /\ res.unavailable) \/ ~Available(res, current))
  <2>1. offered = <<current>> \o Kept(candidates, LAMBDA t : t # current /\ Available(res, t))
    BY <1>3 DEF ResolveSelector
  <2>2. Kept(candidates, LAMBDA t : t # current /\ Available(res, t)) = kept
    <3>1. \A i \in DOMAIN candidates :
             candidates[i] \in P <=> candidates[i] # current /\ Available(res, candidates[i])
      BY DEF ToSet
    <3> HIDE DEF P, current
    <3>2. [i \in DOMAIN candidates |-> IF candidates[i] # current /\ Available(res, candidates[i])
                                       THEN <<candidates[i]>> ELSE <<>>]
          = [i \in DOMAIN candidates |-> IF candidates[i] \in P THEN <<candidates[i]>> ELSE <<>>]
      BY <3>1
    <3>3. QED
      BY <3>2 DEF Kept
  <2>3. kept \in Seq(S) /\ ToSet(kept) = ToSet(candidates) \cap P
    BY KeptMembers
  <2>4. current \in ToSet(candidates) /\ Available(res, current)
    <3>1. candidates # <<>>
      BY <1>3 DEF ToSet
    <3>2. candidates[1] \in ToSet(candidates)
      BY <3>1 DEF ToSet
    <3>3. QED
      BY <1>3, <3>2
  <2>5. current \in S
    <3>1. \A i \in DOMAIN candidates : candidates[i] \in S
      OBVIOUS
    <3>2. QED
      BY <2>4, <3>1 DEF ToSet
  <2> DEFINE P2 == P
  <2>6. offered = <<current>> \o kept
    BY <2>1, <2>2
  <2>7. ToSet(candidates) \cap P = {t \in ToSet(candidates) : t # current /\ Available(res, t)}
    OBVIOUS
  <2> HIDE DEF kept, current, P
  <2>8. <<current>> \in Seq(S) /\ ToSet(<<current>>) = {current}
    BY <2>5 DEF ToSet
  <2>9. ToSet(offered) = {current} \cup ToSet(kept) /\ offered \in Seq(S)
    <3>1. \A x \in Seq(S), y \in Seq(S) : x \o y \in Seq(S) /\ ToSet(x \o y) = ToSet(x) \cup ToSet(y)
      BY JoinedMembers
    <3> HIDE DEF offered
    <3>2. QED
      BY <2>3, <2>6, <2>8, <3>1
  <2>10. ToSet(offered) = {t \in ToSet(candidates) : Available(res, t)}
    BY <2>3, <2>4, <2>7, <2>9
  <2>11. offered # <<>>
    <3>1. current \in ToSet(offered)
      BY <2>9
    <3>2. QED
      BY <3>1 DEF ToSet
  <2> HIDE DEF offered, known
  <2>12. QED
    BY <1>3, <2>9, <2>10, <2>11 DEF offered, known, current
<1>4. QED
  BY <1>1, <1>2, <1>3

\* Before it is resolved a document offers all candidates, and nothing of none.
LEMMA UnresolvedSelector ==
    ASSUME NEW g, NEW candidates
    PROVE  ResolveSelector(Unresolved, g, candidates) = candidates
BY DEF ResolveSelector, Unresolved, Available

LEMMA NothingResolved ==
    ASSUME NEW res, NEW g
    PROVE  ResolveSelector(res, g, <<>>) = <<>>
BY DEF ResolveSelector, ToSet

\* The selectors of one device.
HasSelectors(policy, res, d, groups) ==
    \A g : /\ g \in DOMAIN groups <=>
                  \E s \in DOMAIN SlotCandidates(policy, d) :
                      g = <<d.id, s>> /\ ResolveSelector(res, g, SlotCandidates(policy, d)[s]) # <<>>
           /\ g \in DOMAIN groups => groups[g] = ResolveSelector(res, g, SlotCandidates(policy, d)[g[2]])

LEMMA CompiledSelectors ==
    ASSUME NEW policy, NEW res, NEW d
    PROVE  HasSelectors(policy, res, d, CompiledDevice(policy, res, d).groups)
<1> DEFINE slots == Slots(policy, res, d)
           given == SlotCandidates(policy, d)
           keys == {<<d.id, s>> : s \in {t \in DOMAIN slots : slots[t] # <<>>}}
<1>1. CompiledDevice(policy, res, d).groups = [g \in keys |-> slots[g[2]]]
  BY DEF CompiledDevice
<1>2. DOMAIN slots = DOMAIN given /\ \A s \in DOMAIN given : slots[s] = ResolveSelector(res, <<d.id, s>>, given[s])
  BY DEF Slots
<1> HIDE DEF slots, given
<1>3. ASSUME NEW g
      PROVE  /\ g \in keys <=> \E s \in DOMAIN given : g = <<d.id, s>> /\ ResolveSelector(res, g, given[s]) # <<>>
             /\ g \in keys => slots[g[2]] = ResolveSelector(res, g, given[g[2]])
  BY <1>2
<1>4. QED
  BY <1>1, <1>3 DEF given, HasSelectors

\* The registrations in force.
LEMMA ActiveMembers ==
    ASSUME NEW policy, IsDocument(policy), NEW settings
    PROVE  /\ Active(policy, settings) \in Seq(Registration)
           /\ ToSet(Active(policy, settings)) = {d \in ToSet(policy.devices) : d.lan = settings.lan /\ (d.mac \/ IPOnlyActive(settings))}
<1> DEFINE list == policy.devices
           P == {d \in ToSet(list) : d.lan = settings.lan /\ (d.mac \/ IPOnlyActive(settings))}
           kept == FlattenSeq([i \in DOMAIN list |-> IF list[i] \in P THEN <<list[i]>> ELSE <<>>])
<1>1. list \in Seq(Registration)
  BY DEF IsDocument
<1>2. Active(policy, settings) = kept
  <2>1. \A i \in DOMAIN list :
           list[i] \in P <=> list[i].lan = settings.lan /\ (list[i].mac \/ IPOnlyActive(settings))
    BY DEF ToSet
  <2> HIDE DEF P
  <2>2. [i \in DOMAIN list |-> IF list[i].lan = settings.lan /\ (list[i].mac \/ IPOnlyActive(settings))
                               THEN <<list[i]>> ELSE <<>>]
        = [i \in DOMAIN list |-> IF list[i] \in P THEN <<list[i]>> ELSE <<>>]
    BY <2>1
  <2>3. QED
    BY <2>2 DEF Active, Kept
<1>3. kept \in Seq(Registration) /\ ToSet(kept) = ToSet(list) \cap P
  BY <1>1, KeptMembers
<1>4. QED
  BY <1>2, <1>3

\* No two of them have the same identity.
LEMMA ActiveOnce ==
    ASSUME NEW policy, IsDocument(policy), ValidPolicySet(policy), NEW settings,
           NEW d \in ToSet(Active(policy, settings)), NEW e \in ToSet(Active(policy, settings)), d.id = e.id
    PROVE  d = e
<1>1. d \in ToSet(policy.devices) /\ e \in ToSet(policy.devices)
  BY ActiveMembers
<1>2. PICK i \in DOMAIN policy.devices, j \in DOMAIN policy.devices : d = policy.devices[i] /\ e = policy.devices[j]
  BY <1>1 DEF ToSet
<1>3. IsInjective([k \in DOMAIN policy.devices |-> policy.devices[k].id])
  BY DEF ValidPolicySet, SomeRepeated
<1>4. i = j
  BY <1>2, <1>3 DEF IsInjective
<1>5. QED
  BY <1>2, <1>4

LEMMA ActiveShape ==
    ASSUME NEW policy, IsDocument(policy), ValidPolicySet(policy), NEW settings, NEW d \in ToSet(Active(policy, settings))
    PROVE  d \in Registration /\ d.profile \in DOMAIN policy.profiles
<1>0. d \in ToSet(policy.devices)
  BY ActiveMembers
<1>1. PICK i \in DOMAIN policy.devices : d = policy.devices[i]
  BY <1>0 DEF ToSet
<1>2. policy.devices \in Seq(Registration)
  BY DEF IsDocument
<1>3. \A k \in DOMAIN policy.devices : policy.devices[k] \in Registration
  BY <1>2
<1>4. QED
  BY <1>1, <1>3 DEF ValidPolicySet

\* Whose selector it is: a device in force and one of its slots.
Owns(policy, settings, g, d, s) ==
    d \in ToSet(Active(policy, settings)) /\ s \in DOMAIN SlotCandidates(policy, d) /\ g = <<d.id, s>>

LEMMA SelectorsOf ==
    ASSUME NEW policy, IsDocument(policy), ValidPolicySet(policy), NEW settings, NEW res, NEW g
    PROVE  LET groups == DeviceGroups(Compile(policy, res, settings))
           IN  /\ g \in DOMAIN groups => \E d, s : Owns(policy, settings, g, d, s)
               /\ \A d, s : Owns(policy, settings, g, d, s) =>
                     /\ g \in DOMAIN groups <=> ResolveSelector(res, g, SlotCandidates(policy, d)[s]) # <<>>
                     /\ g \in DOMAIN groups => groups[g] = ResolveSelector(res, g, SlotCandidates(policy, d)[s])
<1> DEFINE active == Active(policy, settings)
           compiled == Compile(policy, res, settings)
           groups == DeviceGroups(compiled)
           Of(d) == CompiledDevice(policy, res, d).groups
<1>1. DOMAIN compiled = DOMAIN active /\ \A i \in DOMAIN active : compiled[i].groups = Of(active[i])
  BY DEF Compile
<1>2. {compiled[i].groups : i \in DOMAIN compiled} = {Of(d) : d \in ToSet(active)}
  BY <1>1 DEF ToSet
<1>3. /\ DOMAIN groups = UNION {DOMAIN compiled[i].groups : i \in DOMAIN compiled}
      /\ \A h \in DOMAIN groups : groups[h] = (CHOOSE m \in {compiled[i].groups : i \in DOMAIN compiled} : h \in DOMAIN m)[h]
  BY DEF DeviceGroups
<1>4. DOMAIN groups = UNION {DOMAIN Of(d) : d \in ToSet(active)}
  BY <1>1, <1>3 DEF ToSet
<1> HIDE DEF active, compiled, groups, Of
<1>5. \A d : HasSelectors(policy, res, d, Of(d))
  BY CompiledSelectors DEF Of
<1>6. g \in DOMAIN groups => \E d, s : Owns(policy, settings, g, d, s)
  BY <1>4, <1>5 DEF Owns, active, HasSelectors
<1>7. ASSUME NEW d, NEW s, Owns(policy, settings, g, d, s)
      PROVE  /\ g \in DOMAIN groups <=> ResolveSelector(res, g, SlotCandidates(policy, d)[s]) # <<>>
             /\ g \in DOMAIN groups => groups[g] = ResolveSelector(res, g, SlotCandidates(policy, d)[s])
  <2>1. d \in ToSet(active) /\ s \in DOMAIN SlotCandidates(policy, d) /\ g = <<d.id, s>> /\ g[2] = s
    BY <1>7 DEF Owns, active
  <2>2. ASSUME NEW e \in ToSet(active), g \in DOMAIN Of(e) PROVE e = d
    <3>1. e.id = d.id
      BY <1>5, <2>1, <2>2 DEF HasSelectors
    <3>2. QED
      BY <2>1, <3>1, ActiveOnce DEF active
  <2>3. g \in DOMAIN groups <=> g \in DOMAIN Of(d)
    BY <1>4, <2>1, <2>2
  <2>4. g \in DOMAIN Of(d) <=> ResolveSelector(res, g, SlotCandidates(policy, d)[s]) # <<>>
    BY <1>5, <2>1 DEF HasSelectors
  <2>5. ASSUME g \in DOMAIN groups PROVE groups[g] = Of(d)[g]
    <3> DEFINE M == {compiled[i].groups : i \in DOMAIN compiled}
               m == CHOOSE x \in M : g \in DOMAIN x
    <3>1. M = {Of(e) : e \in ToSet(active)}
      BY <1>2
    <3>2. groups[g] = m[g]
      BY <1>3, <2>5
    <3> HIDE DEF M
    <3>3. \E x \in M : g \in DOMAIN x
      BY <2>1, <2>3, <2>5, <3>1
    <3>4. m \in M /\ g \in DOMAIN m
      BY <3>3
    <3> HIDE DEF m
    <3>5. m = Of(d)
      BY <2>2, <3>1, <3>4
    <3>6. QED
      BY <3>2, <3>5
  <2>6. QED
    BY <1>5, <2>1, <2>3, <2>4, <2>5 DEF HasSelectors
<1>8. QED
  BY <1>6, <1>7 DEF groups, compiled

\* What becomes of a selector of a document when the document is resolved.
Resolves(res, g, all, groups) ==
    /\ g \in DOMAIN groups => g \in DOMAIN all
    /\ g \in DOMAIN all =>
          /\ IsDeviceGroup(g) /\ all[g] \in Seq(Named) /\ all[g] # <<>>
          /\ g \in DOMAIN groups <=> ResolveSelector(res, g, all[g]) # <<>>
          /\ g \in DOMAIN groups => groups[g] = ResolveSelector(res, g, all[g])

LEMMA ConfiguredSelector ==
    ASSUME NEW policy, IsDocument(policy), ValidPolicySet(policy), NEW settings, NEW res, NEW g
    PROVE  Resolves(res, g, DeviceGroups(Compile(policy, Unresolved, settings)), DeviceGroups(Compile(policy, res, settings)))
<1> DEFINE all == DeviceGroups(Compile(policy, Unresolved, settings))
           groups == DeviceGroups(Compile(policy, res, settings))
           Of(d, s) == SlotCandidates(policy, d)[s]
<1>1. /\ g \in DOMAIN all => \E d, s : Owns(policy, settings, g, d, s)
      /\ \A d, s : Owns(policy, settings, g, d, s) =>
            /\ g \in DOMAIN all <=> Of(d, s) # <<>>
            /\ g \in DOMAIN all => all[g] = Of(d, s)
  BY SelectorsOf, UnresolvedSelector
<1>2. /\ g \in DOMAIN groups => \E d, s : Owns(policy, settings, g, d, s)
      /\ \A d, s : Owns(policy, settings, g, d, s) =>
            /\ g \in DOMAIN groups <=> ResolveSelector(res, g, Of(d, s)) # <<>>
            /\ g \in DOMAIN groups => groups[g] = ResolveSelector(res, g, Of(d, s))
  BY SelectorsOf
<1>3. ASSUME NEW d, NEW s, Owns(policy, settings, g, d, s)
      PROVE  IsDeviceGroup(g) /\ Of(d, s) \in Seq(Named)
  <2>1. d \in ToSet(Active(policy, settings)) /\ s \in DOMAIN SlotCandidates(policy, d) /\ g = <<d.id, s>>
    BY <1>3 DEF Owns
  <2>2. d \in Registration /\ d.profile \in DOMAIN policy.profiles
    BY <2>1, ActiveShape
  <2>3. s \in Slot /\ Of(d, s) \in Seq(Named)
    BY <2>1, <2>2, SlotShape
  <2>4. d.id \in Device
    BY <2>2 DEF Registration
  <2>5. QED
    BY <2>1, <2>3, <2>4 DEF IsDeviceGroup
<1> HIDE DEF all, groups, Of
<1>4. CASE \E d, s : Owns(policy, settings, g, d, s)
  <2>1. PICK d, s : Owns(policy, settings, g, d, s)
    BY <1>4
  <2>2. g \in DOMAIN groups => g \in DOMAIN all
    BY <1>1, <1>2, <2>1, NothingResolved
  <2>3. QED
    BY <1>1, <1>2, <1>3, <2>1, <2>2 DEF Resolves, all, groups
<1>5. CASE ~\E d, s : Owns(policy, settings, g, d, s)
  BY <1>1, <1>2, <1>5 DEF Resolves, all, groups
<1>6. QED
  BY <1>4, <1>5

\* A selector that lacks nothing is there in full; one that is there offers what
\* is left; one with a choice among its candidates is there if that is left.
LEMMA OfferedChoices ==
    ASSUME NEW res, NEW g, NEW all, NEW groups, Resolves(res, g, all, groups), g \in DOMAIN all
    PROVE  /\ (\A t \in ToSet(all[g]) : Available(res, t)) => g \in DOMAIN groups /\ groups[g] = all[g]
           /\ g \in DOMAIN groups => ToSet(groups[g]) = {t \in ToSet(all[g]) : Available(res, t)}
           /\ Recorded(res, g) \in ToSet(all[g]) => (g \in DOMAIN groups <=> Available(res, Recorded(res, g)))
<1> DEFINE c == all[g]
           offered == ResolveSelector(res, g, c)
           known == Recorded(res, g)
           current == IF known \in ToSet(c) THEN known ELSE c[1]
<1>1. /\ c \in Seq(Named) /\ c # <<>>
      /\ g \in DOMAIN groups <=> offered # <<>>
      /\ g \in DOMAIN groups => groups[g] = offered
  BY DEF Resolves
<1>2. IF \A t \in ToSet(c) : Available(res, t) THEN offered = c
      ELSE IF (known = none /\ res.unavailable) \/ ~Available(res, current) THEN offered = <<>>
      ELSE /\ offered # <<>> /\ offered \in Seq(Named)
           /\ ToSet(offered) = {t \in ToSet(c) : Available(res, t)}
  BY <1>1, ResolvedSelector
<1>3. known \in ToSet(c) => known # none /\ current = known
  <2>1. \A i \in DOMAIN c : c[i] \in Named
    BY <1>1
  <2>2. none \notin Named
    BY Names DEF Named, Builtin
  <2>3. QED
    BY <2>1, <2>2 DEF ToSet
<1> HIDE DEF c, offered, known, current
<1>4. CASE \A t \in ToSet(c) : Available(res, t)
  <2>1. offered = c /\ {t \in ToSet(c) : Available(res, t)} = ToSet(c)
    BY <1>2, <1>4
  <2>2. QED
    BY <1>1, <1>4, <2>1 DEF c, known
<1>5. CASE /\ ~\A t \in ToSet(c) : Available(res, t)
           /\ (known = none /\ res.unavailable) \/ ~Available(res, current)
  <2>1. offered = <<>>
    BY <1>2, <1>5
  <2>2. QED
    BY <1>1, <1>3, <1>5, <2>1 DEF c, known
<1>6. CASE /\ ~\A t \in ToSet(c) : Available(res, t)
           /\ ~((known = none /\ res.unavailable) \/ ~Available(res, current))
  <2>1. offered # <<>> /\ ToSet(offered) = {t \in ToSet(c) : Available(res, t)}
    BY <1>2, <1>6
  <2>2. QED
    BY <1>1, <1>3, <1>6, <2>1 DEF c, known
<1>7. QED
  BY <1>4, <1>5, <1>6

\* The groups of an engine that belong to devices are those of the compilation.
LEMMA DevicesGroups ==
    ASSUME NEW compiled, NEW s \in DOMAIN Sources, NEW settings, NEW g, IsDeviceGroup(g)
    PROVE  LET groups == Groups(compiled, Sources[s], settings)
           IN  /\ g \in DOMAIN groups <=> g \in DOMAIN DeviceGroups(compiled)
               /\ g \in DOMAIN groups => groups[g] = DeviceGroups(compiled)[g]
<1> DEFINE src == Sources[s]
           mac == src.targets \o (IF ExitOffered(settings) /\ settings.ts.mac THEN <<ExitGroup>> ELSE <<>>)
           global == IF mac = <<>> THEN <<>> ELSE <<MacGlobal>>
           own == [x \in DOMAIN src.groups |-> src.groups[x] \o (IF ExitOffered(settings) THEN <<ExitGroup>> ELSE <<>>)]
           exit == [x \in IF ExitOffered(settings) THEN {ExitGroup} ELSE {} |-> <<Tailnet>>]
           local == [x \in (IF mac = <<>> THEN {} ELSE {MacGlobal}) \cup {MacTCP, MacUDP} |->
                        IF x = MacGlobal THEN mac
                        ELSE IF x = MacTCP THEN <<PASS, DIRECT>> \o global ELSE <<PASS, DIRECT, REJECT>> \o global]
           groups == Groups(compiled, src, settings)
           devices == DeviceGroups(compiled)
<1>1. groups = Over(own, Over(exit, Over(local, devices)))
  BY DEF Groups
<1>2. g \notin DOMAIN own
  BY DeviceRoutingAssumption, RoutingAssumption DEF IsDeviceGroup, IsSource
<1>3. g \notin DOMAIN exit /\ g \notin DOMAIN local
  BY Names DEF IsDeviceGroup
<1> HIDE DEF own, exit, local, groups, devices
<1>4. \A f, h : g \notin DOMAIN f =>
          /\ g \in DOMAIN Over(f, h) <=> g \in DOMAIN h
          /\ g \in DOMAIN Over(f, h) => Over(f, h)[g] = h[g]
  BY DEF Over
<1>5. /\ g \in DOMAIN groups <=> g \in DOMAIN devices
      /\ g \in DOMAIN groups => groups[g] = devices[g]
  BY <1>1, <1>2, <1>3, <1>4
<1>6. QED
  BY <1>5 DEF groups, devices

-----------------------------------------------------------------------------
(* The choices.                                                            *)

DocumentSound ==
    /\ doc \in DOMAIN Documents /\ ValidPolicySet(Documents[doc])
    /\ source \in DOMAIN Sources /\ net \in DOMAIN Nets

\* A live engine is what a valid document was compiled to, and the record of a
\* prepared one is what that was compiled with.
EngineSound ==
    engine # NoEngine =>
        /\ engine.owner \in {"prepared", "gateway"}
        /\ engine.doc \in DOMAIN Documents /\ ValidPolicySet(Documents[engine.doc])
        /\ engine.source \in DOMAIN Sources
        /\ ~engine.res.all
        /\ engine.groups = Groups(Compile(Documents[engine.doc], engine.res, Nets[engine.net]),
                                   Sources[engine.source], Nets[engine.net])
        /\ engine.owner = "prepared" => record = engine.res.selections

\* Unless it had to guess, what an engine was started with is what was chosen
\* last: one that is left out for its choice keeps that, one that is offered
\* has had no choice that is a candidate and cannot be had.
ChoiceSound ==
    engine # NoEngine =>
        \A g \in DOMAIN cache :
            IsDeviceGroup(g) /\ g \in DOMAIN engine.res.selections /\ g \notin guessed =>
                IF g \in DOMAIN selected
                THEN cache[g] \in ToSet(Configured[g]) => Available(engine.res, cache[g])
                ELSE engine.res.selections[g] = cache[g]

ChoiceInv == DocumentSound /\ EngineSound /\ LiveSound /\ ChoiceSound

-----------------------------------------------------------------------------
\* The selectors of any engine are those of its document, resolved.
LEMMA EngineSelectors ==
    ASSUME NEW d \in DOMAIN Documents, ValidPolicySet(Documents[d]), NEW s \in DOMAIN Sources, NEW settings,
           NEW res, NEW g, IsDeviceGroup(g)
    PROVE  Resolves(res, g, DeviceGroups(Compile(Documents[d], Unresolved, settings)),
                    Groups(Compile(Documents[d], res, settings), Sources[s], settings))
<1> DEFINE all == DeviceGroups(Compile(Documents[d], Unresolved, settings))
           compiled == Compile(Documents[d], res, settings)
           devices == DeviceGroups(compiled)
           groups == Groups(compiled, Sources[s], settings)
<1>1. Resolves(res, g, all, devices)
  <2>1. IsDocument(Documents[d])
    BY DeviceRoutingAssumption
  <2>2. QED
    BY <2>1, ConfiguredSelector
<1>2. /\ g \in DOMAIN groups <=> g \in DOMAIN devices
      /\ g \in DOMAIN groups => groups[g] = devices[g]
  BY DevicesGroups
<1> HIDE DEF all, groups, devices
<1>3. QED
  BY <1>1, <1>2 DEF Resolves, all, groups

LEMMA LiveSelectors ==
    ASSUME EngineSound, engine # NoEngine
    PROVE  \A g : g \in DOMAIN Configured \/ IsDeviceGroup(g) =>
               IsDeviceGroup(g) /\ Resolves(engine.res, g, Configured, engine.groups)
<1>1. /\ engine.doc \in DOMAIN Documents /\ ValidPolicySet(Documents[engine.doc])
      /\ engine.source \in DOMAIN Sources
      /\ engine.groups = Groups(Compile(Documents[engine.doc], engine.res, Nets[engine.net]),
                                 Sources[engine.source], Nets[engine.net])
  BY DEF EngineSound
<1>2. ASSUME NEW g \in DOMAIN Configured PROVE IsDeviceGroup(g)
  <2>1. IsDocument(Documents[engine.doc])
    BY <1>1, DeviceRoutingAssumption
  <2>2. \A res : Resolves(res, g, Configured, DeviceGroups(Compile(Documents[engine.doc], res, Nets[engine.net])))
    BY <1>1, <2>1, ConfiguredSelector DEF Configured
  <2>3. QED
    BY <2>2 DEF Resolves
<1>3. ASSUME NEW g, IsDeviceGroup(g) PROVE Resolves(engine.res, g, Configured, engine.groups)
  BY <1>1, <1>3, EngineSelectors DEF Configured
<1>4. QED
  BY <1>2, <1>3

\* An engine starts with the choices made last, or knows that it guesses.
LEMMA KnownChoice ==
    ASSUME EngineSound, ChoiceSound, NEW late \in BOOLEAN, engine.owner # "gateway",
           NEW g \in DOMAIN cache, IsDeviceGroup(g),
           g \in DOMAIN Resolution(late).selections, g \notin Guesses(Resolution(late))
    PROVE  Resolution(late).selections[g] = cache[g]
<1> DEFINE told == Selections(late)
           res == Resolution(late)
<1>1. res.selections = IF HasMissing THEN told.known ELSE <<>>
  BY DEF Resolution
<1>2. res.unavailable = (HasMissing /\ told.unavailable)
  BY DEF Resolution
<1>3. HasMissing
  BY <1>1
<1>4. g \in DOMAIN told.known /\ res.selections[g] = told.known[g]
  BY <1>1, <1>3
<1>5. ~res.unavailable
  BY <1>3 DEF Guesses
<1>6. CASE engine = NoEngine
  <2>1. told.known = Over(OfDevices(cache), record)
    BY <1>6 DEF Selections
  <2>2. g \in DOMAIN OfDevices(cache) /\ OfDevices(cache)[g] = cache[g]
    BY DEF OfDevices
  <2>3. QED
    BY <1>4, <2>1, <2>2 DEF Over
<1>7. CASE engine # NoEngine
  <2>1. ~late
    BY <1>2, <1>3, <1>5, <1>7 DEF Selections
  <2>2. told.known = Over(OfDevices(selected), record)
    BY <1>7, <2>1 DEF Selections
  <2>3. g \notin (guessed \ DOMAIN selected) \cup {x \in DOMAIN selected \cap DOMAIN cache : selected[x] # cache[x]}
    BY <1>3, <1>5, <1>7 DEF Guesses
  <2>4. CASE g \in DOMAIN selected
    <3>1. selected[g] = cache[g]
      BY <2>3, <2>4
    <3>2. g \in DOMAIN OfDevices(selected) /\ OfDevices(selected)[g] = selected[g]
      BY <2>4 DEF OfDevices
    <3>3. QED
      BY <1>4, <2>2, <3>1, <3>2 DEF Over
  <2>5. CASE g \notin DOMAIN selected
    <3>1. g \notin guessed
      BY <2>3, <2>5
    <3>2. g \notin DOMAIN OfDevices(selected)
      BY <2>5 DEF OfDevices
    <3>3. g \in DOMAIN record /\ told.known[g] = record[g]
      BY <1>4, <2>2, <3>2 DEF Over
    <3>4. record = engine.res.selections
      BY <1>7 DEF EngineSound
    <3>5. engine.res.selections[g] = cache[g]
      BY <1>7, <2>5, <3>1, <3>3, <3>4 DEF ChoiceSound
    <3>6. QED
      BY <1>4, <3>3, <3>4, <3>5
  <2>6. QED
    BY <2>4, <2>5
<1>8. QED
  BY <1>6, <1>7

LEMMA LaunchChoices ==
    ASSUME DocumentSound, EngineSound, ChoiceSound, engine.owner # "gateway",
           NEW owner \in {"prepared", "gateway"}, NEW late \in BOOLEAN, Launch(Candidate(owner, late)),
           cache' = cache, owner = "prepared" => record' = Resolution(late).selections
    PROVE  EngineSound' /\ ChoiceSound'
<1> DEFINE res == Resolution(late)
           e == Candidate(owner, late)
           all == DeviceGroups(Compile(Documents[doc], Unresolved, Nets[net]))
<1>1. /\ e.owner = owner /\ e.doc = doc /\ e.source = source /\ e.net = net /\ e.res = res
      /\ e.groups = Groups(Compile(Documents[doc], res, Nets[net]), Sources[source], Nets[net])
  BY DEF Candidate, Engine
<1>2. ~res.all
  BY DEF Resolution
<1> HIDE DEF res, e
<1>3. engine' = e /\ guessed' = Guesses(res) /\ DOMAIN selected' = DOMAIN e.groups
  BY <1>1 DEF Launch, e
<1>4. EngineSound'
  BY <1>1, <1>2, <1>3 DEF EngineSound, DocumentSound, res
<1>5. Configured' = all
  BY <1>1, <1>3 DEF Configured
<1> HIDE DEF all
<1>6. ASSUME NEW g \in DOMAIN cache, IsDeviceGroup(g), g \in DOMAIN res.selections, g \notin Guesses(res)
      PROVE  /\ res.selections[g] = cache[g]
             /\ g \in DOMAIN e.groups => (cache[g] \in ToSet(all[g]) => Available(res, cache[g]))
  <2>1. res.selections[g] = cache[g]
    BY <1>6, KnownChoice DEF res
  <2>2. Recorded(res, g) = cache[g]
    BY <1>6, <2>1 DEF Recorded
  <2>3. Resolves(res, g, all, e.groups)
    BY <1>1, <1>6, EngineSelectors DEF DocumentSound, all
  <2>4. ASSUME g \in DOMAIN e.groups, cache[g] \in ToSet(all[g]) PROVE Available(res, cache[g])
    <3>1. g \in DOMAIN all
      BY <2>3, <2>4 DEF Resolves
    <3>2. QED
      BY <2>2, <2>3, <2>4, <3>1, OfferedChoices
  <2>5. QED
    BY <2>1, <2>4
<1>7. ChoiceSound'
  BY <1>1, <1>3, <1>5, <1>6 DEF ChoiceSound
<1>8. QED
  BY <1>4, <1>7

\* A choice a live engine takes is one that it has.
LEMMA PutChoices ==
    ASSUME EngineSound, LiveSound, ChoiceSound, NEW g, NEW member, Offers(g, member), Put(g, member),
           UNCHANGED <<engine, record, guessed>>
    PROVE  EngineSound' /\ ChoiceSound'
<1>1. engine # NoEngine /\ g \in DOMAIN selected /\ member \in ToSet(engine.groups[g])
  BY DEF Offers
<1>2. DOMAIN selected' = DOMAIN selected /\ Configured' = Configured
  BY DEF Put, Configured
<1>3. /\ DOMAIN cache' = DOMAIN cache \cup {g}
      /\ \A h \in DOMAIN cache' : cache'[h] = IF h = g THEN member ELSE cache[h]
  <2>1. cache' = Over([x \in {g} |-> member], cache)
    BY DEF Put
  <2> DEFINE one == [x \in {g} |-> member]
  <2>2. DOMAIN one = {g} /\ one[g] = member /\ cache' = Over(one, cache)
    BY <2>1
  <2> HIDE DEF one
  <2>3. QED
    BY <2>2 DEF Over
<1>4. EngineSound'
  BY DEF EngineSound
<1>5. ASSUME IsDeviceGroup(g) PROVE Available(engine.res, member)
  <2>1. Resolves(engine.res, g, Configured, engine.groups)
    BY <1>1, <1>5, LiveSelectors
  <2>2. g \in DOMAIN engine.groups
    BY <1>1 DEF LiveSound
  <2>3. g \in DOMAIN Configured
    BY <2>1, <2>2 DEF Resolves
  <2>4. ToSet(engine.groups[g]) = {t \in ToSet(Configured[g]) : Available(engine.res, t)}
    BY <2>1, <2>2, <2>3, OfferedChoices
  <2>5. QED
    BY <1>1, <2>4
<1>6. ASSUME NEW h \in DOMAIN cache', IsDeviceGroup(h), h \in DOMAIN engine.res.selections, h \notin guessed
      PROVE  IF h \in DOMAIN selected
             THEN cache'[h] \in ToSet(Configured[h]) => Available(engine.res, cache'[h])
             ELSE engine.res.selections[h] = cache'[h]
  <2>1. CASE h = g
    BY <1>1, <1>3, <1>5, <1>6, <2>1
  <2>2. CASE h # g
    BY <1>1, <1>3, <1>6, <2>2 DEF ChoiceSound
  <2>3. QED
    BY <2>1, <2>2
<1>7. ChoiceSound'
  BY <1>2, <1>6 DEF ChoiceSound
<1>8. QED
  BY <1>4, <1>7

LEMMA ChoiceInit == Init => ChoiceInv
<1> SUFFICES ASSUME Init PROVE ChoiceInv
  OBVIOUS
<1>1. FirstDocument \in DOMAIN Documents /\ FirstSource \in DOMAIN Sources /\ FirstNet \in DOMAIN Nets
  BY DeviceRoutingAssumption
<1>2. QED
  BY <1>1 DEF Init, ChoiceInv, DocumentSound, EngineSound, LiveSound, ChoiceSound

\* Steps that leave the engine and the choices alone.
LEMMA ChoicesStay ==
    ASSUME ChoiceInv, DocumentSound', UNCHANGED <<engine, selected, record, cache, guessed>>
    PROVE  ChoiceInv'
BY DEF ChoiceInv, EngineSound, LiveSound, ChoiceSound, Configured, Saved

LEMMA PutInv ==
    ASSUME ChoiceInv, NEW g, NEW member, Offers(g, member), Put(g, member),
           UNCHANGED <<doc, source, net, engine, record, guessed>>
    PROVE  ChoiceInv'
<1>1. DocumentSound'
  BY DEF ChoiceInv, DocumentSound
<1>2. QED
  BY <1>1, PutLive, PutChoices DEF ChoiceInv

LEMMA LaunchInv ==
    ASSUME ChoiceInv, engine.owner # "gateway",
           NEW owner \in {"prepared", "gateway"}, NEW late \in BOOLEAN, Launch(Candidate(owner, late)),
           UNCHANGED <<doc, source, net, cache>>, owner = "prepared" => record' = Resolution(late).selections
    PROVE  ChoiceInv'
<1>1. DocumentSound'
  BY DEF ChoiceInv, DocumentSound
<1>2. LiveSound'
  BY LaunchLive
<1>3. EngineSound' /\ ChoiceSound'
  BY LaunchChoices DEF ChoiceInv
<1>4. QED
  BY <1>1, <1>2, <1>3 DEF ChoiceInv

LEMMA ChoiceNext == ChoiceInv /\ [Next]_vars => ChoiceInv'
<1> SUFFICES ASSUME ChoiceInv, [Next]_vars PROVE ChoiceInv'
  OBVIOUS
<1>0. ASSUME UNCHANGED <<doc, source, net>> PROVE DocumentSound'
  BY <1>0 DEF ChoiceInv, DocumentSound
<1>1. ASSUME NEW d \in DOMAIN Documents, Edit(d) PROVE ChoiceInv'
  <2>1. DocumentSound'
    BY <1>1 DEF Edit, ChoiceInv, DocumentSound
  <2>2. QED
    BY <1>1, <2>1, ChoicesStay DEF Edit
<1>2. ASSUME NEW s \in DOMAIN Sources, ChangeSource(s) PROVE ChoiceInv'
  <2>1. DocumentSound'
    BY <1>2 DEF ChangeSource, ChoiceInv, DocumentSound
  <2>2. QED
    BY <1>2, <2>1, ChoicesStay DEF ChangeSource
<1>3. ASSUME NEW n \in DOMAIN Nets, ChangeNet(n) PROVE ChoiceInv'
  <2>1. DocumentSound'
    BY <1>3 DEF ChangeNet, ChoiceInv, DocumentSound
  <2>2. QED
    BY <1>3, <2>1, ChoicesStay DEF ChangeNet
<1>4. ASSUME NEW late \in BOOLEAN, Prepare(late) PROVE ChoiceInv'
  <2> DEFINE e == Candidate("prepared", late)
  <2>1. /\ engine.owner # "gateway" /\ UNCHANGED <<doc, source, net, cache>>
        /\ \/ UNCHANGED <<engine, selected, record, guessed>>
           \/ Launch(e) /\ record' = e.res.selections
    BY <1>4 DEF Prepare
  <2>2. e.res = Resolution(late)
    BY DEF Candidate, Engine
  <2> HIDE DEF e
  <2>3. CASE UNCHANGED <<engine, selected, record, guessed>>
    BY <1>0, <2>1, <2>3, ChoicesStay
  <2>4. CASE Launch(e) /\ record' = e.res.selections
    BY <2>1, <2>2, <2>4, LaunchInv DEF e
  <2>5. QED
    BY <2>1, <2>3, <2>4
<1>5. ASSUME NEW late \in BOOLEAN, Start(late) PROVE ChoiceInv'
  <2>1. engine.owner # "gateway" /\ UNCHANGED <<doc, source, net, cache>> /\ Launch(Candidate("gateway", late))
    BY <1>5 DEF Start
  <2>2. QED
    BY <2>1, LaunchInv
<1>6. ASSUME Stop \/ PreparedDies PROVE ChoiceInv'
  <2>1. engine' = NoEngine /\ DocumentSound'
    BY <1>0, <1>6 DEF Stop, PreparedDies
  <2>2. QED
    BY <2>1 DEF ChoiceInv, EngineSound, LiveSound, ChoiceSound
<1>7. ASSUME NEW g \in DOMAIN selected, NEW m \in ToSet(engine.groups[g]), Select(g, m) PROVE ChoiceInv'
  BY <1>7, PutInv DEF Select
<1>8. ASSUME NEW mode, NEW policy, NEW health, AskMode(mode, policy, health) PROVE ChoiceInv'
  BY <1>0, <1>8, ChoicesStay DEF AskMode
<1>9. ASSUME ApplyOne \/ ReplyLost PROVE ChoiceInv'
  BY <1>9, PutInv DEF ApplyOne, ReplyLost
<1>10. ASSUME UndoOne PROVE ChoiceInv'
  BY <1>10, PutInv DEF UndoOne
<1>11. ASSUME ApplyFails \/ Verify \/ VerifyFails \/ UndoFails \/ Failed PROVE ChoiceInv'
  BY <1>0, <1>11, ChoicesStay DEF ApplyFails, Verify, VerifyFails, UndoFails, Failed
<1>12. ASSUME UNCHANGED vars PROVE ChoiceInv'
  BY <1>0, <1>12, ChoicesStay DEF vars
<1>13. QED
  BY <1>1, <1>2, <1>3, <1>4, <1>5, <1>6, <1>7, <1>8, <1>9, <1>10, <1>11, <1>12 DEF Next

\* A live engine is what its valid document was compiled to, and what it was
\* started with is what was chosen last, unless it had to guess.
THEOREM ChoiceInvariant == Spec => []ChoiceInv
<1>1. QED
  BY ChoiceInit, ChoiceNext, PTL DEF Spec

LEMMA ChoicesHold == ChoiceInv => EgressIsChosen
<1> SUFFICES ASSUME ChoiceInv, engine.owner = "gateway",
                    NEW g \in ChosenHere(Configured), Told(g, Configured)
             PROVE  IF g \in DOMAIN selected THEN selected[g] = cache[g]
                    ELSE cache[g] \notin Builtin \cup engine.res.targets
  BY DEF EgressIsChosen
<1> DEFINE all == Configured
<1>1. engine # NoEngine
  BY DEF NoEngine
<1>2. g \in DOMAIN cache /\ g \in DOMAIN all /\ cache[g] \in ToSet(all[g])
  BY DEF ChosenHere
<1>3. IsDeviceGroup(g) /\ Resolves(engine.res, g, all, engine.groups)
  BY <1>1, <1>2, LiveSelectors DEF ChoiceInv
<1>4. \A t : Available(engine.res, t) <=> t \in Builtin \cup engine.res.targets
  BY <1>1 DEF ChoiceInv, EngineSound, Available
<1>5. /\ DOMAIN selected = DOMAIN engine.groups
      /\ g \in DOMAIN selected => selected[g] = Restore(engine.groups[g], cache[g])
  BY <1>1, <1>2 DEF ChoiceInv, LiveSound, Saved
<1> HIDE DEF all
<1>6. CASE ToSet(all[g]) \subseteq Builtin \cup engine.res.targets
  <2>1. g \in DOMAIN engine.groups /\ engine.groups[g] = all[g]
    BY <1>2, <1>3, <1>4, <1>6, OfferedChoices
  <2>2. QED
    BY <1>2, <1>5, <2>1 DEF Restore
<1>7. CASE g \notin guessed /\ g \in DOMAIN engine.res.selections
  <2>1. CASE g \in DOMAIN selected
    <3>1. Available(engine.res, cache[g])
      BY <1>1, <1>2, <1>3, <1>7, <2>1 DEF ChoiceInv, ChoiceSound, all
    <3>2. ToSet(engine.groups[g]) = {t \in ToSet(all[g]) : Available(engine.res, t)}
      BY <1>2, <1>3, <1>5, <2>1, OfferedChoices
    <3>3. QED
      BY <1>2, <1>5, <2>1, <3>1, <3>2 DEF Restore
  <2>2. CASE g \notin DOMAIN selected
    <3>1. engine.res.selections[g] = cache[g]
      BY <1>1, <1>2, <1>3, <1>7, <2>2 DEF ChoiceInv, ChoiceSound
    <3>2. Recorded(engine.res, g) = cache[g]
      BY <1>7, <3>1 DEF Recorded
    <3>3. ~Available(engine.res, cache[g])
      BY <1>2, <1>3, <1>5, <2>2, <3>2, OfferedChoices
    <3>4. QED
      BY <1>4, <2>2, <3>3
  <2>3. QED
    BY <2>1, <2>2
<1>8. QED
  BY <1>6, <1>7 DEF Told, all

\* A device never gets another outlet than the one somebody chose for it: one
\* that has gone leaves the device to the global rules and is not replaced by
\* the next candidate, whatever documents, sources and engines came between
\* (resolution.go:66-102).
THEOREM OutletIsChosen == Spec => []EgressIsChosen
<1>1. QED
  BY ChoiceInvariant, ChoicesHold, PTL

-----------------------------------------------------------------------------
(* What a list of rules decides.                                           *)

\* What the first of two verdicts says, or the second when that says nothing.
Or(x, y) == IF x # none THEN x ELSE y

\* The first verdict of a list that is one.
Leading(ws) ==
    LET given == {i \in DOMAIN ws : ws[i] # none}
    IN  IF given = {} THEN none ELSE ws[CHOOSE i \in given : \A j \in given : i <= j]

\* w is the first verdict of a list that is one, or there is none.
Leads(ws, w) ==
    \/ w = none /\ \A i \in DOMAIN ws : ws[i] = none
    \/ \E i \in DOMAIN ws : ws[i] = w /\ w # none /\ \A j \in DOMAIN ws : j < i => ws[j] = none

\* What one rule says of what is known of a packet: its outlet, or nothing.
Verdict(facts, over, r) ==
    LET o == Outlet(selected, r.to)
    IN  IF r.when \subseteq facts /\ o # PASS /\ Carries(o, over) THEN o ELSE none

\* What a list of rules says: the verdict of the first rule that has one.
Judge(facts, over, rules) == Leading([i \in DOMAIN rules |-> Verdict(facts, over, rules[i])])

\* A set of numbers that is not empty has a least one.
LEMMA Least ==
    ASSUME NEW I \in SUBSET Nat, I # {}
    PROVE  \E i \in I : \A j \in I : i <= j
<1> SUFFICES ASSUME \A i \in I : \E j \in I : ~(i <= j) PROVE FALSE
  OBVIOUS
<1> DEFINE T == {n \in Nat : \A m \in 0 .. n : m \notin I}
<1>1. \A n : n \in T <=> n \in Nat /\ \A m \in 0 .. n : m \notin I
  OBVIOUS
<1> HIDE DEF T
<1>2. 0 \in T
  BY <1>1
<1>3. ASSUME NEW n \in T PROVE n + 1 \in T
  <2>1. n \in Nat /\ \A m \in 0 .. n : m \notin I
    BY <1>1
  <2>2. \A m \in 0 .. (n + 1) : m \in 0 .. n \/ m = n + 1
    BY <2>1
  <2>3. \A j \in I : n + 1 <= j
    BY <2>1
  <2>4. n + 1 \notin I
    BY <2>3
  <2>5. QED
    BY <1>1, <2>1, <2>2, <2>4
<1>4. T = Nat
  <2>1. T \subseteq Nat
    BY <1>1
  <2>2. QED
    BY ONLY <1>2, <1>3, <2>1, Induction
<1>5. PICK i \in I : TRUE
  OBVIOUS
<1>6. i \in T /\ i \in 0 .. i
  BY <1>4
<1>7. QED
  BY <1>1, <1>6

\* The first verdict is found, and there is one first.
LEMMA LeadingIs ==
    ASSUME NEW ws, DOMAIN ws \subseteq Nat
    PROVE  Leads(ws, Leading(ws)) /\ \A w : Leads(ws, w) => w = Leading(ws)
<1> DEFINE given == {i \in DOMAIN ws : ws[i] # none}
           first == CHOOSE i \in given : \A j \in given : i <= j
<1>1. CASE given = {}
  <2>1. Leading(ws) = none
    BY <1>1 DEF Leading
  <2>2. QED
    BY <1>1, <2>1 DEF Leads
<1>2. CASE given # {}
  <2>1. Leading(ws) = ws[first]
    BY <1>2 DEF Leading
  <2>2. given \in SUBSET Nat
    OBVIOUS
  <2>3. \E i \in given : \A j \in given : i <= j
    BY <1>2, <2>2, Least
  <2>4. first \in given /\ \A j \in given : first <= j
    BY <2>3
  <2> HIDE DEF first
  <2>5. Leads(ws, ws[first])
    <3>1. \A j \in DOMAIN ws : j < first => ws[j] = none
      BY <2>2, <2>4
    <3>2. QED
      BY <2>4, <3>1 DEF Leads
  <2>6. ASSUME NEW w, Leads(ws, w) PROVE w = ws[first]
    <3>1. PICK i \in DOMAIN ws : ws[i] = w /\ w # none /\ \A j \in DOMAIN ws : j < i => ws[j] = none
      BY <2>4, <2>6 DEF Leads
    <3>2. i \in given /\ ~(first < i)
      BY <2>4, <3>1
    <3>3. i = first
      BY <2>2, <2>4, <3>2
    <3>4. QED
      BY <3>1, <3>3
  <2>7. QED
    BY <2>1, <2>5, <2>6
<1>3. QED
  BY <1>1, <1>2

\* Two lists decide as a whole what the first decides, or the second.
LEMMA LeadingJoined ==
    ASSUME NEW S, NEW a \in Seq(S), NEW b \in Seq(S)
    PROVE  Leading(a \o b) = Or(Leading(a), Leading(b))
<1> DEFINE ab == a \o b
           n == Len(a)
<1>1. /\ DOMAIN ab = 1 .. (n + Len(b)) /\ DOMAIN a = 1 .. n /\ DOMAIN b = 1 .. Len(b) /\ n \in Nat /\ Len(b) \in Nat
      /\ \A i \in 1 .. (n + Len(b)) : ab[i] = IF i <= n THEN a[i] ELSE b[i - n]
  BY Joined2
<1> HIDE DEF ab, n
<1>2. \A i \in DOMAIN a : i \in DOMAIN ab /\ ab[i] = a[i] /\ i <= n
  BY <1>1
<1>3. \A i \in DOMAIN b : i + n \in DOMAIN ab /\ ab[i + n] = b[i]
  <2> SUFFICES ASSUME NEW i \in DOMAIN b PROVE i + n \in DOMAIN ab /\ ab[i + n] = b[i]
    OBVIOUS
  <2>1. i + n \in 1 .. (n + Len(b)) /\ ~(i + n <= n) /\ i + n - n = i
    BY <1>1
  <2>2. QED
    BY <1>1, <2>1
<1>4. \A i \in DOMAIN ab : i \in DOMAIN a \/ (i - n \in DOMAIN b /\ ab[i] = b[i - n] /\ i > n)
  BY <1>1
<1>5. DOMAIN a \subseteq Nat /\ DOMAIN b \subseteq Nat /\ DOMAIN ab \subseteq Nat
  BY <1>1
<1>6. Leads(a, Leading(a)) /\ Leads(b, Leading(b))
  BY <1>5, LeadingIs
<1>7. Leads(ab, Or(Leading(a), Leading(b)))
  <2>1. CASE Leading(a) # none
    <3>1. PICK i \in DOMAIN a : a[i] = Leading(a) /\ \A j \in DOMAIN a : j < i => a[j] = none
      BY <1>6, <2>1 DEF Leads
    <3>2. \A j \in DOMAIN ab : j < i => j \in DOMAIN a
      BY <1>1, <3>1
    <3>3. QED
      BY <1>2, <2>1, <3>1, <3>2 DEF Leads, Or
  <2>2. CASE Leading(a) = none /\ Leading(b) = none
    BY <1>2, <1>4, <1>6, <2>2 DEF Leads, Or
  <2>3. CASE Leading(a) = none /\ Leading(b) # none
    <3>1. PICK i \in DOMAIN b : b[i] = Leading(b) /\ \A j \in DOMAIN b : j < i => b[j] = none
      BY <1>6, <2>3 DEF Leads
    <3>2. ASSUME NEW j \in DOMAIN ab, j < i + n PROVE ab[j] = none
      <4>1. CASE j \in DOMAIN a
        BY <1>2, <1>6, <2>3, <4>1 DEF Leads
      <4>2. CASE j \notin DOMAIN a
        <5>1. j - n \in DOMAIN b /\ ab[j] = b[j - n]
          BY <1>4, <4>2
        <5>2. j - n < i
          BY <1>1, <3>2
        <5>3. QED
          BY <3>1, <5>1, <5>2
      <4>3. QED
        BY <4>1, <4>2
    <3>3. i + n \in DOMAIN ab /\ ab[i + n] = Leading(b)
      BY <1>3, <3>1
    <3>4. QED
      BY <2>3, <3>2, <3>3 DEF Leads, Or
  <2>4. QED
    BY <2>1, <2>2, <2>3
<1>8. Or(Leading(a), Leading(b)) = Leading(ab)
  BY <1>5, <1>7, LeadingIs
<1>9. QED
  BY <1>8 DEF ab

\* No verdict and a single one.
LEMMA LeadingShort ==
    ASSUME NEW x
    PROVE  Leading(<<>>) = none /\ Leading(<<x>>) = x
<1>1. Leads(<<>>, none) /\ DOMAIN <<>> \subseteq Nat
  BY DEF Leads
<1>2. Leads(<<x>>, x) /\ DOMAIN <<x>> \subseteq Nat
  BY DEF Leads
<1>3. QED
  BY <1>1, <1>2, LeadingIs

\* Where nobody says anything the list says nothing.
LEMMA LeadingNone ==
    ASSUME NEW ws, DOMAIN ws \subseteq Nat, \A i \in DOMAIN ws : ws[i] = none
    PROVE  Leading(ws) = none
<1>1. Leads(ws, none)
  BY DEF Leads
<1>2. QED
  BY <1>1, LeadingIs

\* A list that says one thing or nothing.
LEMMA LeadingConstant ==
    ASSUME NEW ws, DOMAIN ws \subseteq Nat, NEW w, \A i \in DOMAIN ws : ws[i] \in {w, none}
    PROVE  Leading(ws) = IF \E i \in DOMAIN ws : ws[i] = w THEN w ELSE none
<1>1. Leads(ws, Leading(ws))
  BY LeadingIs
<1>2. QED
  BY <1>1 DEF Leads

-----------------------------------------------------------------------------
\* Rules followed by others decide what they decide, or what the others decide.
LEMMA JudgeJoined ==
    ASSUME NEW S, NEW a \in Seq(S), NEW b \in Seq(S), NEW facts, NEW over
    PROVE  Judge(facts, over, a \o b) = Or(Judge(facts, over, a), Judge(facts, over, b))
<1> DEFINE ab == a \o b
           V(rules) == [i \in DOMAIN rules |-> Verdict(facts, over, rules[i])]
           W == {Verdict(facts, over, r) : r \in S}
<1>1. /\ ab \in Seq(S)
      /\ DOMAIN ab = 1 .. (Len(a) + Len(b)) /\ DOMAIN a = 1 .. Len(a) /\ DOMAIN b = 1 .. Len(b)
      /\ Len(a) \in Nat /\ Len(b) \in Nat
      /\ \A i \in 1 .. (Len(a) + Len(b)) : ab[i] = IF i <= Len(a) THEN a[i] ELSE b[i - Len(a)]
  BY Joined2
<1>2. ASSUME NEW s \in Seq(S) PROVE V(s) \in Seq(W) /\ Len(V(s)) = Len(s)
  <2>1. \A i \in 1 .. Len(s) : s[i] \in S
    OBVIOUS
  <2>2. V(s) \in [1 .. Len(s) -> W]
    BY <2>1
  <2> HIDE DEF V, W
  <2>3. QED
    BY <2>2
<1> HIDE DEF ab, W
<1>3. V(ab) = V(a) \o V(b)
  <2>1. /\ V(a) \in Seq(W) /\ V(b) \in Seq(W) /\ V(ab) \in Seq(W)
        /\ Len(V(a)) = Len(a) /\ Len(V(b)) = Len(b) /\ Len(V(ab)) = Len(ab) /\ Len(ab) = Len(a) + Len(b)
    <3> HIDE DEF V
    <3>1. Len(ab) = Len(a) + Len(b)
      BY <1>1
    <3>2. QED
      BY <1>1, <1>2, <3>1
  <2>2. /\ V(a) \o V(b) \in Seq(W) /\ Len(V(a) \o V(b)) = Len(a) + Len(b)
        /\ \A i \in 1 .. (Len(a) + Len(b)) : (V(a) \o V(b))[i] = IF i <= Len(a) THEN V(a)[i] ELSE V(b)[i - Len(a)]
    <3> HIDE DEF V
    <3>1. V(a) \in Seq(W) /\ V(b) \in Seq(W) /\ Len(V(a)) = Len(a) /\ Len(V(b)) = Len(b)
      BY <2>1
    <3> DEFINE x == V(a)
               y == V(b)
    <3> HIDE DEF x, y
    <3>2. x \in Seq(W) /\ y \in Seq(W) /\ Len(x) = Len(a) /\ Len(y) = Len(b)
      BY <3>1 DEF x, y
    <3>3. /\ x \o y \in Seq(W) /\ Len(x \o y) = Len(x) + Len(y)
          /\ \A i \in 1 .. (Len(x) + Len(y)) : (x \o y)[i] = IF i <= Len(x) THEN x[i] ELSE y[i - Len(x)]
      BY <3>2, Joined2
    <3>4. QED
      BY <3>2, <3>3 DEF x, y
  <2>3. \A i \in 1 .. (Len(a) + Len(b)) : V(ab)[i] = IF i <= Len(a) THEN V(a)[i] ELSE V(b)[i - Len(a)]
    <3> SUFFICES ASSUME NEW i \in 1 .. (Len(a) + Len(b)) PROVE V(ab)[i] = IF i <= Len(a) THEN V(a)[i] ELSE V(b)[i - Len(a)]
      OBVIOUS
    <3>1. CASE i <= Len(a)
      <4>1. i \in DOMAIN a /\ i \in DOMAIN ab /\ ab[i] = a[i]
        BY <1>1, <3>1
      <4>2. QED
        BY <3>1, <4>1
    <3>2. CASE ~(i <= Len(a))
      <4>1. i - Len(a) \in DOMAIN b /\ i \in DOMAIN ab /\ ab[i] = b[i - Len(a)]
        BY <1>1, <3>2
      <4>2. QED
        BY <3>2, <4>1
    <3>3. QED
      BY <3>1, <3>2
  <2> DEFINE v == V(ab)
             u == V(a) \o V(b)
  <2>4. v \in Seq(W) /\ u \in Seq(W) /\ Len(v) = Len(u) /\ Len(v) = Len(a) + Len(b) /\ \A i \in 1 .. (Len(a) + Len(b)) : v[i] = u[i]
    BY <2>1, <2>2, <2>3
  <2> HIDE DEF v, u
  <2>5. v = u
    <3>1. \A s \in Seq(W) : s = [i \in 1 .. Len(s) |-> s[i]]
      OBVIOUS
    <3>2. v = [i \in 1 .. (Len(a) + Len(b)) |-> v[i]] /\ u = [i \in 1 .. (Len(a) + Len(b)) |-> u[i]]
      BY <2>4, <3>1
    <3>3. [i \in 1 .. (Len(a) + Len(b)) |-> v[i]] = [i \in 1 .. (Len(a) + Len(b)) |-> u[i]]
      BY <2>4
    <3>4. QED
      BY <3>2, <3>3
  <2>6. QED
    BY <2>5 DEF v, u
<1>4. V(a) \in Seq(W) /\ V(b) \in Seq(W)
  BY <1>2
<1>5. Judge(facts, over, ab) = Leading(V(ab)) /\ Judge(facts, over, a) = Leading(V(a)) /\ Judge(facts, over, b) = Leading(V(b))
  BY DEF Judge
<1> HIDE DEF V
<1>6. QED
  BY <1>3, <1>4, <1>5, LeadingJoined DEF ab

\* No rule decides nothing, one decides what it says.
LEMMA JudgeShort ==
    ASSUME NEW facts, NEW over, NEW r
    PROVE  Judge(facts, over, <<>>) = none /\ Judge(facts, over, <<r>>) = Verdict(facts, over, r)
<1>1. [i \in DOMAIN <<>> |-> Verdict(facts, over, <<>>[i])] = <<>>
  OBVIOUS
<1>2. [i \in DOMAIN <<r>> |-> Verdict(facts, over, <<r>>[i])] = <<Verdict(facts, over, r)>>
  OBVIOUS
<1>3. QED
  BY <1>1, <1>2, LeadingShort DEF Judge

\* Lists one after the other decide what the first of them decides that decides
\* anything.
LEMMA JudgeFlattened ==
    ASSUME NEW S, NEW ss \in Seq(Seq(S)), NEW facts, NEW over
    PROVE  Judge(facts, over, FlattenSeq(ss)) = Leading([i \in DOMAIN ss |-> Judge(facts, over, ss[i])])
<1> DEFINE n == Len(ss)
           W == [i \in DOMAIN ss |-> Judge(facts, over, ss[i])]
           J(rules) == Judge(facts, over, rules)
<1>1. n \in Nat /\ DOMAIN ss = 1 .. n /\ \A i \in 1 .. n : ss[i] \in Seq(S)
  OBVIOUS
<1>2. DOMAIN W = 1 .. n /\ \A i \in 1 .. n : W[i] = J(ss[i])
  BY <1>1
<1>0. PICK f : AddsUp(S, ss, f)
  BY Flattening
<1>3. /\ \A i \in 0 .. n : f[i] \in Seq(S)
      /\ f[0] = <<>>
      /\ \A i \in 1 .. n : f[i] = f[i - 1] \o ss[i]
      /\ FlattenSeq(ss) = f[n]
  BY <1>0 DEF AddsUp
<1> HIDE DEF n, W
<1> DEFINE P(k, w) == \/ w = none /\ \A i \in 1 .. k : W[i] = none
                      \/ \E i \in 1 .. k : W[i] = w /\ w # none /\ \A j \in 1 .. k : j < i => W[j] = none
           U == {k \in Nat : k <= n => P(k, J(f[k]))}
<1>4. \A k : k \in U <=> k \in Nat /\ (k <= n => P(k, J(f[k])))
  OBVIOUS
<1> HIDE DEF U
<1>5. 0 \in U
  <2>1. J(f[0]) = none
    BY <1>3, JudgeShort
  <2>2. P(0, J(f[0]))
    BY <2>1
  <2>3. QED
    BY <1>4, <2>2
<1>6. ASSUME NEW k \in U PROVE k + 1 \in U
  <2>0. k \in Nat /\ k + 1 \in Nat
    BY <1>4
  <2>1. SUFFICES ASSUME k + 1 <= n PROVE P(k + 1, J(f[k + 1]))
    BY <1>4, <2>0
  <2>2. PICK m \in 1 .. n : m = k + 1 /\ m - 1 = k
    BY <1>1, <2>0, <2>1
  <2>3. k \in 0 .. n /\ k <= n
    BY <1>1, <2>0, <2>1
  <2>4. f[m] = f[k] \o ss[m] /\ ss[m] \in Seq(S) /\ f[k] \in Seq(S)
    BY <1>1, <1>3, <2>2, <2>3
  <2>5. J(f[m]) = Or(J(f[k]), W[m])
    BY <1>2, <2>4, JudgeJoined
  <2>6. P(k, J(f[k]))
    BY <1>4, <2>3
  <2> DEFINE old == J(f[k])
             new == J(f[m])
  <2> HIDE DEF old, new
  <2>7. new = Or(old, W[m]) /\ P(k, old)
    BY <2>5, <2>6 DEF old, new
  <2>8. \A i : i \in 1 .. m <=> i \in 1 .. k \/ i = m
    BY <2>0, <2>2
  <2>9. \A i \in 1 .. k : i < m /\ ~(m < i)
    BY <2>0, <2>2
  <2>10. P(m, new)
    <3>1. CASE old # none
      <4>1. PICK i \in 1 .. k : W[i] = old /\ \A j \in 1 .. k : j < i => W[j] = none
        BY <2>7, <3>1
      <4>2. new = old /\ i \in 1 .. m
        BY <2>7, <2>8, <3>1 DEF Or
      <4>3. \A j \in 1 .. m : j < i => W[j] = none
        BY <2>8, <2>9, <4>1
      <4>4. QED
        BY <3>1, <4>1, <4>2, <4>3
    <3>2. CASE old = none
      <4>1. new = W[m] /\ \A i \in 1 .. k : W[i] = none
        BY <2>7, <3>2 DEF Or
      <4>2. CASE W[m] = none
        BY <2>8, <4>1, <4>2
      <4>3. CASE W[m] # none
        <5>1. m \in 1 .. m /\ \A j \in 1 .. m : j < m => W[j] = none
          BY <2>2, <2>8, <4>1
        <5>2. QED
          BY <4>1, <4>3, <5>1
      <4>4. QED
        BY <4>2, <4>3
    <3>3. QED
      BY <3>1, <3>2
  <2>11. QED
    BY <2>2, <2>10 DEF new
<1>7. U = Nat
  <2>1. U \subseteq Nat
    BY <1>4
  <2>2. QED
    BY ONLY <1>5, <1>6, <2>1, Induction
<1>8. P(n, J(f[n]))
  BY <1>1, <1>4, <1>7
<1>9. Leads(W, J(f[n]))
  BY <1>2, <1>8 DEF Leads
<1>10. DOMAIN W \subseteq Nat
  BY <1>2
<1>11. J(f[n]) = Leading(W)
  BY <1>9, <1>10, LeadingIs
<1>12. QED
  BY <1>3, <1>11 DEF W

-----------------------------------------------------------------------------
(* Outlets and the facts of a packet.                                      *)

\* Every outlet and every group a rule of an engine may name.
Reach == RuleTarget \cup {MacGlobal, MacTCP, MacUDP} \cup (Device \X Slot)
\* The rules of an engine.
AnyRule == [when : SUBSET Condition, to : Reach]

\* Groups choose what a rule may name, and no group has an outlet's name.
OutletsSound ==
    /\ \A g \in DOMAIN selected : selected[g] \in Reach
    /\ \A t \in {DIRECT, REJECT, Tailnet} : t \notin DOMAIN selected

\* Following groups leads to what a rule may name; an outlet is its own outlet.
LEMMA Reached ==
    ASSUME OutletsSound
    PROVE  /\ \A t \in Reach : Outlet(selected, t) \in Reach
           /\ \A t \in {DIRECT, REJECT, Tailnet} : Outlet(selected, t) = t
           /\ none \notin Reach /\ Builtin \cup {Tailnet} \subseteq Reach /\ PASS \notin Builtin \cup {Tailnet}
<1>1. \A t \in Reach : Chosen(selected, t) \in Reach
  BY DEF OutletsSound, Chosen
<1>2. \A t \in {DIRECT, REJECT, Tailnet} : Chosen(selected, t) = t
  BY DEF OutletsSound, Chosen
<1>3. \A t \in Reach : Outlet(selected, t) \in Reach
  BY <1>1 DEF Outlet
<1>4. \A t \in {DIRECT, REJECT, Tailnet} : Outlet(selected, t) = t
  BY <1>2 DEF Outlet
<1>5. none \notin Reach
  BY Names DEF Reach, RuleTarget, Named, Builtin
<1>6. Builtin \cup {Tailnet} \subseteq Reach /\ PASS \notin Builtin \cup {Tailnet}
  BY Names DEF Reach, RuleTarget, Named, Builtin
<1>7. QED
  BY <1>3, <1>4, <1>5, <1>6

\* What a rule decides is what its target does with the packet.
LEMMA Tried ==
    ASSUME NEW p, NEW facts, NEW c, NEW t
    PROVE  Verdict(facts, p.over, Rule(c, t)) = IF c \subseteq facts THEN Try(t, "pass", p) ELSE none
BY DEF Verdict, Rule, Try

\* An outlet always takes a packet; what follows a target with REJECT refuses
\* what the target cannot take (deviceSelectorRules).
LEMMA TriedTarget ==
    ASSUME OutletsSound, NEW p
    PROVE  /\ \A t \in {DIRECT, REJECT, Tailnet} : \A u : Try(t, u, p) = t
           /\ \A t \in Reach : Or(Try(t, "pass", p), REJECT) = Try(t, "reject", p)
<1>1. /\ \A t \in Reach : Outlet(selected, t) \in Reach
      /\ \A t \in {DIRECT, REJECT, Tailnet} : Outlet(selected, t) = t
      /\ none \notin Reach /\ PASS \notin {DIRECT, REJECT, Tailnet}
  BY Reached DEF Builtin
<1>2. ASSUME NEW t \in {DIRECT, REJECT, Tailnet}, NEW u PROVE Try(t, u, p) = t
  <2>1. t # PASS /\ Carries(t, p.over)
    BY <1>1 DEF Carries, Builtin
  <2>2. QED
    BY <1>1, <2>1 DEF Try
<1>3. ASSUME NEW t \in Reach PROVE Or(Try(t, "pass", p), REJECT) = Try(t, "reject", p)
  BY <1>1 DEF Try, Or
<1>4. QED
  BY <1>2, <1>3

\* A list of one rule, and one of two.
OneOrTwo(S, r, s, facts, over, one, two) ==
    /\ one \in Seq(S) /\ two \in Seq(S)
    /\ \A i \in DOMAIN one : one[i] = r
    /\ \A i \in DOMAIN two : two[i] \in {r, s}
    /\ Judge(facts, over, one) = Verdict(facts, over, r)
    /\ Judge(facts, over, two) = Or(Verdict(facts, over, r), Verdict(facts, over, s))

\* One rule and two rules, as they are put together.
LEMMA JudgeTwo ==
    ASSUME NEW S, NEW r \in S, NEW s \in S, NEW facts, NEW over
    PROVE  OneOrTwo(S, r, s, facts, over, <<r>> \o <<>>, <<r>> \o <<s>>)
<1>1. <<r>> \in Seq(S) /\ <<s>> \in Seq(S) /\ <<r>> \o <<>> = <<r>> /\ <<r>> \o <<s>> \in Seq(S)
  OBVIOUS
<1>2. DOMAIN <<r>> = {1} /\ <<r>>[1] = r /\ DOMAIN (<<r>> \o <<s>>) = {1, 2} /\ (<<r>> \o <<s>>)[1] = r /\ (<<r>> \o <<s>>)[2] = s
  OBVIOUS
<1>3. Judge(facts, over, <<r>> \o <<s>>) = Or(Judge(facts, over, <<r>>), Judge(facts, over, <<s>>))
  BY <1>1, JudgeJoined, ZenonT(60)
<1>4. Judge(facts, over, <<r>>) = Verdict(facts, over, r) /\ Judge(facts, over, <<s>>) = Verdict(facts, over, s)
  BY JudgeShort
<1>5. PICK one : one = <<r>>
  OBVIOUS
<1>6. PICK two : two = <<r>> \o <<s>>
  OBVIOUS
<1>7. OneOrTwo(S, r, s, facts, over, one, two)
  BY <1>1, <1>2, <1>3, <1>4, <1>5, <1>6 DEF OneOrTwo
<1>8. QED
  BY <1>1, <1>5, <1>6, <1>7

\* A list decides what its target does with the packets that meet the conditions.
GuardDecides(facts, p, c, t, u, list) ==
    /\ list \in Seq(AnyRule)
    /\ \A i \in DOMAIN list : list[i].when = c
    /\ Judge(facts, p.over, list) = IF c \subseteq facts THEN Try(t, u, p) ELSE none

\* A rule with its guard against what the target cannot carry does so.
LEMMA JudgeGuarded ==
    ASSUME OutletsSound, NEW p, NEW facts, NEW c \in SUBSET Condition, NEW t \in Reach, NEW u
    PROVE  GuardDecides(facts, p, c, t, u, Guarded(c, t, u))
<1>1. REJECT \in Reach /\ \A b \in Builtin : b \in {DIRECT, REJECT, Tailnet}
  BY Reached DEF Builtin
<1>2. PICK r : r = Rule(c, t)
  OBVIOUS
<1>3. PICK s : s = Rule(c, REJECT)
  OBVIOUS
<1>4. r \in AnyRule /\ s \in AnyRule /\ r.when = c /\ s.when = c
  BY <1>1, <1>2, <1>3 DEF Rule, AnyRule
<1>5. /\ Verdict(facts, p.over, r) = (IF c \subseteq facts THEN Try(t, "pass", p) ELSE none)
      /\ Verdict(facts, p.over, s) = (IF c \subseteq facts THEN Try(REJECT, "pass", p) ELSE none)
  BY <1>2, <1>3 DEF Verdict, Rule, Try
<1>6. Try(REJECT, "pass", p) = REJECT
  BY TriedTarget
<1>7. PICK one, two : one = <<r>> \o <<>> /\ two = <<r>> \o <<s>>
  OBVIOUS
<1>7a. OneOrTwo(AnyRule, r, s, facts, p.over, one, two)
  BY <1>4, <1>7, JudgeTwo
<1>8. CASE u = "reject" /\ t \notin Builtin
  <2>1. Guarded(c, t, u) = two
    BY <1>2, <1>3, <1>7, <1>8 DEF Guarded, CanFallThrough
  <2>2. Or(Try(t, "pass", p), REJECT) = Try(t, u, p) /\ Or(none, none) = none
    BY <1>8, TriedTarget DEF Or
  <2>3. QED
    BY <1>4, <1>5, <1>6, <1>7a, <2>1, <2>2 DEF OneOrTwo, GuardDecides
<1>9. CASE ~(u = "reject" /\ t \notin Builtin)
  <2>1. Guarded(c, t, u) = one
    BY <1>2, <1>7, <1>9 DEF Guarded, CanFallThrough
  <2>2. Try(t, u, p) = Try(t, "pass", p)
    <3>1. CASE t \in Builtin
      BY <1>1, <3>1, TriedTarget
    <3>2. CASE u # "reject"
      BY <3>2 DEF Try
    <3>3. QED
      BY <1>9, <3>1, <3>2
  <2>3. QED
    BY <1>4, <1>5, <1>7a, <2>1, <2>2 DEF OneOrTwo, GuardDecides
<1>10. QED
  BY <1>8, <1>9

-----------------------------------------------------------------------------
\* What is known of the sender of a packet.
Sender(p) == IF p.from = Mac THEN FromMac(p.v6) ELSE IF p.v6 THEN FromUser(p.from) ELSE FromHost(p.host)

\* What a packet may be.
IsPacket(p) ==
    /\ p.v6 \in BOOLEAN /\ p.from \in Machine \cup {Mac}
    /\ p.over \in {"tcp", "udp"} /\ p.to \in Site \cup {Local, Peer}

\* An address that is never sent through an outlet for the Internet.
IsLocal(p) == p.to = Local \/ (p.to = Peer /\ ~p.v6)

\* A packet has one sender, destination and transport, and the facts say which.
LEMMA FactsOf ==
    ASSUME NEW p, IsPacket(p)
    PROVE  /\ \A x : <<"to", x>> \in Facts(p) <=> x = p.to
           /\ \A x : <<"over", x>> \in Facts(p) <=> x = p.over
           /\ \A x : <<"set", x>> \in Facts(p) <=> x \in DOMAIN Lists /\ p.to \in Lists[x]
           /\ \A v \in BOOLEAN : LocalRange(v) \in Facts(p) <=> v = p.v6 /\ IsLocal(p)
           /\ \A h : FromHost(h) \in Facts(p) <=> p.from # Mac /\ ~p.v6 /\ h = p.host
           /\ \A d : FromUser(d) \in Facts(p) <=> p.from # Mac /\ p.v6 /\ d = p.from
           /\ \A v \in BOOLEAN : FromMac(v) \in Facts(p) <=> p.from = Mac /\ v = p.v6
<1> DEFINE sets == {<<"set", l>> : l \in {k \in DOMAIN Lists : p.to \in Lists[k]}}
           ranges == {LocalRange(v) : v \in {p.v6} \cap
                        (IF p.to = Local THEN BOOLEAN ELSE IF p.to = Peer THEN {FALSE} ELSE {})}
           rest == {Sender(p), <<"over", p.over>>, <<"to", p.to>>}
<1>1. Facts(p) = rest \cup sets \cup ranges
  BY DEF Facts, Sender
<1>2. \A x : x \in sets <=> \E l \in DOMAIN Lists : p.to \in Lists[l] /\ x = <<"set", l>>
  OBVIOUS
<1>3. \A x : x \in ranges <=> IsLocal(p) /\ x = <<"local", p.v6>>
  <2>1. CASE p.to = Local
    BY <2>1 DEF LocalRange, IsLocal, IsPacket, Local, Peer
  <2>2. CASE p.to = Peer
    BY <2>2 DEF LocalRange, IsLocal, IsPacket, Local, Peer
  <2>3. CASE p.to # Local /\ p.to # Peer
    BY <2>3 DEF LocalRange, IsLocal
  <2>4. QED
    BY <2>1, <2>2, <2>3
<1>4. \A x : x \in rest <=> x = Sender(p) \/ x = <<"over", p.over>> \/ x = <<"to", p.to>>
  OBVIOUS
<1>5. Sender(p) = <<"mac", p.v6>> \/ Sender(p) = <<"user", p.from>> \/ Sender(p) = <<"src", p.host>>
  BY DEF Sender, FromMac, FromUser, FromHost
<1> HIDE DEF sets, ranges, rest
<1>6. \A x : x \in Facts(p) <=> \/ x = Sender(p) \/ x = <<"over", p.over>> \/ x = <<"to", p.to>>
                                \/ \E l \in DOMAIN Lists : p.to \in Lists[l] /\ x = <<"set", l>>
                                \/ IsLocal(p) /\ x = <<"local", p.v6>>
  BY <1>1, <1>2, <1>3, <1>4
<1>7. \A x : <<"to", x>> \in Facts(p) <=> x = p.to
  BY <1>5, <1>6
<1>8. \A x : <<"over", x>> \in Facts(p) <=> x = p.over
  BY <1>5, <1>6
<1>9. \A x : <<"set", x>> \in Facts(p) <=> x \in DOMAIN Lists /\ p.to \in Lists[x]
  BY <1>5, <1>6
<1>10. \A v \in BOOLEAN : LocalRange(v) \in Facts(p) <=> v = p.v6 /\ IsLocal(p)
  BY <1>5, <1>6 DEF LocalRange
<1>11. \A h : FromHost(h) \in Facts(p) <=> FromHost(h) = Sender(p)
  BY <1>6 DEF FromHost
<1>12. \A d : FromUser(d) \in Facts(p) <=> FromUser(d) = Sender(p)
  BY <1>6 DEF FromUser
<1>13. \A v : FromMac(v) \in Facts(p) <=> FromMac(v) = Sender(p)
  BY <1>6 DEF FromMac
<1>14. \A h : FromHost(h) = Sender(p) <=> p.from # Mac /\ ~p.v6 /\ h = p.host
  BY DEF Sender, FromMac, FromUser, FromHost
<1>15. \A d : FromUser(d) = Sender(p) <=> p.from # Mac /\ p.v6 /\ d = p.from
  BY DEF Sender, FromMac, FromUser, FromHost
<1>16. \A v : FromMac(v) = Sender(p) <=> p.from = Mac /\ v = p.v6
  BY DEF Sender, FromMac, FromUser, FromHost
<1>17. QED
  BY <1>7, <1>8, <1>9, <1>10, <1>11, <1>12, <1>13, <1>14, <1>15, <1>16

-----------------------------------------------------------------------------
(* The senders.                                                            *)

\* The k-th device has sent the packet.
IsMine(compiled, settings, p, k) == compiled[k].id = p.from /\ (p.v6 => compiled[k].mac /\ settings.ipv6)

\* Devices are told apart, and what a packet's source address says of its sender
\* is true.
Listed(compiled, p) ==
    /\ \E n \in Nat : DOMAIN compiled = 1 .. n
    /\ \A k \in DOMAIN compiled : compiled[k].id \in Device /\ compiled[k].host \in Nat /\ compiled[k].mac \in BOOLEAN
    /\ \A j, k \in DOMAIN compiled : compiled[j].id = compiled[k].id \/ compiled[j].host = compiled[k].host => compiled[j] = compiled[k]
    /\ \A k \in DOMAIN compiled : FromHost(compiled[k].host) \in Facts(p) <=> ~p.v6 /\ compiled[k].id = p.from

\* What is known of a packet, its sender as an IPv4 address.
Plain(compiled, settings, p) ==
    {x \in Facts(p) : x # Sender(p)}
    \cup {FromHost(compiled[k].host) : k \in {j \in DOMAIN compiled : IsMine(compiled, settings, p, j)}}

\* Conditions that are not on the sender.
Asks == ({"to"} \X (Site \cup {Local, Peer})) \cup ({"over"} \X {"tcp", "udp"}) \cup ({"set"} \X DOMAIN Lists)

\* A rule for the k-th device: its address and conditions on anything else.
DeviceRule(compiled, k, r) ==
    /\ r \in AnyRule
    /\ \E c \in SUBSET Asks : r.when = c \cup {FromHost(compiled[k].host)}

\* Conditions on anything else are not on a sender.
LEMMA AskedConditions == \A x \in Asks : \A p : x # Sender(p) /\ \A h : x # FromHost(h)
BY DEF Asks, Sender, FromHost, FromUser, FromMac

\* They are conditions.
LEMMA AskedOnly == \A x \in Asks : x \in Condition
BY DEF Asks, Condition

\* What any rule says is what its target does with the packet.
LEMMA VerdictOf ==
    ASSUME NEW p, NEW facts, NEW r
    PROVE  Verdict(facts, p.over, r) = IF r.when \subseteq facts THEN Try(r.to, "pass", p) ELSE none
BY DEF Verdict, Try

\* With the sender known by its address a device's rule applies to the packets of
\* that device that meet its conditions.
LEMMA PlainFacts ==
    ASSUME NEW compiled, NEW settings, NEW p, Listed(compiled, p), NEW k \in DOMAIN compiled, NEW c \in SUBSET Asks
    PROVE  /\ (c \cup {FromHost(compiled[k].host)} \subseteq Plain(compiled, settings, p)) <=>
                 (c \subseteq Facts(p) /\ IsMine(compiled, settings, p, k))
           /\ FromHost(compiled[k].host) \in Plain(compiled, settings, p) <=> IsMine(compiled, settings, p, k)
           /\ (c \subseteq Plain(compiled, settings, p)) <=> (c \subseteq Facts(p))
<1> DEFINE plain == Plain(compiled, settings, p)
<1>1. \A x : x \in plain <=> \/ x \in Facts(p) /\ x # Sender(p)
                             \/ \E j \in DOMAIN compiled : IsMine(compiled, settings, p, j) /\ x = FromHost(compiled[j].host)
  BY DEF Plain
<1> HIDE DEF plain
<1>2. \A x \in c : x \in plain <=> x \in Facts(p)
  BY <1>1, AskedConditions
<1>3. FromHost(compiled[k].host) \in plain <=> IsMine(compiled, settings, p, k)
  <2>1. ASSUME NEW j \in DOMAIN compiled, FromHost(compiled[k].host) = FromHost(compiled[j].host)
        PROVE  IsMine(compiled, settings, p, j) <=> IsMine(compiled, settings, p, k)
    <3>1. compiled[k].host = compiled[j].host
      BY <2>1 DEF FromHost
    <3>2. compiled[j] = compiled[k]
      BY <3>1 DEF Listed
    <3>3. QED
      BY <3>2 DEF IsMine
  <2>2. FromHost(compiled[k].host) \in Facts(p) /\ FromHost(compiled[k].host) # Sender(p) => FALSE
    <3>1. ASSUME NEW h, FromHost(h) \in Facts(p) PROVE FromHost(h) = Sender(p)
      BY <3>1 DEF Facts, Sender, FromHost, FromUser, FromMac, LocalRange
    <3>2. QED
      BY <3>1
  <2>3. QED
    BY <1>1, <2>1, <2>2
<1>4. QED
  BY <1>2, <1>3 DEF plain

\* The rule of a device with its twin for the packet listener's user.
Twinned(compiled, r) ==
    LET known == {compiled[i] : i \in {j \in DOMAIN compiled : compiled[j].mac}}
        Of == {d \in known : FromHost(d.host) \in r.when}
        d == CHOOSE x \in Of : TRUE
    IN  IF Of = {} THEN <<r>> ELSE <<r, Rule((r.when \ {FromHost(d.host)}) \cup {FromUser(d.id)}, r.to)>>

\* addIPv6IdentityRules puts each rule's twin behind it, if IPv6 is offered.
LEMMA UsersTwinned ==
    ASSUME NEW compiled, NEW rules, NEW settings
    PROVE  WithUsers(compiled, rules, settings)
           = IF ~settings.ipv6 THEN rules ELSE FlattenSeq([i \in DOMAIN rules |-> Twinned(compiled, rules[i])])
BY DEF WithUsers, Twinned

\* Two rules, the one after the other.
LEMMA JudgePair ==
    ASSUME NEW S, NEW r \in S, NEW s \in S, NEW facts, NEW over
    PROVE  <<r, s>> \in Seq(S) /\ Judge(facts, over, <<r, s>>) = Or(Verdict(facts, over, r), Verdict(facts, over, s))
<1> DEFINE W == [i \in DOMAIN <<r, s>> |-> Verdict(facts, over, <<r, s>>[i])]
<1>1. <<r, s>> \in Seq(S) /\ DOMAIN <<r, s>> = {1, 2} /\ <<r, s>>[1] = r /\ <<r, s>>[2] = s
  OBVIOUS
<1>2. DOMAIN W = {1, 2} /\ W[1] = Verdict(facts, over, r) /\ W[2] = Verdict(facts, over, s)
  BY <1>1
<1>3. Judge(facts, over, <<r, s>>) = Leading(W)
  BY DEF Judge
<1> HIDE DEF W
<1>4. Leads(W, Or(W[1], W[2])) /\ DOMAIN W \subseteq Nat
  BY <1>2 DEF Leads, Or
<1>5. Leading(W) = Or(W[1], W[2])
  BY <1>4, LeadingIs
<1>6. QED
  BY <1>1, <1>2, <1>3, <1>5

\* A rule and its twin decide over a packet of either family what the rule decides
\* with the sender told by its address.
LEMMA TwinDecides ==
    ASSUME NEW compiled, NEW settings, NEW p, IsPacket(p), Listed(compiled, p), settings.ipv6,
           NEW k \in DOMAIN compiled, NEW r, DeviceRule(compiled, k, r)
    PROVE  /\ Twinned(compiled, r) \in Seq(AnyRule)
           /\ Judge(Facts(p), p.over, Twinned(compiled, r)) = Verdict(Plain(compiled, settings, p), p.over, r)
<1> DEFINE h == compiled[k].host
           known == {compiled[i] : i \in {j \in DOMAIN compiled : compiled[j].mac}}
           Of == {d \in known : FromHost(d.host) \in r.when}
           T == Try(r.to, "pass", p)
<1>1. PICK c \in SUBSET Asks : r.when = c \cup {FromHost(h)}
  BY DEF DeviceRule
<1>2. \A x \in c : \A g : x # FromHost(g)
  BY AskedConditions
<1>3. r \in AnyRule /\ r.when \in SUBSET Condition /\ r.to \in Reach
  BY DEF DeviceRule, AnyRule
<1>4. ASSUME NEW d PROVE d \in Of <=> d = compiled[k] /\ compiled[k].mac
  <2>1. ASSUME NEW j \in DOMAIN compiled, FromHost(compiled[j].host) \in r.when PROVE compiled[j] = compiled[k]
    <3>1. FromHost(compiled[j].host) = FromHost(h)
      BY <1>1, <1>2, <2>1
    <3>2. compiled[j].host = h
      BY <3>1 DEF FromHost
    <3>3. QED
      BY <3>2 DEF Listed
  <2>2. FromHost(h) \in r.when
    BY <1>1
  <2>3. QED
    BY <2>1, <2>2
<1>5. Verdict(Plain(compiled, settings, p), p.over, r) = IF c \subseteq Facts(p) /\ IsMine(compiled, settings, p, k) THEN T ELSE none
  <2>1. Verdict(Plain(compiled, settings, p), p.over, r) = IF r.when \subseteq Plain(compiled, settings, p) THEN T ELSE none
    BY VerdictOf
  <2>2. QED
    BY <1>1, <2>1, PlainFacts
<1>6. Verdict(Facts(p), p.over, r) = IF c \subseteq Facts(p) /\ ~p.v6 /\ compiled[k].id = p.from THEN T ELSE none
  <2>1. Verdict(Facts(p), p.over, r) = IF r.when \subseteq Facts(p) THEN T ELSE none
    BY VerdictOf
  <2>2. FromHost(h) \in Facts(p) <=> ~p.v6 /\ compiled[k].id = p.from
    BY DEF Listed
  <2>3. QED
    BY <1>1, <2>1, <2>2
<1>7. CASE ~compiled[k].mac
  <2>1. Twinned(compiled, r) = <<r>>
    BY <1>4, <1>7 DEF Twinned
  <2>2. <<r>> \in Seq(AnyRule) /\ Judge(Facts(p), p.over, <<r>>) = Verdict(Facts(p), p.over, r)
    BY <1>3, JudgeShort
  <2>3. IsMine(compiled, settings, p, k) <=> ~p.v6 /\ compiled[k].id = p.from
    BY <1>7 DEF IsMine, IsPacket
  <2>4. QED
    BY <1>5, <1>6, <2>1, <2>2, <2>3
<1>8. CASE compiled[k].mac
  <2>1. PICK s : s = Rule((r.when \ {FromHost(h)}) \cup {FromUser(compiled[k].id)}, r.to)
    OBVIOUS
  <2>2. Of = {compiled[k]}
    BY <1>4, <1>8
  <2>3. (CHOOSE x \in Of : TRUE) = compiled[k] /\ Of # {}
    BY <2>2
  <2>4. Twinned(compiled, r) = <<r, s>>
    BY <2>1, <2>3 DEF Twinned
  <2>5. s.when = c \cup {FromUser(compiled[k].id)} /\ s.to = r.to
    <3>1. r.when \ {FromHost(h)} = c
      BY <1>1, <1>2
    <3>2. QED
      BY <2>1, <3>1 DEF Rule
  <2>6. s \in AnyRule
    <3>1. FromUser(compiled[k].id) \in Condition
      BY DEF Listed, FromUser, Condition
    <3>2. c \cup {FromUser(compiled[k].id)} \in SUBSET Condition
      BY <3>1, AskedOnly
    <3>3. QED
      BY <1>3, <2>1, <2>5, <3>2 DEF Rule, AnyRule
  <2>7. FromUser(compiled[k].id) \in Facts(p) <=> p.v6 /\ compiled[k].id = p.from
    <3>1. compiled[k].id # Mac
      BY RoutingAssumption DEF Listed
    <3>2. QED
      BY <3>1, FactsOf
  <2>8. Verdict(Facts(p), p.over, s) = IF c \subseteq Facts(p) /\ p.v6 /\ compiled[k].id = p.from THEN T ELSE none
    <3>1. Verdict(Facts(p), p.over, s) = IF s.when \subseteq Facts(p) THEN T ELSE none
      BY <2>5, VerdictOf
    <3>2. QED
      BY <2>5, <2>7, <3>1
  <2>9. <<r, s>> \in Seq(AnyRule) /\ Judge(Facts(p), p.over, <<r, s>>) = Or(Verdict(Facts(p), p.over, r), Verdict(Facts(p), p.over, s))
    BY <1>3, <2>6, JudgePair
  <2>10. IsMine(compiled, settings, p, k) <=> compiled[k].id = p.from
    BY <1>8 DEF IsMine
  <2>11. p.v6 \in BOOLEAN
    BY DEF IsPacket
  <2> HIDE DEF T
  <2>12. Or(Verdict(Facts(p), p.over, r), Verdict(Facts(p), p.over, s)) = Verdict(Plain(compiled, settings, p), p.over, r)
    BY <1>5, <1>6, <2>8, <2>10, <2>11 DEF Or
  <2>13. QED
    BY <2>4, <2>9, <2>12
<1>9. QED
  BY <1>7, <1>8

\* A list of rules of devices decides over a packet of either family what it
\* decides with the sender told by its address.
LEMMA UsersDecide ==
    ASSUME NEW compiled, NEW settings, NEW p, IsPacket(p), Listed(compiled, p),
           NEW rules \in Seq(AnyRule), \A i \in DOMAIN rules : \E k \in DOMAIN compiled : DeviceRule(compiled, k, rules[i])
    PROVE  /\ WithUsers(compiled, rules, settings) \in Seq(AnyRule)
           /\ Judge(Facts(p), p.over, WithUsers(compiled, rules, settings)) = Judge(Plain(compiled, settings, p), p.over, rules)
<1> DEFINE plain == Plain(compiled, settings, p)
<1>1. CASE ~settings.ipv6
  <2>1. WithUsers(compiled, rules, settings) = rules
    BY <1>1, UsersTwinned
  <2>2. ASSUME NEW i \in DOMAIN rules PROVE Verdict(Facts(p), p.over, rules[i]) = Verdict(plain, p.over, rules[i])
    <3>1. PICK k \in DOMAIN compiled : DeviceRule(compiled, k, rules[i])
      OBVIOUS
    <3>2. PICK c \in SUBSET Asks : rules[i].when = c \cup {FromHost(compiled[k].host)}
      BY <3>1 DEF DeviceRule
    <3>3. FromHost(compiled[k].host) \in Facts(p) <=> ~p.v6 /\ compiled[k].id = p.from
      BY DEF Listed
    <3>4. IsMine(compiled, settings, p, k) <=> ~p.v6 /\ compiled[k].id = p.from
      BY <1>1 DEF IsMine, IsPacket
    <3>5. (rules[i].when \subseteq Facts(p)) <=> (rules[i].when \subseteq plain)
      BY <3>2, <3>3, <3>4, PlainFacts
    <3>6. QED
      BY <3>5, VerdictOf
  <2>3. [i \in DOMAIN rules |-> Verdict(Facts(p), p.over, rules[i])] = [i \in DOMAIN rules |-> Verdict(plain, p.over, rules[i])]
    BY <2>2
  <2>4. QED
    BY <2>1, <2>3 DEF Judge
<1>2. CASE settings.ipv6
  <2> DEFINE ss == [i \in DOMAIN rules |-> Twinned(compiled, rules[i])]
  <2>1. WithUsers(compiled, rules, settings) = FlattenSeq(ss)
    BY <1>2, UsersTwinned
  <2>2. ASSUME NEW i \in DOMAIN rules
        PROVE  ss[i] \in Seq(AnyRule) /\ Judge(Facts(p), p.over, ss[i]) = Verdict(plain, p.over, rules[i])
    <3>1. PICK k \in DOMAIN compiled : DeviceRule(compiled, k, rules[i])
      OBVIOUS
    <3>2. QED
      BY <1>2, <3>1, TwinDecides
  <2>3. DOMAIN ss = DOMAIN rules /\ DOMAIN rules = 1 .. Len(rules) /\ Len(rules) \in Nat
    OBVIOUS
  <2>4. ss \in [1 .. Len(rules) -> Seq(AnyRule)]
    BY <2>2, <2>3
  <2> HIDE DEF ss, plain
  <2>5. ss \in Seq(Seq(AnyRule))
    BY <2>3, <2>4
  <2>6. FlattenSeq(ss) \in Seq(AnyRule)
    BY <2>5, FlattenedMembers
  <2>7. Judge(Facts(p), p.over, FlattenSeq(ss)) = Leading([i \in DOMAIN ss |-> Judge(Facts(p), p.over, ss[i])])
    BY <2>5, JudgeFlattened
  <2>8. [i \in DOMAIN ss |-> Judge(Facts(p), p.over, ss[i])] = [i \in DOMAIN rules |-> Verdict(plain, p.over, rules[i])]
    BY <2>2, <2>3
  <2>9. QED
    BY <2>1, <2>6, <2>7, <2>8 DEF Judge, plain
<1>3. QED
  BY <1>1, <1>2

-----------------------------------------------------------------------------
(* One device among all.                                                   *)

\* Only one device has sent a packet.
LEMMA MineOnce ==
    ASSUME NEW compiled, NEW settings, NEW p, Listed(compiled, p),
           NEW j \in DOMAIN compiled, NEW k \in DOMAIN compiled,
           IsMine(compiled, settings, p, j), IsMine(compiled, settings, p, k)
    PROVE  compiled[j] = compiled[k]
BY DEF IsMine, Listed

\* Of what devices have each only that of the sender decides.
JoinDecides(compiled, settings, p, facts, over, ss) ==
    /\ FlattenSeq(ss) \in Seq(AnyRule)
    /\ ToSet(FlattenSeq(ss)) = UNION {ToSet(ss[k]) : k \in DOMAIN compiled}
    /\ \A k \in DOMAIN compiled : IsMine(compiled, settings, p, k) =>
           Judge(facts, over, FlattenSeq(ss)) = Judge(facts, over, ss[k])
    /\ (\A k \in DOMAIN compiled : ~IsMine(compiled, settings, p, k)) => Judge(facts, over, FlattenSeq(ss)) = none

\* Where each device's list says nothing of the packets of others, all of them say
\* what the sender's says.
LEMMA JoinedDecides ==
    ASSUME NEW compiled, NEW settings, NEW p, Listed(compiled, p), NEW facts, NEW over,
           NEW ss \in [DOMAIN compiled -> Seq(AnyRule)], \A j, k \in DOMAIN compiled : compiled[j] = compiled[k] => ss[j] = ss[k],
           \A k \in DOMAIN compiled : ~IsMine(compiled, settings, p, k) => Judge(facts, over, ss[k]) = none
    PROVE  JoinDecides(compiled, settings, p, facts, over, ss)
<1>1. PICK n \in Nat : DOMAIN compiled = 1 .. n
  BY DEF Listed
<1>2. ss \in Seq(Seq(AnyRule)) /\ DOMAIN ss = DOMAIN compiled
  BY <1>1
<1>3. FlattenSeq(ss) \in Seq(AnyRule) /\ ToSet(FlattenSeq(ss)) = UNION {ToSet(ss[k]) : k \in DOMAIN compiled}
  BY <1>2, FlattenedMembers
<1> DEFINE W == [k \in DOMAIN ss |-> Judge(facts, over, ss[k])]
<1>4. Judge(facts, over, FlattenSeq(ss)) = Leading(W)
  BY <1>2, JudgeFlattened
<1>5. DOMAIN W = DOMAIN compiled /\ \A k \in DOMAIN compiled : W[k] = Judge(facts, over, ss[k])
  BY <1>2
<1>6. DOMAIN W \subseteq Nat
  BY <1>1, <1>5
<1> HIDE DEF W
<1>7. ASSUME NEW k \in DOMAIN compiled, IsMine(compiled, settings, p, k) PROVE Leading(W) = W[k]
  <2>1. ASSUME NEW j \in DOMAIN W PROVE W[j] \in {W[k], none}
    <3>1. CASE IsMine(compiled, settings, p, j)
      <4>1. ss[j] = ss[k]
        BY <1>5, <1>7, <3>1, MineOnce
      <4>2. QED
        BY <1>5, <4>1
    <3>2. CASE ~IsMine(compiled, settings, p, j)
      BY <1>5, <3>2
    <3>3. QED
      BY <3>1, <3>2
  <2>2. Leading(W) = IF \E j \in DOMAIN W : W[j] = W[k] THEN W[k] ELSE none
    BY <1>6, <2>1, LeadingConstant
  <2>3. QED
    BY <1>5, <2>2
<1>8. ASSUME \A k \in DOMAIN compiled : ~IsMine(compiled, settings, p, k) PROVE Leading(W) = none
  BY <1>5, <1>6, <1>8, LeadingNone
<1>9. QED
  BY <1>3, <1>4, <1>5, <1>7, <1>8 DEF JoinDecides

-----------------------------------------------------------------------------
(* What reaches the engine.                                                *)

\* A packet came from its sender to the engine's router, from an address DHCP gave
\* to that sender, or over the IPv6 the engine offers.
Arrives(policy, settings, p) ==
    /\ IsPacket(p)
    /\ p.from # Mac /\ ~p.v6 =>
          \E l \in Leases(policy, settings, p.from) : l.router = settings.gateway /\ p.host = l.host
    /\ p.from # Mac /\ p.v6 => settings.ipv6

\* Every packet of the model did.
LEMMA PacketsArrive ==
    ASSUME NEW p \in Packets
    PROVE  Arrives(Documents[engine.doc], Nets[engine.net], p)
<1> DEFINE n == Nets[engine.net]
           Through(m) == {l \in Leases(Documents[engine.doc], n, m) : l.router = n.gateway}
           A == {[from |-> Mac, v6 |-> v, host |-> 0] : v \in BOOLEAN}
           B == UNION {{[from |-> m, v6 |-> FALSE, host |-> l.host] : l \in Through(m)} : m \in Machine}
           C == IF n.ipv6 THEN {[from |-> m, v6 |-> TRUE, host |-> 0] : m \in Machine} ELSE {}
<1>1. Origins = A \cup B \cup C
  BY DEF Origins
<1>2. PICK o \in Origins, t \in {"tcp", "udp"}, x \in Site \cup {Local, Peer} :
          p = [from |-> o.from, v6 |-> o.v6, host |-> o.host, over |-> t, to |-> x]
  BY DEF Packets
<1>3. p.from = o.from /\ p.v6 = o.v6 /\ p.host = o.host /\ p.over = t /\ p.to = x
  BY <1>2
<1>4. CASE o \in A
  BY <1>3, <1>4 DEF Arrives, IsPacket
<1>5. CASE o \in B
  <2>0. PICK m \in Machine : o \in {[from |-> m, v6 |-> FALSE, host |-> l.host] : l \in Through(m)}
    BY <1>5
  <2>1. PICK l \in Through(m) : o = [from |-> m, v6 |-> FALSE, host |-> l.host]
    BY <2>0
  <2>2. o.from = m /\ ~o.v6 /\ o.v6 \in BOOLEAN /\ o.host = l.host /\ l \in Leases(Documents[engine.doc], n, m) /\ l.router = n.gateway
    BY <2>1
  <2> HIDE DEF Through
  <2>3. QED
    BY <1>3, <2>2 DEF Arrives, IsPacket
<1>6. CASE o \in C
  <2>1. n.ipv6 /\ \E m \in Machine : o = [from |-> m, v6 |-> TRUE, host |-> 0]
    BY <1>6
  <2>2. o.from \in Machine /\ o.v6 /\ o.v6 \in BOOLEAN
    BY <2>1
  <2>3. QED
    BY <1>3, <2>1, <2>2 DEF Arrives, IsPacket
<1>7. QED
  BY <1>1, <1>4, <1>5, <1>6

\* Everybody whose registration is in force has a reservation.
LEMMA AllReserved ==
    ASSUME NEW policy, IsDocument(policy), NEW settings, ValidSettings(settings)
    PROVE  Reserved(policy, settings) = ToSet(Active(policy, settings))
<1>1. \A d \in ToSet(Active(policy, settings)) : d.mac \/ IPOnlyActive(settings)
  BY ActiveMembers
<1>2. IPOnlyActive(settings) => ~settings.dhcp
  BY DEF ValidSettings, IPOnlyActive
<1>3. QED
  BY <1>1, <1>2 DEF Reserved

\* No two of them have the same address.
LEMMA ActiveApart ==
    ASSUME NEW policy, IsDocument(policy), ValidPolicySet(policy), NEW settings,
           NEW d \in ToSet(Active(policy, settings)), NEW e \in ToSet(Active(policy, settings)), d.host = e.host
    PROVE  d = e
<1>1. d \in ToSet(policy.devices) /\ e \in ToSet(policy.devices) /\ d.lan = e.lan
  BY ActiveMembers
<1>2. PICK i \in DOMAIN policy.devices, j \in DOMAIN policy.devices : d = policy.devices[i] /\ e = policy.devices[j]
  BY <1>1 DEF ToSet
<1>3. IsInjective([k \in DOMAIN policy.devices |-> <<policy.devices[k].lan, policy.devices[k].host>>])
  BY DEF ValidPolicySet, SomeRepeated
<1>4. i = j
  BY <1>1, <1>2, <1>3 DEF IsInjective
<1>5. QED
  BY <1>2, <1>4

\* A source address in IPv4 is that of its sender, and of nobody else.
LEMMA SourceTold ==
    ASSUME NEW policy, IsDocument(policy), ValidPolicySet(policy), NEW settings, Valid(policy, settings),
           NEW p, Arrives(policy, settings, p), p.from # Mac, ~p.v6, NEW d \in ToSet(Active(policy, settings))
    PROVE  /\ d.host = p.host <=> d.id = p.from
           /\ d.id = p.from => EffectiveGateway(d) # "upstream_router"
<1> DEFINE own == {e \in Reserved(policy, settings) : e.id = p.from}
           Router(e) == IF EffectiveGateway(e) = "upstream_router" THEN settings.router ELSE settings.gateway
<1>1. Reserved(policy, settings) = ToSet(Active(policy, settings))
  BY AllReserved DEF Valid
<1>2. PICK l \in Leases(policy, settings, p.from) : l.router = settings.gateway /\ p.host = l.host
  BY DEF Arrives
<1>3. CASE own # {}
  <2>1. Leases(policy, settings, p.from) = {[host |-> e.host, router |-> Router(e)] : e \in own}
    BY <1>3 DEF Leases
  <2>2. PICK e \in own : l = [host |-> e.host, router |-> Router(e)]
    BY <1>2, <2>1
  <2>3. e \in ToSet(Active(policy, settings)) /\ e.id = p.from /\ e.host = p.host /\ Router(e) = settings.gateway
    BY <1>1, <1>2, <2>2
  <2>4. d.host = p.host => d = e
    BY <2>3, ActiveApart
  <2>5. d.id = p.from => d = e
    BY <2>3, ActiveOnce
  <2>6. EffectiveGateway(e) # "upstream_router"
    <3>1. ASSUME EffectiveGateway(e) = "upstream_router" PROVE settings.router # settings.gateway
      BY <2>3, <3>1 DEF Valid, ValidForLAN, ValidBypass
    <3>2. QED
      BY <2>3, <3>1
  <2>7. QED
    BY <2>3, <2>4, <2>5, <2>6
<1>4. CASE own = {}
  <2>1. Leases(policy, settings, p.from) = {[host |-> h, router |-> settings.gateway] : h \in settings.pool \ {e.host : e \in Reserved(policy, settings)}}
    BY <1>4 DEF Leases
  <2>2. p.host \notin {e.host : e \in Reserved(policy, settings)}
    BY <1>2, <2>1
  <2>3. QED
    BY <1>1, <1>4, <2>2
<1>5. QED
  BY <1>3, <1>4

\* What a device is compiled to has its identity, its address and its mode.
LEMMA CompiledAs ==
    ASSUME NEW policy, NEW res, NEW settings
    PROVE  LET active == Active(policy, settings)
               compiled == Compile(policy, res, settings)
           IN  /\ DOMAIN compiled = DOMAIN active
               /\ \A k \in DOMAIN active :
                     /\ compiled[k] = CompiledDevice(policy, res, active[k])
                     /\ compiled[k].id = active[k].id /\ compiled[k].mac = active[k].mac
                     /\ compiled[k].host = active[k].host
                     /\ compiled[k].bypass = (EffectiveGateway(active[k]) = "upstream_router")
                     /\ active[k] \in ToSet(active)
<1> DEFINE active == Active(policy, settings)
<1>1. Compile(policy, res, settings) = [i \in DOMAIN active |-> CompiledDevice(policy, res, active[i])]
  BY DEF Compile
<1>2. ASSUME NEW d
      PROVE  /\ CompiledDevice(policy, res, d).id = d.id /\ CompiledDevice(policy, res, d).mac = d.mac
             /\ CompiledDevice(policy, res, d).host = d.host
             /\ CompiledDevice(policy, res, d).bypass = (EffectiveGateway(d) = "upstream_router")
  BY DEF CompiledDevice
<1>3. \A k \in DOMAIN active : active[k] \in ToSet(active)
  BY DEF ToSet
<1> HIDE DEF active
<1>4. QED
  BY <1>1, <1>2, <1>3 DEF active

\* The devices an engine was compiled for are told apart by identity and address,
\* and an address tells the truth about its sender.
LEMMA CompiledListed ==
    ASSUME NEW policy, IsDocument(policy), ValidPolicySet(policy), NEW settings, Valid(policy, settings),
           NEW p, Arrives(policy, settings, p), NEW res
    PROVE  Listed(Compile(policy, res, settings), p)
<1> DEFINE active == Active(policy, settings)
           compiled == Compile(policy, res, settings)
<1>1. /\ DOMAIN compiled = DOMAIN active
      /\ \A k \in DOMAIN active : /\ compiled[k] = CompiledDevice(policy, res, active[k])
                                  /\ compiled[k].id = active[k].id /\ compiled[k].mac = active[k].mac
                                  /\ compiled[k].host = active[k].host /\ active[k] \in ToSet(active)
  BY CompiledAs
<1>2. active \in Seq(Registration) /\ \A d \in ToSet(active) : d \in Registration
  BY ActiveMembers, ActiveShape
<1>3. \E n \in Nat : DOMAIN active = 1 .. n
  <2>1. Len(active) \in Nat /\ DOMAIN active = 1 .. Len(active)
    BY <1>2
  <2>2. QED
    BY <2>1
<1>4. \A d \in ToSet(active) : d.id \in Device /\ d.host \in Nat /\ d.mac \in BOOLEAN
  BY <1>2 DEF Registration
<1>5. \A d, e \in ToSet(active) : d.id = e.id \/ d.host = e.host => d = e
  BY ActiveOnce, ActiveApart
<1>6. \A d \in ToSet(active) : FromHost(d.host) \in Facts(p) <=> ~p.v6 /\ d.id = p.from
  <2> SUFFICES ASSUME NEW d \in ToSet(active) PROVE FromHost(d.host) \in Facts(p) <=> ~p.v6 /\ d.id = p.from
    OBVIOUS
  <2>1. IsPacket(p)
    BY DEF Arrives
  <2>2. FromHost(d.host) \in Facts(p) <=> p.from # Mac /\ ~p.v6 /\ d.host = p.host
    BY <2>1, FactsOf
  <2>3. d.id # Mac
    BY <1>4, RoutingAssumption
  <2>4. p.from # Mac /\ ~p.v6 => (d.host = p.host <=> d.id = p.from)
    BY SourceTold
  <2>5. QED
    BY <2>2, <2>3, <2>4
<1> HIDE DEF active, compiled
<1>7. Listed(compiled, p)
  BY <1>1, <1>3, <1>4, <1>5, <1>6 DEF Listed
<1>8. QED
  BY <1>7 DEF compiled

-----------------------------------------------------------------------------
(* The variants of a match.                                                *)

\* One of the conjunctions applies.
Some(variants, facts) == \E v \in ToSet(variants) : v \subseteq facts

\* Crossed variants apply when one of the variants does and one of the values.
LEMMA CrossedVariants ==
    ASSUME NEW A, NEW variants \in Seq(SUBSET A), NEW values \in Seq(A)
    PROVE  /\ Crossed(variants, values) \in Seq(SUBSET A)
           /\ \A facts : Some(Crossed(variants, values), facts) <=>
                  Some(variants, facts) /\ (values = <<>> \/ \E x \in ToSet(values) : x \in facts)
<1>1. CASE values = <<>>
  <2>1. Crossed(variants, values) = variants
    BY <1>1 DEF Crossed
  <2>2. QED
    BY <1>1, <2>1
<1>2. CASE values # <<>>
  <2> DEFINE ss == [i \in DOMAIN variants |-> [j \in DOMAIN values |-> variants[i] \cup {values[j]}]]
  <2>1. Crossed(variants, values) = FlattenSeq(ss)
    BY <1>2 DEF Crossed
  <2>2. /\ Len(variants) \in Nat /\ DOMAIN variants = 1 .. Len(variants) /\ Len(values) \in Nat /\ DOMAIN values = 1 .. Len(values)
        /\ (\A i \in DOMAIN variants : variants[i] \in SUBSET A) /\ \A j \in DOMAIN values : values[j] \in A
    OBVIOUS
  <2>3. ASSUME NEW i \in DOMAIN variants
        PROVE  /\ ss[i] \in Seq(SUBSET A) /\ DOMAIN ss[i] = DOMAIN values
               /\ \A j \in DOMAIN values : ss[i][j] = variants[i] \cup {values[j]}
    <3>1. ss[i] = [j \in DOMAIN values |-> variants[i] \cup {values[j]}]
      OBVIOUS
    <3>2. \A j \in DOMAIN values : variants[i] \cup {values[j]} \in SUBSET A
      BY <2>2
    <3>3. ss[i] \in [1 .. Len(values) -> SUBSET A]
      BY <2>2, <3>1, <3>2
    <3>4. QED
      BY <2>2, <3>1, <3>3
  <2>4. DOMAIN ss = DOMAIN variants
    OBVIOUS
  <2>5. ss \in [1 .. Len(variants) -> Seq(SUBSET A)]
    BY <2>2, <2>3
  <2> HIDE DEF ss
  <2>6. ss \in Seq(Seq(SUBSET A))
    BY <2>2, <2>5, SMTT(60)
  <2>7. FlattenSeq(ss) \in Seq(SUBSET A) /\ ToSet(FlattenSeq(ss)) = UNION {ToSet(ss[i]) : i \in DOMAIN ss}
    BY <2>6, FlattenedMembers
  <2>8. ASSUME NEW facts
        PROVE  Some(FlattenSeq(ss), facts) <=> Some(variants, facts) /\ \E x \in ToSet(values) : x \in facts
    <3>0. \A i \in DOMAIN variants : \A v : v \in ToSet(ss[i]) <=> \E j \in DOMAIN values : v = variants[i] \cup {values[j]}
      <4> SUFFICES ASSUME NEW i \in DOMAIN variants, NEW v PROVE v \in ToSet(ss[i]) <=> \E j \in DOMAIN values : v = variants[i] \cup {values[j]}
        OBVIOUS
      <4>1. PICK row : row = ss[i]
        OBVIOUS
      <4>2. DOMAIN row = DOMAIN values /\ \A j \in DOMAIN values : row[j] = variants[i] \cup {values[j]}
        BY <2>3, <4>1
      <4>3. v \in ToSet(row) <=> \E j \in DOMAIN row : row[j] = v
        BY DEF ToSet
      <4>4. QED
        BY <4>1, <4>2, <4>3
    <3>1. \A v : v \in ToSet(FlattenSeq(ss)) <=> \E i \in DOMAIN variants, j \in DOMAIN values : v = variants[i] \cup {values[j]}
      <4>1. \A v : v \in ToSet(FlattenSeq(ss)) <=> \E i \in DOMAIN variants : v \in ToSet(ss[i])
        BY <2>4, <2>7
      <4>2. QED
        BY <3>0, <4>1, SMTT(60)
    <3>2. ASSUME Some(FlattenSeq(ss), facts) PROVE Some(variants, facts) /\ \E x \in ToSet(values) : x \in facts
      <4>1. PICK i \in DOMAIN variants, j \in DOMAIN values : variants[i] \cup {values[j]} \subseteq facts
        BY <3>1, <3>2 DEF Some
      <4>2. QED
        BY <4>1 DEF Some, ToSet
    <3>3. ASSUME Some(variants, facts), NEW x \in ToSet(values), x \in facts PROVE Some(FlattenSeq(ss), facts)
      <4>1. PICK i \in DOMAIN variants, j \in DOMAIN values : variants[i] \subseteq facts /\ values[j] = x
        BY <3>3 DEF Some, ToSet
      <4>2. variants[i] \cup {values[j]} \in ToSet(FlattenSeq(ss)) /\ variants[i] \cup {values[j]} \subseteq facts
        BY <3>1, <3>3, <4>1
      <4>3. QED
        BY <4>2 DEF Some
    <3>4. QED
      BY <3>2, <3>3
  <2>9. QED
    BY <1>2, <2>1, <2>7, <2>8
<1>3. QED
  BY <1>1, <1>2

\* Values and the conditions made of them.
TagsHold(tag, S, values, tagged) ==
    /\ tagged \in Seq({tag} \X S)
    /\ tagged = <<>> <=> values = <<>>
    /\ \A facts : (\E x \in ToSet(tagged) : x \in facts) <=> \E y \in ToSet(values) : <<tag, y>> \in facts

\* The condition made of a value holds where the value is known.
LEMMA TaggedValues ==
    ASSUME NEW tag, NEW S, NEW values \in Seq(S)
    PROVE  TagsHold(tag, S, values, Tagged(tag, values))
<1>1. /\ Len(values) \in Nat /\ DOMAIN values = 1 .. Len(values)
      /\ \A i \in DOMAIN values : values[i] \in S
  OBVIOUS
<1>2. /\ Tagged(tag, values) = [i \in DOMAIN values |-> <<tag, values[i]>>]
      /\ DOMAIN Tagged(tag, values) = DOMAIN values
      /\ \A i \in DOMAIN values : Tagged(tag, values)[i] = <<tag, values[i]>>
  BY DEF Tagged
<1>3. \A i \in DOMAIN values : <<tag, values[i]>> \in {tag} \X S
  BY <1>1
<1>4. Tagged(tag, values) \in [1 .. Len(values) -> {tag} \X S]
  BY <1>1, <1>2, <1>3
<1>5. Tagged(tag, values) \in Seq({tag} \X S)
  BY <1>1, <1>4
<1>6. Tagged(tag, values) = <<>> <=> values = <<>>
  BY <1>1, <1>2, <1>5
<1>7. \A facts : (\E x \in ToSet(Tagged(tag, values)) : x \in facts) <=> \E y \in ToSet(values) : <<tag, y>> \in facts
  BY <1>2 DEF ToSet
<1>8. QED
  BY <1>5, <1>6, <1>7 DEF TagsHold

\* The sets a match asks for are its own or its template's.
SetsOf(policy, asked) == IF asked.template = "" THEN asked.sets ELSE policy.templates[asked.template].sets

\* What a match says of a packet (Applies, for any document).
Matches(policy, asked, p) ==
    /\ asked.to = <<>> \/ p.to \in ToSet(asked.to)
    /\ asked.over = <<>> \/ p.over \in ToSet(asked.over)
    /\ SetsOf(policy, asked) = <<>> \/ \E l \in ToSet(SetsOf(policy, asked)) : p.to \in Lists[l]

\* They are sets there are.
LEMMA SetsShape ==
    ASSUME NEW policy, IsDocument(policy), NEW asked \in Conditions, ValidMatch(policy, asked)
    PROVE  SetsOf(policy, asked) \in Seq(DOMAIN Lists)
<1>1. asked.sets \in Seq(DOMAIN Lists)
  BY DEF Conditions
<1>2. CASE asked.template # ""
  <2>1. asked.template \in DOMAIN policy.templates
    BY <1>2 DEF ValidMatch
  <2>2. policy.templates[asked.template] \in EgressTemplate
    BY <2>1 DEF IsDocument
  <2>3. QED
    BY <1>2, <2>2 DEF SetsOf, EgressTemplate
<1>3. QED
  BY <1>1, <1>2 DEF SetsOf

\* The variants are one conjunction for each combination of what a match lists.
LEMMA VariantsMatch ==
    ASSUME NEW policy, IsDocument(policy), NEW asked \in Conditions, ValidMatch(policy, asked), NEW p, IsPacket(p)
    PROVE  /\ Variants(policy, asked) \in Seq(SUBSET Asks)
           /\ Some(Variants(policy, asked), Facts(p)) <=> Matches(policy, asked, p)
<1> DEFINE sets == SetsOf(policy, asked)
           to == Tagged("to", asked.to)
           over == Tagged("over", asked.over)
           list == Tagged("set", sets)
           first == Crossed(<<{}>>, to)
           second == Crossed(first, over)
<1>1. Variants(policy, asked) = Crossed(second, list)
  BY DEF Variants, SetsOf
<1>2. asked.to \in Seq(Site \cup {Local}) /\ asked.over \in Seq({"tcp", "udp"}) /\ sets \in Seq(DOMAIN Lists)
  BY SetsShape DEF Conditions
<1> HIDE DEF sets
<1>3. TagsHold("to", Site \cup {Local}, asked.to, to)
  BY <1>2, TaggedValues
<1>4. TagsHold("over", {"tcp", "udp"}, asked.over, over)
  BY <1>2, TaggedValues
<1>5. TagsHold("set", DOMAIN Lists, sets, list)
  BY <1>2, TaggedValues
<1> HIDE DEF to, over, list
<1>6. to \in Seq(Asks) /\ over \in Seq(Asks) /\ list \in Seq(Asks)
  <2>1. ASSUME NEW A \in SUBSET Asks, NEW s \in Seq(A) PROVE s \in Seq(Asks)
    OBVIOUS
  <2>2. {"to"} \X (Site \cup {Local}) \in SUBSET Asks
    BY DEF Asks
  <2>3. {"over"} \X {"tcp", "udp"} \in SUBSET Asks /\ {"set"} \X DOMAIN Lists \in SUBSET Asks
    BY DEF Asks
  <2>4. QED
    BY <1>3, <1>4, <1>5, <2>1, <2>2, <2>3 DEF TagsHold
<1>7. <<{}>> \in Seq(SUBSET Asks) /\ Some(<<{}>>, Facts(p))
  BY DEF Some, ToSet
<1>8. /\ first \in Seq(SUBSET Asks)
      /\ Some(first, Facts(p)) <=> (to = <<>> \/ \E x \in ToSet(to) : x \in Facts(p))
  BY <1>6, <1>7, CrossedVariants
<1> HIDE DEF first
<1>9. /\ second \in Seq(SUBSET Asks)
      /\ Some(second, Facts(p)) <=> Some(first, Facts(p)) /\ (over = <<>> \/ \E x \in ToSet(over) : x \in Facts(p))
  BY <1>6, <1>8, CrossedVariants
<1> HIDE DEF second
<1>10. /\ Variants(policy, asked) \in Seq(SUBSET Asks)
       /\ Some(Variants(policy, asked), Facts(p)) <=> Some(second, Facts(p)) /\ (list = <<>> \/ \E x \in ToSet(list) : x \in Facts(p))
  BY <1>1, <1>6, <1>9, CrossedVariants, ZenonT(60)
<1>11. /\ (\E y \in ToSet(asked.to) : <<"to", y>> \in Facts(p)) <=> p.to \in ToSet(asked.to)
       /\ (\E y \in ToSet(asked.over) : <<"over", y>> \in Facts(p)) <=> p.over \in ToSet(asked.over)
       /\ (\E y \in ToSet(sets) : <<"set", y>> \in Facts(p)) <=> \E y \in ToSet(sets) : p.to \in Lists[y]
  <2>1. \A y \in ToSet(sets) : y \in DOMAIN Lists
    BY <1>2 DEF ToSet
  <2>2. QED
    BY <2>1, FactsOf
<1>12. QED
  BY <1>3, <1>4, <1>5, <1>8, <1>9, <1>10, <1>11 DEF Matches, TagsHold, sets

-----------------------------------------------------------------------------
(* The rules of one device.                                                *)

\* One rule of a document, compiled: a list of rules for each variant of its match.
RuleFor(policy, asked, host, target, unsupported) ==
    LET variants == Variants(policy, asked)
    IN  FlattenSeq([i \in DOMAIN variants |-> Guarded(variants[i] \cup {FromHost(host)}, target, unsupported)])

\* The parts of a sequence.
LEMMA SeqParts ==
    ASSUME NEW S, NEW s \in Seq(S)
    PROVE  Len(s) \in Nat /\ DOMAIN s = 1 .. Len(s) /\ (\A i \in DOMAIN s : s[i] \in S) /\ (\A x \in ToSet(s) : x \in S)
<1>1. Len(s) \in Nat /\ DOMAIN s = 1 .. Len(s) /\ \A i \in DOMAIN s : s[i] \in S
  OBVIOUS
<1>2. QED
  BY <1>1 DEF ToSet

\* A list of members is a sequence.
LEMMA SeqMade ==
    ASSUME NEW S, NEW n \in Nat, NEW s, DOMAIN s = 1 .. n, s = [i \in DOMAIN s |-> s[i]], \A i \in 1 .. n : s[i] \in S
    PROVE  s \in Seq(S) /\ Len(s) = n
<1>1. s \in [1 .. n -> S]
  OBVIOUS
<1>2. QED
  BY <1>1

\* A list of rules for the k-th device.
OfOne(compiled, k, rules) == rules \in Seq(AnyRule) /\ \A r \in ToSet(rules) : DeviceRule(compiled, k, r)

\* What the list of a device decides over the packets of that device.
DeviceDecides(compiled, settings, p, k, list, verdict) ==
    /\ OfOne(compiled, k, list)
    /\ Judge(Plain(compiled, settings, p), p.over, list) = IF IsMine(compiled, settings, p, k) THEN verdict ELSE none

\* The rule of a device with its guard decides over the packets of the device.
LEMMA GuardedOf ==
    ASSUME OutletsSound, NEW compiled, NEW settings, NEW p, IsPacket(p), Listed(compiled, p), NEW k \in DOMAIN compiled,
           NEW c \in SUBSET Asks, NEW t \in Reach, NEW u
    PROVE  DeviceDecides(compiled, settings, p, k, Guarded(c \cup {FromHost(compiled[k].host)}, t, u),
                         IF c \subseteq Facts(p) THEN Try(t, u, p) ELSE none)
<1> DEFINE when == c \cup {FromHost(compiled[k].host)}
           plain == Plain(compiled, settings, p)
<1>1. when \in SUBSET Condition
  <2>1. FromHost(compiled[k].host) \in Condition
    BY DEF Listed, FromHost, Condition
  <2>2. QED
    BY <2>1, AskedOnly
<1>2. (when \subseteq plain) <=> c \subseteq Facts(p) /\ IsMine(compiled, settings, p, k)
  BY PlainFacts
<1> HIDE DEF when, plain
<1>3. GuardDecides(plain, p, when, t, u, Guarded(when, t, u))
  BY <1>1, JudgeGuarded
<1>4. PICK l : l = Guarded(when, t, u)
  OBVIOUS
<1>5. /\ l \in Seq(AnyRule)
      /\ \A i \in DOMAIN l : l[i].when = when
      /\ Judge(plain, p.over, l) = IF when \subseteq plain THEN Try(t, u, p) ELSE none
  BY <1>3, <1>4 DEF GuardDecides
<1>6. ASSUME NEW r \in ToSet(l) PROVE DeviceRule(compiled, k, r)
  <2>1. PICK i \in DOMAIN l : r = l[i]
    BY <1>6 DEF ToSet
  <2>2. r.when = when
    BY <1>5, <2>1
  <2>3. r \in AnyRule
    BY <1>5, <1>6, SeqParts
  <2>4. QED
    BY <2>2, <2>3 DEF DeviceRule, when
<1>7. OfOne(compiled, k, l)
  BY <1>5, <1>6 DEF OfOne
<1>8. DeviceDecides(compiled, settings, p, k, l, IF c \subseteq Facts(p) THEN Try(t, u, p) ELSE none)
  BY <1>2, <1>5, <1>7 DEF DeviceDecides, plain
<1>9. QED
  BY <1>4, <1>8 DEF when

\* A compiled rule decides over the device's packets that its match describes, and
\* does so with its target.
LEMMA RuleDecides ==
    ASSUME OutletsSound, NEW policy, IsDocument(policy), NEW asked \in Conditions, ValidMatch(policy, asked),
           NEW compiled, NEW settings, NEW p, IsPacket(p), Listed(compiled, p), NEW k \in DOMAIN compiled,
           NEW t \in Reach, NEW u
    PROVE  DeviceDecides(compiled, settings, p, k, RuleFor(policy, asked, compiled[k].host, t, u),
                         IF Matches(policy, asked, p) THEN Try(t, u, p) ELSE none)
<1> DEFINE V == Variants(policy, asked)
           facts == Facts(p)
           plain == Plain(compiled, settings, p)
           T == Try(t, u, p)
           Made(c) == Guarded(c \cup {FromHost(compiled[k].host)}, t, u)
           ss == [i \in DOMAIN V |-> Made(V[i])]
           Mine == IsMine(compiled, settings, p, k)
<1>1. V \in Seq(SUBSET Asks) /\ (Some(V, facts) <=> Matches(policy, asked, p))
  BY VariantsMatch
<1>2. RuleFor(policy, asked, compiled[k].host, t, u) = FlattenSeq(ss)
  BY DEF RuleFor
<1>3. ASSUME NEW c \in SUBSET Asks
      PROVE  OfOne(compiled, k, Made(c)) /\ Judge(plain, p.over, Made(c)) = IF Mine /\ c \subseteq facts THEN T ELSE none
  <2>1. DeviceDecides(compiled, settings, p, k, Made(c), IF c \subseteq facts THEN T ELSE none)
    BY GuardedOf
  <2> HIDE DEF Made, T, facts
  <2>2. QED
    BY <2>1 DEF DeviceDecides
<1> HIDE DEF V, facts, plain, T, Made, Mine
<1>4. Len(V) \in Nat /\ DOMAIN V = 1 .. Len(V) /\ (\A i \in DOMAIN V : V[i] \in SUBSET Asks)
  BY <1>1, SeqParts
<1>5. Some(V, facts) <=> \E i \in DOMAIN V : V[i] \subseteq facts
  BY DEF Some, ToSet
<1>6. DOMAIN ss = DOMAIN V /\ ss = [i \in DOMAIN ss |-> ss[i]] /\ \A i \in DOMAIN V : ss[i] = Made(V[i])
  OBVIOUS
<1> HIDE DEF ss
<1>7. \A i \in DOMAIN V : OfOne(compiled, k, ss[i]) /\ Judge(plain, p.over, ss[i]) = IF Mine /\ V[i] \subseteq facts THEN T ELSE none
  BY <1>3, <1>4, <1>6
<1>8. ss \in Seq(Seq(AnyRule))
  <2>1. \A i \in 1 .. Len(V) : ss[i] \in Seq(AnyRule)
    BY <1>4, <1>7 DEF OfOne
  <2>2. QED
    BY <1>4, <1>6, <2>1, SeqMade
<1>9. FlattenSeq(ss) \in Seq(AnyRule) /\ ToSet(FlattenSeq(ss)) = UNION {ToSet(ss[i]) : i \in DOMAIN ss}
  BY <1>8, FlattenedMembers
<1>10. OfOne(compiled, k, FlattenSeq(ss))
  BY <1>6, <1>7, <1>9 DEF OfOne
<1> DEFINE ws == [i \in DOMAIN ss |-> Judge(plain, p.over, ss[i])]
<1>11. Judge(plain, p.over, FlattenSeq(ss)) = Leading(ws)
  BY <1>8, JudgeFlattened
<1>12. DOMAIN ws = DOMAIN V /\ \A i \in DOMAIN V : ws[i] = IF Mine /\ V[i] \subseteq facts THEN T ELSE none
  BY <1>6, <1>7
<1> HIDE DEF ws
<1>13. DOMAIN ws \subseteq Nat
  <2>1. PICK n \in Nat : DOMAIN V = 1 .. n
    BY <1>4
  <2>2. DOMAIN ws = 1 .. n
    BY <1>12, <2>1
  <2>3. QED
    BY <2>1, <2>2
<1>14. Leading(ws) = IF \E i \in DOMAIN ws : ws[i] = T THEN T ELSE none
  <2>1. \A i \in DOMAIN ws : ws[i] \in {T, none}
    BY <1>12
  <2>2. QED
    BY <1>13, <2>1, LeadingConstant
<1>15. Leading(ws) = IF Mine /\ Some(V, facts) THEN T ELSE none
  BY <1>5, <1>12, <1>14
<1>16. Judge(plain, p.over, FlattenSeq(ss)) = IF Mine THEN (IF Matches(policy, asked, p) THEN T ELSE none) ELSE none
  BY <1>1, <1>11, <1>15
<1>17. QED
  BY <1>2, <1>10, <1>16 DEF DeviceDecides, plain, T, Mine

-----------------------------------------------------------------------------
\* What a live engine runs under, and a packet that reaches it.
Situation(policy, res, settings, p) ==
    /\ IsDocument(policy) /\ ValidPolicySet(policy) /\ Valid(policy, settings) /\ ~res.all
    /\ Arrives(policy, settings, p) /\ OutletsSound
    /\ \A g : IsDeviceGroup(g) =>
           (g \in DOMAIN selected <=> g \in DOMAIN DeviceGroups(Compile(policy, res, settings)))

\* The device uses the router of its LAN, not the Mac.
Bypasses(d) == EffectiveGateway(d) = "upstream_router"

\* What a compiled rule is sent to: the selector if there is one, the action if it
\* can be had.
TargetOf(policy, res, d, r) ==
    LET slots == Slots(policy, res, d)
    IN  IF slots[r.id] # <<>> THEN <<d.id, r.id>>
        ELSE IF r.policies = <<>> /\ Available(res, r.action) THEN r.action
        ELSE none

\* What a rule of a document gives a device, as its profile says.
Wanted(d, r) == IF r.policies # <<>> THEN <<d.id, r.id>> ELSE r.action
\* It can be had in the engine.
Had(res, d, r) == IF r.policies # <<>> THEN <<d.id, r.id>> \in DOMAIN selected ELSE r.action \in Builtin \cup res.targets

\* The rules of a valid profile are told apart, each says what to do and when.
LEMMA RuleParts ==
    ASSUME NEW policy, IsDocument(policy), ValidPolicySet(policy), NEW name \in DOMAIN policy.profiles
    PROVE  LET rules == Profile(policy, name).rules
           IN  /\ rules \in Seq(Override)
               /\ \A i \in DOMAIN rules :
                     /\ rules[i] \in Override /\ rules[i].id \in Slot \ {"default"} /\ rules[i].match \in Conditions
                     /\ rules[i].policies \in Seq(Named) /\ rules[i].action \in Named \cup {none}
                     /\ ValidMatch(policy, rules[i].match)
                     /\ rules[i].policies = <<>> => rules[i].action # none
                     /\ \A j \in DOMAIN rules : rules[i].id = rules[j].id => i = j
<1> DEFINE rules == Profile(policy, name).rules
<1>1. Profile(policy, name) \in EgressProfile
  BY ProfileShape
<1>2. rules \in Seq(Override) /\ \A i \in DOMAIN rules : rules[i] \in Override
  BY <1>1, ProfileParts
<1>3. ValidRules(policy, rules)
  BY DEF ValidPolicySet
<1> HIDE DEF rules
<1>4. ASSUME NEW i \in DOMAIN rules, NEW j \in DOMAIN rules, rules[i].id = rules[j].id PROVE i = j
  <2>1. IsInjective([x \in DOMAIN rules |-> rules[x].id])
    BY <1>3 DEF ValidRules, SomeRepeated
  <2>2. QED
    BY <1>4, <2>1 DEF IsInjective
<1>5. ASSUME NEW i \in DOMAIN rules
      PROVE  /\ rules[i].id # "default" /\ ValidMatch(policy, rules[i].match)
             /\ rules[i].policies = <<>> => rules[i].action # none
  BY <1>3 DEF ValidRules
<1>6. \A r \in Override : r.id \in Slot /\ r.match \in Conditions /\ r.policies \in Seq(Named) /\ r.action \in Named \cup {none}
  BY DEF Override
<1>7. QED
  BY <1>2, <1>4, <1>5, <1>6 DEF rules

\* A device's slots are those of its rules and the default, resolved one by one.
LEMMA SlotsOf ==
    ASSUME NEW policy, IsDocument(policy), ValidPolicySet(policy), NEW d, d.profile \in DOMAIN policy.profiles, NEW res
    PROVE  LET rules == Profile(policy, d.profile).rules
               given == SlotCandidates(policy, d)
           IN  /\ "default" \in DOMAIN given
               /\ DOMAIN Slots(policy, res, d) = DOMAIN given
               /\ \A s \in DOMAIN given : Slots(policy, res, d)[s] = ResolveSelector(res, <<d.id, s>>, given[s])
               /\ Bypasses(d) => Slots(policy, res, d)["default"] = <<>>
               /\ \A i \in DOMAIN rules :
                     rules[i].id \in DOMAIN given /\ (~Bypasses(d) => given[rules[i].id] = rules[i].policies)
<1> DEFINE rules == Profile(policy, d.profile).rules
           given == SlotCandidates(policy, d)
<1>1. \A i \in DOMAIN rules : rules[i].id # "default" /\ \A j \in DOMAIN rules : rules[i].id = rules[j].id => i = j
  BY RuleParts
<1>2. DOMAIN given = {"default"} \cup {rules[i].id : i \in DOMAIN rules} /\ (Bypasses(d) => \A s \in DOMAIN given : given[s] = <<>>)
  BY DEF SlotCandidates, Bypasses
<1>3. \A s \in DOMAIN given : ~Bypasses(d) /\ s # "default" => given[s] = rules[CHOOSE i \in DOMAIN rules : rules[i].id = s].policies
  BY DEF SlotCandidates, Bypasses
<1>4. DOMAIN Slots(policy, res, d) = DOMAIN given /\ \A s \in DOMAIN given : Slots(policy, res, d)[s] = ResolveSelector(res, <<d.id, s>>, given[s])
  BY DEF Slots
<1> HIDE DEF rules, given
<1>5. ASSUME NEW i \in DOMAIN rules, ~Bypasses(d) PROVE given[rules[i].id] = rules[i].policies
  <2> DEFINE j == CHOOSE x \in DOMAIN rules : rules[x].id = rules[i].id
  <2>1. j \in DOMAIN rules /\ rules[j].id = rules[i].id
    OBVIOUS
  <2>2. given[rules[i].id] = rules[j].policies
    BY <1>1, <1>2, <1>3, <1>5
  <2> HIDE DEF j
  <2>3. i = j
    BY <1>1, <2>1
  <2>4. QED
    BY <2>2, <2>3
<1>6. QED
  BY <1>2, <1>4, <1>5, NothingResolved DEF rules, given

\* A device has a selector in the engine where its slot has a candidate left.
LEMMA SelectorThere ==
    ASSUME NEW policy, NEW res, NEW settings, NEW p, Situation(policy, res, settings, p),
           NEW d \in ToSet(Active(policy, settings)), NEW s \in DOMAIN SlotCandidates(policy, d)
    PROVE  /\ <<d.id, s>> \in Device \X Slot
           /\ <<d.id, s>> \in DOMAIN selected <=> Slots(policy, res, d)[s] # <<>>
<1> DEFINE g == <<d.id, s>>
<1>0. IsDocument(policy) /\ ValidPolicySet(policy)
  BY DEF Situation
<1>1. d \in Registration /\ d.profile \in DOMAIN policy.profiles
  BY <1>0, ActiveShape
<1>2. d.id \in Device /\ s \in Slot
  BY <1>0, <1>1, SlotShape DEF Registration
<1>3. Owns(policy, settings, g, d, s)
  BY DEF Owns
<1>4. g \in DOMAIN DeviceGroups(Compile(policy, res, settings)) <=> ResolveSelector(res, g, SlotCandidates(policy, d)[s]) # <<>>
  BY <1>0, <1>3, SelectorsOf
<1>5. Slots(policy, res, d)[s] = ResolveSelector(res, g, SlotCandidates(policy, d)[s])
  BY <1>0, <1>1, SlotsOf
<1>6. g \in DOMAIN selected <=> g \in DOMAIN DeviceGroups(Compile(policy, res, settings))
  BY <1>2 DEF Situation, IsDeviceGroup
<1>7. QED
  BY <1>2, <1>4, <1>5, <1>6

\* A rule is sent to what its profile gives it, if that can be had.
LEMMA TargetIs ==
    ASSUME NEW policy, NEW res, NEW settings, NEW p, Situation(policy, res, settings, p),
           NEW d \in ToSet(Active(policy, settings)), ~Bypasses(d), NEW i \in DOMAIN Profile(policy, d.profile).rules
    PROVE  LET r == Profile(policy, d.profile).rules[i]
           IN  /\ TargetOf(policy, res, d, r) = IF Had(res, d, r) THEN Wanted(d, r) ELSE none
               /\ Wanted(d, r) \in Reach /\ Wanted(d, r) # none
<1>1. PICK r : r = Profile(policy, d.profile).rules[i]
  OBVIOUS
<1>2. PICK slots : slots = Slots(policy, res, d)
  OBVIOUS
<1>3. IsDocument(policy) /\ ValidPolicySet(policy) /\ ~res.all
  BY DEF Situation
<1>4. d.profile \in DOMAIN policy.profiles
  BY <1>3, ActiveShape
<1>5. r.id \in DOMAIN SlotCandidates(policy, d) /\ slots[r.id] = ResolveSelector(res, <<d.id, r.id>>, r.policies)
  BY <1>1, <1>2, <1>3, <1>4, SlotsOf
<1>6. <<d.id, r.id>> \in Device \X Slot /\ (<<d.id, r.id>> \in DOMAIN selected <=> slots[r.id] # <<>>)
  BY <1>2, <1>5, SelectorThere
<1>7. (r.policies = <<>> => r.action # none) /\ r.action \in Named \cup {none}
  BY <1>1, <1>3, <1>4, RuleParts
<1>8. Available(res, r.action) <=> r.action \in Builtin \cup res.targets
  BY <1>3 DEF Available
<1>9. TargetOf(policy, res, d, r) = IF slots[r.id] # <<>> THEN <<d.id, r.id>>
                                    ELSE IF r.policies = <<>> /\ Available(res, r.action) THEN r.action ELSE none
  BY <1>2 DEF TargetOf
<1>10. r.policies = <<>> => slots[r.id] = <<>>
  BY <1>5, NothingResolved
<1>11. Wanted(d, r) \in Reach
  BY <1>6, <1>7 DEF Wanted, Reach, RuleTarget
<1>12. none \notin Reach
  BY Reached DEF Situation
<1>13. CASE r.policies # <<>>
  BY <1>1, <1>6, <1>9, <1>11, <1>12, <1>13 DEF Had, Wanted
<1>14. CASE r.policies = <<>>
  BY <1>1, <1>8, <1>9, <1>10, <1>11, <1>12, <1>14 DEF Had, Wanted
<1>15. QED
  BY <1>13, <1>14

-----------------------------------------------------------------------------
\* What becomes of UDP in the outlets of a profile, by rule and without any.
Handling(policy, d, rule) == Unsupported(rule, Profile(policy, d.profile).unsupported)
\* What is not said in a document.
Unsaid == ""

\* One rule of a profile, compiled for a device.
CompiledRule(policy, res, d, r) ==
    IF TargetOf(policy, res, d, r) = none THEN <<>>
    ELSE RuleFor(policy, r.match, d.host, TargetOf(policy, res, d, r), Handling(policy, d, r.unsupported))

\* The rules a device has, none if it bypasses the engine.
RulesOf(policy, d) == IF Bypasses(d) THEN <<>> ELSE Profile(policy, d.profile).rules

\* What the document says of a packet in one rule of the device.
OwnVerdict(policy, res, d, p, r) ==
    IF Had(res, d, r) /\ Matches(policy, r.match, p) THEN Try(Wanted(d, r), Handling(policy, d, r.unsupported), p) ELSE none

\* In each of them.
OwnVerdicts(policy, res, d, p) ==
    [i \in DOMAIN RulesOf(policy, d) |-> OwnVerdict(policy, res, d, p, RulesOf(policy, d)[i])]

\* What the device's own outlet does with a packet.
DefaultVerdict(policy, d, p) ==
    IF <<d.id, "default">> \in DOMAIN selected THEN Try(<<d.id, "default">>, Handling(policy, d, Unsaid), p) ELSE none

\* The rules, the own outlet and the mode of a compiled device.
PartsOf(policy, res, d, device) ==
    LET default == Slots(policy, res, d)["default"]
    IN  /\ device.overrides = FlattenSeq([i \in DOMAIN RulesOf(policy, d) |-> CompiledRule(policy, res, d, RulesOf(policy, d)[i])])
        /\ device.defaults = IF default = <<>> THEN <<>>
                             ELSE Guarded({FromHost(d.host)}, <<d.id, "default">>, Handling(policy, d, Unsaid))
        /\ device.mode = IF ~Bypasses(d) /\ default = <<>> THEN "inherit_global" ELSE EffectiveMode(d)

\* A device is compiled to these.
LEMMA DeviceParts ==
    ASSUME NEW policy, NEW res, NEW d
    PROVE  PartsOf(policy, res, d, CompiledDevice(policy, res, d))
BY DEF PartsOf, CompiledDevice, RulesOf, CompiledRule, TargetOf, RuleFor, Handling, Unsaid, Bypasses

\* Lists one after the other, each deciding something for the device.
LEMMA FlattenedDecides ==
    ASSUME NEW compiled, NEW settings, NEW p, NEW k, NEW n \in Nat,
           NEW ss, DOMAIN ss = 1 .. n, ss = [i \in DOMAIN ss |-> ss[i]], NEW vs, DOMAIN vs = 1 .. n,
           \A i \in 1 .. n : DeviceDecides(compiled, settings, p, k, ss[i], vs[i])
    PROVE  DeviceDecides(compiled, settings, p, k, FlattenSeq(ss), Leading(vs))
<1> DEFINE plain == Plain(compiled, settings, p)
           Mine == IsMine(compiled, settings, p, k)
           ws == [i \in DOMAIN ss |-> Judge(plain, p.over, ss[i])]
<1>1. \A i \in 1 .. n : OfOne(compiled, k, ss[i]) /\ Judge(plain, p.over, ss[i]) = IF Mine THEN vs[i] ELSE none
  BY DEF DeviceDecides
<1>2. ss \in Seq(Seq(AnyRule))
  BY <1>1, SeqMade DEF OfOne
<1>3. FlattenSeq(ss) \in Seq(AnyRule) /\ ToSet(FlattenSeq(ss)) = UNION {ToSet(ss[i]) : i \in DOMAIN ss}
  BY <1>2, FlattenedMembers
<1>4. OfOne(compiled, k, FlattenSeq(ss))
  BY <1>1, <1>3 DEF OfOne
<1>5. Judge(plain, p.over, FlattenSeq(ss)) = Leading(ws)
  BY <1>2, JudgeFlattened, ZenonT(60)
<1>6. DOMAIN ws = 1 .. n /\ \A i \in 1 .. n : ws[i] = IF Mine THEN vs[i] ELSE none
  BY <1>1
<1> HIDE DEF ws, plain, Mine
<1>7. DOMAIN ws \subseteq Nat /\ DOMAIN vs \subseteq Nat
  BY <1>6
<1>8. CASE Mine
  <2>1. Leads(ws, Leading(ws))
    BY <1>7, LeadingIs
  <2>2. Leads(vs, Leading(ws))
    BY <1>6, <1>8, <2>1 DEF Leads
  <2>3. Leading(ws) = Leading(vs)
    BY <1>7, <2>2, LeadingIs
  <2>4. QED
    BY <1>4, <1>5, <1>8, <2>3 DEF DeviceDecides, plain, Mine
<1>9. CASE ~Mine
  <2>1. Leading(ws) = none
    BY <1>6, <1>7, <1>9, LeadingNone
  <2>2. QED
    BY <1>4, <1>5, <1>9, <2>1 DEF DeviceDecides, plain, Mine
<1>10. QED
  BY <1>8, <1>9

\* No list decides nothing.
LEMMA NothingDecides ==
    ASSUME NEW compiled, NEW settings, NEW p, NEW k
    PROVE  DeviceDecides(compiled, settings, p, k, <<>>, none)
<1>1. <<>> \in Seq(AnyRule) /\ ToSet(<<>>) = {}
  BY DEF ToSet
<1>2. QED
  BY <1>1, JudgeShort DEF DeviceDecides, OfOne

\* A device among those an engine was compiled for.
Compiled(policy, res, settings, k, d, compiled) ==
    /\ compiled = Compile(policy, res, settings)
    /\ k \in DOMAIN compiled /\ k \in DOMAIN Active(policy, settings)
    /\ d = Active(policy, settings)[k] /\ d \in ToSet(Active(policy, settings))
    /\ compiled[k] = CompiledDevice(policy, res, d)

\* What is compiled for a device of the document is told by the document.
LEMMA CompiledParts ==
    ASSUME NEW policy, NEW res, NEW settings, NEW p, Situation(policy, res, settings, p),
           NEW k, NEW d, NEW compiled, Compiled(policy, res, settings, k, d, compiled)
    PROVE  /\ compiled[k].id = d.id /\ compiled[k].mac = d.mac /\ compiled[k].host = d.host /\ compiled[k].bypass = Bypasses(d)
           /\ d.profile \in DOMAIN policy.profiles /\ IsPacket(p) /\ Listed(compiled, p)
<1>1. /\ compiled[k].id = d.id /\ compiled[k].mac = d.mac /\ compiled[k].host = d.host /\ compiled[k].bypass = Bypasses(d)
  BY CompiledAs DEF Compiled, Bypasses
<1>2. d.profile \in DOMAIN policy.profiles
  BY ActiveShape DEF Compiled, Situation
<1>3. IsPacket(p) /\ Listed(compiled, p)
  BY CompiledListed DEF Compiled, Situation, Arrives
<1>4. QED
  BY <1>1, <1>2, <1>3

\* A device's overrides decide what the first of its rules says that says anything.
LEMMA OverridesDecide ==
    ASSUME NEW policy, NEW res, NEW settings, NEW p, Situation(policy, res, settings, p),
           NEW k, NEW d, NEW compiled, Compiled(policy, res, settings, k, d, compiled)
    PROVE  DeviceDecides(compiled, settings, p, k, compiled[k].overrides, Leading(OwnVerdicts(policy, res, d, p)))
<1> DEFINE rules == RulesOf(policy, d)
           ss == [i \in DOMAIN rules |-> CompiledRule(policy, res, d, rules[i])]
           vs == OwnVerdicts(policy, res, d, p)
<1>0. PartsOf(policy, res, d, compiled[k])
  BY DeviceParts DEF Compiled
<1>1. compiled[k].overrides = FlattenSeq(ss)
  BY <1>0 DEF PartsOf
<1>2. compiled[k].host = d.host /\ d.profile \in DOMAIN policy.profiles /\ IsPacket(p) /\ Listed(compiled, p)
  BY CompiledParts
<1>3. IsDocument(policy) /\ ValidPolicySet(policy) /\ OutletsSound
  BY DEF Situation
<1>4. rules \in Seq(Override)
  <2>1. Profile(policy, d.profile).rules \in Seq(Override) /\ <<>> \in Seq(Override)
    BY <1>2, <1>3, RuleParts
  <2>2. QED
    BY <2>1 DEF RulesOf
<1>5. PICK n \in Nat : DOMAIN rules = 1 .. n
  <2> HIDE DEF rules
  <2>1. QED
    BY <1>4, SeqParts
<1>6. ASSUME NEW i \in DOMAIN rules
      PROVE  DeviceDecides(compiled, settings, p, k, CompiledRule(policy, res, d, rules[i]), OwnVerdict(policy, res, d, p, rules[i]))
  <2>1. ~Bypasses(d) /\ rules = Profile(policy, d.profile).rules
    BY DEF RulesOf
  <2>2. PICK r : r = rules[i]
    OBVIOUS
  <2>3. r.match \in Conditions /\ ValidMatch(policy, r.match)
    BY <1>2, <1>3, <2>1, <2>2, RuleParts
  <2> DEFINE t == TargetOf(policy, res, d, r)
  <2>4. t = (IF Had(res, d, r) THEN Wanted(d, r) ELSE none) /\ Wanted(d, r) \in Reach /\ Wanted(d, r) # none
    BY <2>1, <2>2, TargetIs DEF Compiled
  <2> HIDE DEF t
  <2>5. CASE Had(res, d, r)
    <3>1. t = Wanted(d, r) /\ t \in Reach /\ t # none
      BY <2>4, <2>5
    <3>2. DeviceDecides(compiled, settings, p, k, RuleFor(policy, r.match, compiled[k].host, t, Handling(policy, d, r.unsupported)),
                        IF Matches(policy, r.match, p) THEN Try(t, Handling(policy, d, r.unsupported), p) ELSE none)
      BY <1>2, <1>3, <2>3, <3>1, RuleDecides DEF Compiled
    <3>3. CompiledRule(policy, res, d, r) = RuleFor(policy, r.match, compiled[k].host, t, Handling(policy, d, r.unsupported))
      BY <1>2, <3>1 DEF CompiledRule, t
    <3>4. OwnVerdict(policy, res, d, p, r) = IF Matches(policy, r.match, p) THEN Try(t, Handling(policy, d, r.unsupported), p) ELSE none
      BY <2>5, <3>1 DEF OwnVerdict
    <3>5. QED
      BY <2>2, <3>2, <3>3, <3>4
  <2>6. CASE ~Had(res, d, r)
    <3>1. CompiledRule(policy, res, d, r) = <<>>
      BY <2>4, <2>6 DEF CompiledRule, t
    <3>2. OwnVerdict(policy, res, d, p, r) = none
      BY <2>6 DEF OwnVerdict
    <3>3. QED
      BY <2>2, <3>1, <3>2, NothingDecides
  <2>7. QED
    BY <2>5, <2>6
<1>7. /\ DOMAIN ss = DOMAIN rules /\ ss = [i \in DOMAIN ss |-> ss[i]] /\ DOMAIN vs = DOMAIN rules
      /\ \A i \in DOMAIN rules : DeviceDecides(compiled, settings, p, k, ss[i], vs[i])
  BY <1>6 DEF OwnVerdicts
<1> HIDE DEF ss, vs, rules
<1>8. DeviceDecides(compiled, settings, p, k, FlattenSeq(ss), Leading(vs))
  BY <1>5, <1>7, FlattenedDecides
<1>9. QED
  BY <1>1, <1>8 DEF vs

\* Its own outlet's rules decide what the outlet does; without one it inherits.
LEMMA DefaultsDecide ==
    ASSUME NEW policy, NEW res, NEW settings, NEW p, Situation(policy, res, settings, p),
           NEW k, NEW d, NEW compiled, Compiled(policy, res, settings, k, d, compiled)
    PROVE  /\ DeviceDecides(compiled, settings, p, k, compiled[k].defaults, DefaultVerdict(policy, d, p))
           /\ compiled[k].mode = IF ~Bypasses(d) /\ <<d.id, "default">> \notin DOMAIN selected THEN "inherit_global" ELSE EffectiveMode(d)
           /\ Bypasses(d) => <<d.id, "default">> \notin DOMAIN selected
<1> DEFINE g == <<d.id, "default">>
           default == Slots(policy, res, d)["default"]
           u == Handling(policy, d, Unsaid)
<1>0. PartsOf(policy, res, d, compiled[k])
  BY DeviceParts DEF Compiled
<1>1. /\ compiled[k].defaults = IF default = <<>> THEN <<>> ELSE Guarded({FromHost(d.host)}, g, u)
      /\ compiled[k].mode = IF ~Bypasses(d) /\ default = <<>> THEN "inherit_global" ELSE EffectiveMode(d)
  BY <1>0 DEF PartsOf
<1>2. compiled[k].host = d.host /\ d.profile \in DOMAIN policy.profiles /\ IsPacket(p) /\ Listed(compiled, p)
  BY CompiledParts
<1>3. IsDocument(policy) /\ ValidPolicySet(policy) /\ OutletsSound
  BY DEF Situation
<1>4. "default" \in DOMAIN SlotCandidates(policy, d) /\ (Bypasses(d) => default = <<>>)
  BY <1>2, <1>3, SlotsOf
<1>5. g \in Device \X Slot /\ (g \in DOMAIN selected <=> default # <<>>)
  BY <1>4, SelectorThere DEF Compiled
<1> HIDE DEF g, default, u
<1>6. DeviceDecides(compiled, settings, p, k, compiled[k].defaults, DefaultVerdict(policy, d, p))
  <2>1. CASE default = <<>>
    <3>1. compiled[k].defaults = <<>> /\ DefaultVerdict(policy, d, p) = none
      BY <1>1, <1>5, <2>1 DEF DefaultVerdict, g
    <3>2. QED
      BY <3>1, NothingDecides
  <2>2. CASE default # <<>>
    <3>1. compiled[k].defaults = Guarded({} \cup {FromHost(compiled[k].host)}, g, u)
      BY <1>1, <1>2, <2>2
    <3>2. DefaultVerdict(policy, d, p) = Try(g, u, p)
      BY <1>5, <2>2 DEF DefaultVerdict, g, u
    <3>3. g \in Reach /\ k \in DOMAIN compiled
      BY <1>5 DEF Reach, Compiled
    <3>4. PICK c \in SUBSET Asks : c = {}
      OBVIOUS
    <3>5. DeviceDecides(compiled, settings, p, k, Guarded(c \cup {FromHost(compiled[k].host)}, g, u),
                        IF c \subseteq Facts(p) THEN Try(g, u, p) ELSE none)
      BY <1>2, <1>3, <3>3, GuardedOf
    <3>6. (IF c \subseteq Facts(p) THEN Try(g, u, p) ELSE none) = Try(g, u, p)
      BY <3>4
    <3>7. QED
      BY <3>1, <3>2, <3>4, <3>5, <3>6
  <2>3. QED
    BY <2>1, <2>2
<1>7. QED
  BY <1>1, <1>4, <1>5, <1>6 DEF g

-----------------------------------------------------------------------------
(* The sections of an engine's rules.                                      *)

\* What the rules of all devices decide: for the packets of one what is said of
\* that, and nothing for those of anybody else.
SectionDecides(compiled, settings, p, list, vs) ==
    /\ list \in Seq(AnyRule)
    /\ \A k \in DOMAIN compiled : IsMine(compiled, settings, p, k) => Judge(Facts(p), p.over, list) = vs[k]
    /\ (\A k \in DOMAIN compiled : ~IsMine(compiled, settings, p, k)) => Judge(Facts(p), p.over, list) = none

\* Lists that are all about their own device, one after the other.
LEMMA JoinedSection ==
    ASSUME NEW compiled, NEW settings, NEW p, Listed(compiled, p), NEW vs,
           NEW ss, DOMAIN ss = DOMAIN compiled, ss = [k \in DOMAIN ss |-> ss[k]],
           \A j, k \in DOMAIN compiled : compiled[j] = compiled[k] => ss[j] = ss[k],
           \A k \in DOMAIN compiled :
               ss[k] \in Seq(AnyRule) /\ Judge(Facts(p), p.over, ss[k]) = IF IsMine(compiled, settings, p, k) THEN vs[k] ELSE none
    PROVE  SectionDecides(compiled, settings, p, FlattenSeq(ss), vs)
<1>1. ss \in [DOMAIN compiled -> Seq(AnyRule)]
  OBVIOUS
<1>2. PICK facts : facts = Facts(p)
  OBVIOUS
<1>3. \A k \in DOMAIN compiled : ~IsMine(compiled, settings, p, k) => Judge(facts, p.over, ss[k]) = none
  BY <1>2
<1>4. JoinDecides(compiled, settings, p, facts, p.over, ss)
  BY <1>1, <1>3, JoinedDecides
<1>5. QED
  BY <1>2, <1>4 DEF SectionDecides, JoinDecides

\* The same, with the twins for IPv6.
LEMMA UsersSection ==
    ASSUME NEW compiled, NEW settings, NEW p, IsPacket(p), Listed(compiled, p), NEW vs,
           NEW ss, DOMAIN ss = DOMAIN compiled, ss = [k \in DOMAIN ss |-> ss[k]],
           \A j, k \in DOMAIN compiled : compiled[j] = compiled[k] => ss[j] = ss[k],
           \A k \in DOMAIN compiled : DeviceDecides(compiled, settings, p, k, ss[k], vs[k])
    PROVE  SectionDecides(compiled, settings, p, WithUsers(compiled, FlattenSeq(ss), settings), vs)
<1>1. PICK plain : plain = Plain(compiled, settings, p)
  OBVIOUS
<1>2. \A k \in DOMAIN compiled : OfOne(compiled, k, ss[k]) /\ Judge(plain, p.over, ss[k]) = IF IsMine(compiled, settings, p, k) THEN vs[k] ELSE none
  BY <1>1 DEF DeviceDecides
<1>3. ss \in [DOMAIN compiled -> Seq(AnyRule)]
  BY <1>2 DEF OfOne
<1>4. JoinDecides(compiled, settings, p, plain, p.over, ss)
  <2>1. \A k \in DOMAIN compiled : ~IsMine(compiled, settings, p, k) => Judge(plain, p.over, ss[k]) = none
    BY <1>2
  <2>2. QED
    BY <1>3, <2>1, JoinedDecides
<1>5. PICK rules : rules = FlattenSeq(ss)
  OBVIOUS
<1>6. ASSUME NEW i \in DOMAIN rules PROVE \E k \in DOMAIN compiled : DeviceRule(compiled, k, rules[i])
  <2>1. rules[i] \in ToSet(rules)
    BY DEF ToSet
  <2>2. PICK k \in DOMAIN compiled : rules[i] \in ToSet(ss[k])
    BY <1>4, <1>5, <2>1 DEF JoinDecides
  <2>3. QED
    BY <1>2, <2>2 DEF OfOne
<1>7. rules \in Seq(AnyRule)
  BY <1>4, <1>5 DEF JoinDecides
<1>8. /\ WithUsers(compiled, rules, settings) \in Seq(AnyRule)
      /\ Judge(Facts(p), p.over, WithUsers(compiled, rules, settings)) = Judge(plain, p.over, rules)
  BY <1>1, <1>6, <1>7, UsersDecide
<1>9. QED
  BY <1>2, <1>4, <1>5, <1>8 DEF SectionDecides, JoinDecides

\* A rule for an address and one for the packet listener's user.
PairOf(device, settings, on, c4, c6, t) ==
    IF ~on THEN <<>>
    ELSE <<Rule({FromHost(device.host), c4}, t)>>
         \o (IF settings.ipv6 /\ device.mac THEN <<Rule({FromUser(device.id), c6}, t)>> ELSE <<>>)

\* A list of rules says w of a packet.
Says(facts, over, list, w) == list \in Seq(AnyRule) /\ Judge(facts, over, list) = w

\* No rule says nothing.
LEMMA NothingSaid ==
    ASSUME NEW facts, NEW over
    PROVE  Says(facts, over, <<>>, none)
<1>1. \A r : Judge(facts, over, <<>>) = none /\ Judge(facts, over, <<r>>) = Verdict(facts, over, r)
  BY JudgeShort
<1>2. QED
  BY <1>1 DEF Says

\* The pair of the k-th device says t of its packets that it applies to.
PairSays(compiled, settings, p, k, applies, t, list) ==
    Says(Facts(p), p.over, list, IF IsMine(compiled, settings, p, k) THEN (IF applies THEN t ELSE none) ELSE none)

\* Two conditions that say the same, one in each family.
SameInBoth(p, c4, c6, applies) ==
    /\ c4 \in Condition /\ c6 \in Condition /\ applies \in BOOLEAN
    /\ ~p.v6 => (c4 \in Facts(p) <=> applies)
    /\ p.v6 => (c6 \in Facts(p) <=> applies)

\* A pair decides over both families.
LEMMA PairDecides ==
    ASSUME OutletsSound, NEW compiled, NEW settings, NEW p, IsPacket(p), Listed(compiled, p), NEW k \in DOMAIN compiled,
           NEW c4, NEW c6, NEW applies, SameInBoth(p, c4, c6, applies), NEW t \in {DIRECT, Tailnet}
    PROVE  PairSays(compiled, settings, p, k, applies, t, PairOf(compiled[k], settings, TRUE, c4, c6, t))
<1> DEFINE device == compiled[k]
           list == PairOf(device, settings, TRUE, c4, c6, t)
<1>0. /\ c4 \in Condition /\ c6 \in Condition /\ applies \in BOOLEAN
      /\ ~p.v6 => (c4 \in Facts(p) <=> applies)
      /\ p.v6 => (c6 \in Facts(p) <=> applies)
  BY DEF SameInBoth
<1>1. PICK r : r = Rule({FromHost(device.host), c4}, t)
  OBVIOUS
<1>2. PICK s : s = Rule({FromUser(device.id), c6}, t)
  OBVIOUS
<1>3. PICK one, two : one = <<r>> \o <<>> /\ two = <<r>> \o <<s>>
  OBVIOUS
<1>4. list = IF settings.ipv6 /\ device.mac THEN two ELSE one
  BY <1>1, <1>2, <1>3 DEF PairOf
<1>5. device.id \in Device /\ device.host \in Nat /\ device.mac \in BOOLEAN
  BY DEF Listed
<1>6. t \in Reach /\ Try(t, "pass", p) = t
  BY Reached, TriedTarget DEF Builtin
<1> HIDE DEF device, list
<1>7. r \in AnyRule /\ s \in AnyRule
  <2>1. FromHost(device.host) \in Condition /\ FromUser(device.id) \in Condition
    BY <1>5 DEF FromHost, FromUser, Condition
  <2>2. QED
    BY <1>0, <1>1, <1>2, <1>6, <2>1 DEF Rule, AnyRule
<1>8. OneOrTwo(AnyRule, r, s, Facts(p), p.over, one, two)
  BY <1>3, <1>7, JudgeTwo
<1>9. FromHost(device.host) \in Facts(p) <=> ~p.v6 /\ device.id = p.from
  BY DEF Listed, device
<1>10. FromUser(device.id) \in Facts(p) <=> p.v6 /\ device.id = p.from
  <2>1. device.id # Mac
    BY <1>5, RoutingAssumption
  <2>2. QED
    BY <2>1, FactsOf
<1>11. Verdict(Facts(p), p.over, r) = IF ~p.v6 /\ device.id = p.from /\ applies THEN t ELSE none
  <2>1. Verdict(Facts(p), p.over, r) = IF {FromHost(device.host), c4} \subseteq Facts(p) THEN Try(t, "pass", p) ELSE none
    BY <1>1, Tried
  <2>2. ({FromHost(device.host), c4} \subseteq Facts(p)) <=> ~p.v6 /\ device.id = p.from /\ applies
    BY <1>0, <1>9
  <2>3. QED
    BY <1>6, <2>1, <2>2
<1>12. Verdict(Facts(p), p.over, s) = IF p.v6 /\ device.id = p.from /\ applies THEN t ELSE none
  <2>1. Verdict(Facts(p), p.over, s) = IF {FromUser(device.id), c6} \subseteq Facts(p) THEN Try(t, "pass", p) ELSE none
    BY <1>2, Tried
  <2>2. ({FromUser(device.id), c6} \subseteq Facts(p)) <=> p.v6 /\ device.id = p.from /\ applies
    BY <1>0, <1>10
  <2>3. QED
    BY <1>6, <2>1, <2>2
<1>13. IsMine(compiled, settings, p, k) <=> device.id = p.from /\ (p.v6 => device.mac /\ settings.ipv6)
  BY DEF IsMine, device
<1>14. list \in Seq(AnyRule)
  BY <1>4, <1>8 DEF OneOrTwo
<1>15. Judge(Facts(p), p.over, list) = IF IsMine(compiled, settings, p, k) THEN (IF applies THEN t ELSE none) ELSE none
  <2>1. Judge(Facts(p), p.over, one) = Verdict(Facts(p), p.over, r)
        /\ Judge(Facts(p), p.over, two) = Or(Verdict(Facts(p), p.over, r), Verdict(Facts(p), p.over, s))
    BY <1>8 DEF OneOrTwo
  <2>2. CASE settings.ipv6 /\ device.mac
    BY <1>4, <1>11, <1>12, <1>13, <2>1, <2>2 DEF Or
  <2>3. CASE ~(settings.ipv6 /\ device.mac)
    BY <1>4, <1>11, <1>13, <2>1, <2>3
  <2>4. QED
    BY <2>2, <2>3
<1>16. QED
  BY <1>14, <1>15 DEF list, device, Says, PairSays

\* A bypassing device is refused whatever it sends through its packet listener.
RejectsOf(device, settings) ==
    IF settings.ipv6 /\ device.bypass /\ device.mac THEN <<Rule({FromUser(device.id)}, REJECT)>> ELSE <<>>

\* Devices that bypass the engine are refused over IPv6, nobody else is.
LEMMA BypassSection ==
    ASSUME OutletsSound, NEW compiled, NEW settings, NEW p, IsPacket(p), Listed(compiled, p)
    PROVE  SectionDecides(compiled, settings, p, BypassRejects(compiled, settings),
                          [k \in DOMAIN compiled |-> IF p.v6 /\ compiled[k].bypass THEN REJECT ELSE none])
<1> DEFINE ss == [k \in DOMAIN compiled |-> RejectsOf(compiled[k], settings)]
           vs == [k \in DOMAIN compiled |-> IF p.v6 /\ compiled[k].bypass THEN REJECT ELSE none]
<1>1. BypassRejects(compiled, settings) = FlattenSeq(ss)
  BY DEF BypassRejects, Joined, RejectsOf
<1>2. DOMAIN ss = DOMAIN compiled /\ ss = [k \in DOMAIN ss |-> ss[k]] /\ \A k \in DOMAIN compiled : ss[k] = RejectsOf(compiled[k], settings)
  OBVIOUS
<1>3. \A k \in DOMAIN compiled : vs[k] = IF p.v6 /\ compiled[k].bypass THEN REJECT ELSE none
  OBVIOUS
<1> HIDE DEF ss, vs
<1>4. ASSUME NEW k \in DOMAIN compiled
      PROVE  ss[k] \in Seq(AnyRule) /\ Judge(Facts(p), p.over, ss[k]) = IF IsMine(compiled, settings, p, k) THEN vs[k] ELSE none
  <2> DEFINE device == compiled[k]
  <2>1. device.id \in Device
    BY DEF Listed
  <2>2. IsMine(compiled, settings, p, k) <=> device.id = p.from /\ (p.v6 => device.mac /\ settings.ipv6)
    BY DEF IsMine
  <2>3. FromUser(device.id) \in Facts(p) <=> p.v6 /\ device.id = p.from
    <3>1. device.id # Mac
      BY <2>1, RoutingAssumption
    <3>2. QED
      BY <3>1, FactsOf
  <2> HIDE DEF device
  <2>4. CASE settings.ipv6 /\ device.bypass /\ device.mac
    <3>1. PICK r : r = Rule({FromUser(device.id)}, REJECT)
      OBVIOUS
    <3>2. ss[k] = <<r>>
      BY <1>2, <2>4, <3>1 DEF RejectsOf, device
    <3>3. FromUser(device.id) \in Condition
      BY <2>1 DEF FromUser, Condition
    <3>4. r \in AnyRule
      BY <3>1, <3>3, Reached DEF Rule, AnyRule, Builtin
    <3>5. Verdict(Facts(p), p.over, r) = IF {FromUser(device.id)} \subseteq Facts(p) THEN Try(REJECT, "pass", p) ELSE none
      BY <3>1, Tried
    <3>6. Try(REJECT, "pass", p) = REJECT
      BY TriedTarget
    <3>7. <<r>> \in Seq(AnyRule) /\ Judge(Facts(p), p.over, <<r>>) = Verdict(Facts(p), p.over, r)
      BY <3>4, JudgeShort
    <3>8. Judge(Facts(p), p.over, ss[k]) = IF p.v6 /\ device.id = p.from THEN REJECT ELSE none
      BY <2>3, <3>2, <3>5, <3>6, <3>7
    <3>9. QED
      BY <1>3, <2>2, <2>4, <3>2, <3>7, <3>8 DEF device
  <2>5. CASE ~(settings.ipv6 /\ device.bypass /\ device.mac)
    <3>1. ss[k] = <<>>
      BY <1>2, <2>5 DEF RejectsOf, device
    <3>2. <<>> \in Seq(AnyRule) /\ Judge(Facts(p), p.over, <<>>) = none
      BY NothingSaid DEF Says
    <3>3. IsMine(compiled, settings, p, k) => vs[k] = none
      BY <1>3, <2>2, <2>5 DEF device
    <3>4. QED
      BY <3>1, <3>2, <3>3
  <2>6. QED
    BY <2>4, <2>5
<1>5. \A j, k \in DOMAIN compiled : compiled[j] = compiled[k] => ss[j] = ss[k]
  BY <1>2
<1>6. SectionDecides(compiled, settings, p, FlattenSeq(ss), vs)
  BY <1>2, <1>4, <1>5, JoinedSection
<1>7. QED
  BY <1>1, <1>6 DEF vs

\* Pairs for some of the devices decide over the packets of those.
LEMMA PairsSection ==
    ASSUME OutletsSound, NEW compiled, NEW settings, NEW p, IsPacket(p), Listed(compiled, p),
           NEW c4, NEW c6, NEW applies, SameInBoth(p, c4, c6, applies), NEW t \in {DIRECT, Tailnet},
           NEW on, \A j, k \in DOMAIN compiled : compiled[j] = compiled[k] => on[j] = on[k],
           NEW ss, ss = [k \in DOMAIN compiled |-> PairOf(compiled[k], settings, on[k], c4, c6, t)],
           NEW vs, \A k \in DOMAIN compiled : vs[k] = IF on[k] /\ applies THEN t ELSE none
    PROVE  SectionDecides(compiled, settings, p, FlattenSeq(ss), vs)
<1>1. \A k \in DOMAIN compiled : vs[k] = IF on[k] /\ applies THEN t ELSE none
  OBVIOUS
<1>2. /\ DOMAIN ss = DOMAIN compiled /\ ss = [k \in DOMAIN ss |-> ss[k]]
      /\ \A k \in DOMAIN compiled : ss[k] = PairOf(compiled[k], settings, on[k], c4, c6, t)
  OBVIOUS
<1>3. ASSUME NEW k \in DOMAIN compiled
      PROVE  ss[k] \in Seq(AnyRule) /\ Judge(Facts(p), p.over, ss[k]) = IF IsMine(compiled, settings, p, k) THEN vs[k] ELSE none
  <2>1. CASE on[k]
    <3>1. ss[k] = PairOf(compiled[k], settings, TRUE, c4, c6, t)
      BY <1>2, <2>1 DEF PairOf
    <3>2. PairSays(compiled, settings, p, k, applies, t, PairOf(compiled[k], settings, TRUE, c4, c6, t))
      BY ONLY OutletsSound, IsPacket(p), Listed(compiled, p), SameInBoth(p, c4, c6, applies), PairDecides
    <3>3. QED
      BY <1>1, <2>1, <3>1, <3>2 DEF Says, PairSays
  <2>2. CASE ~on[k]
    <3>1. ss[k] = <<>>
      BY <1>2, <2>2 DEF PairOf
    <3>2. <<>> \in Seq(AnyRule) /\ Judge(Facts(p), p.over, <<>>) = none
      BY NothingSaid DEF Says
    <3>3. QED
      BY <1>1, <2>2, <3>1, <3>2
  <2>3. QED
    BY <2>1, <2>2
<1>4. \A j, k \in DOMAIN compiled : compiled[j] = compiled[k] => ss[j] = ss[k]
  BY <1>2
<1>5. SectionDecides(compiled, settings, p, FlattenSeq(ss), vs)
  BY <1>2, <1>3, <1>4, JoinedSection
<1>6. QED
  BY <1>5

\* What a dedicated device sends to its own network stays direct.
LEMMA DedicatedSection ==
    ASSUME OutletsSound, NEW compiled, NEW settings, NEW p, IsPacket(p), Listed(compiled, p)
    PROVE  SectionDecides(compiled, settings, p, DedicatedLocal(compiled, settings),
                          [k \in DOMAIN compiled |-> IF compiled[k].mode = "dedicated" /\ IsLocal(p) THEN DIRECT ELSE none])
<1> DEFINE on == [k \in DOMAIN compiled |-> compiled[k].mode = "dedicated"]
           ss == [k \in DOMAIN compiled |-> PairOf(compiled[k], settings, on[k], LocalRange(FALSE), LocalRange(TRUE), DIRECT)]
<1>1. DedicatedLocal(compiled, settings) = FlattenSeq([k \in DOMAIN compiled |->
          PairOf(compiled[k], settings, compiled[k].mode = "dedicated", LocalRange(FALSE), LocalRange(TRUE), DIRECT)])
  BY DEF DedicatedLocal, Joined, PairOf
<1>2. \A k \in DOMAIN compiled : on[k] = (compiled[k].mode = "dedicated")
  OBVIOUS
<1> HIDE DEF on
<1>3. ss = [k \in DOMAIN compiled |-> PairOf(compiled[k], settings, compiled[k].mode = "dedicated", LocalRange(FALSE), LocalRange(TRUE), DIRECT)]
  BY <1>2
<1>4. LocalRange(FALSE) \in Condition /\ LocalRange(TRUE) \in Condition
  BY DEF LocalRange, Condition
<1>5. PICK applies \in BOOLEAN : applies = IsLocal(p)
  BY DEF IsLocal
<1>6. SameInBoth(p, LocalRange(FALSE), LocalRange(TRUE), applies)
  BY <1>4, <1>5, FactsOf DEF IsPacket, SameInBoth
<1>7. \A j, k \in DOMAIN compiled : compiled[j] = compiled[k] => on[j] = on[k]
  BY <1>2
<1>7a. ss = [k \in DOMAIN compiled |-> PairOf(compiled[k], settings, on[k], LocalRange(FALSE), LocalRange(TRUE), DIRECT)]
  OBVIOUS
<1>7b. PICK t \in {DIRECT, Tailnet} : t = DIRECT
  OBVIOUS
<1> HIDE DEF ss
<1> DEFINE vs == [k \in DOMAIN compiled |-> IF compiled[k].mode = "dedicated" /\ IsLocal(p) THEN DIRECT ELSE none]
<1>8. \A k \in DOMAIN compiled : vs[k] = IF on[k] /\ applies THEN t ELSE none
  BY <1>2, <1>5, <1>7b
<1> HIDE DEF vs
<1>9. SectionDecides(compiled, settings, p, FlattenSeq(ss), vs)
  <2>1. PICK c4, c6 : c4 = LocalRange(FALSE) /\ c6 = LocalRange(TRUE)
    OBVIOUS
  <2>2. SameInBoth(p, c4, c6, applies)
    BY <1>6, <2>1
  <2>3. ss = [k \in DOMAIN compiled |-> PairOf(compiled[k], settings, on[k], c4, c6, t)]
    BY <1>7a, <1>7b, <2>1
  <2>4. QED
    BY ONLY OutletsSound, IsPacket(p), Listed(compiled, p), <2>2, <2>3, <1>7, <1>8, <1>7b, PairsSection
<1>10. QED
  BY <1>1, <1>3, <1>9 DEF vs

-----------------------------------------------------------------------------
(* What devices are told by their own rules and outlets.                   *)

\* What the own outlets of the devices in one mode say.
DefaultIn(policy, active, compiled, mode, p) ==
    [k \in DOMAIN compiled |-> IF compiled[k].mode = mode THEN DefaultVerdict(policy, active[k], p) ELSE none]

\* The overrides of all devices decide by those of the sender.
LEMMA OverridesSection ==
    ASSUME NEW policy, NEW res, NEW settings, NEW p, Situation(policy, res, settings, p),
           NEW compiled, compiled = Compile(policy, res, settings), NEW active, active = Active(policy, settings)
    PROVE  SectionDecides(compiled, settings, p, WithUsers(compiled, Overrides(compiled), settings),
                          [k \in DOMAIN compiled |-> Leading(OwnVerdicts(policy, res, active[k], p))])
<1> DEFINE ss == [k \in DOMAIN compiled |-> compiled[k].overrides]
           vs == [k \in DOMAIN compiled |-> Leading(OwnVerdicts(policy, res, active[k], p))]
<1>1. Overrides(compiled) = FlattenSeq(ss)
  BY DEF Overrides, Joined
<1>2. DOMAIN ss = DOMAIN compiled /\ ss = [k \in DOMAIN ss |-> ss[k]] /\ \A k \in DOMAIN compiled : ss[k] = compiled[k].overrides
  OBVIOUS
<1>3. \A k \in DOMAIN compiled : vs[k] = Leading(OwnVerdicts(policy, res, active[k], p))
  OBVIOUS
<1> HIDE DEF ss, vs
<1>4. IsPacket(p) /\ Listed(compiled, p)
  <2>1. IsDocument(policy) /\ ValidPolicySet(policy) /\ Valid(policy, settings) /\ Arrives(policy, settings, p)
    BY DEF Situation
  <2>2. QED
    BY <2>1, CompiledListed DEF Arrives
<1>5. ASSUME NEW k \in DOMAIN compiled PROVE DeviceDecides(compiled, settings, p, k, ss[k], vs[k])
  <2>1. PICK d : d = active[k]
    OBVIOUS
  <2>2. Compiled(policy, res, settings, k, d, compiled)
    BY <2>1, CompiledAs DEF Compiled
  <2>3. DeviceDecides(compiled, settings, p, k, compiled[k].overrides, Leading(OwnVerdicts(policy, res, d, p)))
    BY ONLY Situation(policy, res, settings, p), <2>2, OverridesDecide
  <2>4. QED
    BY <1>2, <1>3, <2>1, <2>3
<1>6. \A j, k \in DOMAIN compiled : compiled[j] = compiled[k] => ss[j] = ss[k]
  BY <1>2
<1>7. SectionDecides(compiled, settings, p, WithUsers(compiled, FlattenSeq(ss), settings), vs)
  BY ONLY <1>2, <1>4, <1>5, <1>6, UsersSection
<1>8. QED
  BY <1>1, <1>7 DEF vs

\* The own outlets of the devices in one mode decide by that of the sender.
LEMMA DefaultsSection ==
    ASSUME NEW policy, NEW res, NEW settings, NEW p, Situation(policy, res, settings, p),
           NEW compiled, compiled = Compile(policy, res, settings), NEW active, active = Active(policy, settings),
           NEW mode, NEW ss, ss = [k \in DOMAIN compiled |-> IF compiled[k].mode = mode THEN compiled[k].defaults ELSE <<>>]
    PROVE  SectionDecides(compiled, settings, p, WithUsers(compiled, FlattenSeq(ss), settings),
                          DefaultIn(policy, active, compiled, mode, p))
<1>1. PICK vs : vs = DefaultIn(policy, active, compiled, mode, p)
  OBVIOUS
<1>2. /\ DOMAIN ss = DOMAIN compiled /\ ss = [k \in DOMAIN ss |-> ss[k]]
      /\ \A k \in DOMAIN compiled : ss[k] = IF compiled[k].mode = mode THEN compiled[k].defaults ELSE <<>>
  OBVIOUS
<1>3. \A k \in DOMAIN compiled : vs[k] = IF compiled[k].mode = mode THEN DefaultVerdict(policy, active[k], p) ELSE none
  BY <1>1 DEF DefaultIn
<1>4. IsPacket(p) /\ Listed(compiled, p)
  <2>1. IsDocument(policy) /\ ValidPolicySet(policy) /\ Valid(policy, settings) /\ Arrives(policy, settings, p)
    BY DEF Situation
  <2>2. QED
    BY <2>1, CompiledListed DEF Arrives
<1>5. ASSUME NEW k \in DOMAIN compiled PROVE DeviceDecides(compiled, settings, p, k, ss[k], vs[k])
  <2>1. PICK d : d = active[k]
    OBVIOUS
  <2>2. Compiled(policy, res, settings, k, d, compiled)
    BY <2>1, CompiledAs DEF Compiled
  <2>3. DeviceDecides(compiled, settings, p, k, compiled[k].defaults, DefaultVerdict(policy, d, p))
    BY ONLY Situation(policy, res, settings, p), <2>2, DefaultsDecide
  <2>4. DeviceDecides(compiled, settings, p, k, <<>>, none)
    BY ONLY NothingDecides
  <2>5. CASE compiled[k].mode = mode
    BY <1>2, <1>3, <2>1, <2>3, <2>5
  <2>6. CASE compiled[k].mode # mode
    BY <1>2, <1>3, <2>4, <2>6
  <2>7. QED
    BY <2>5, <2>6
<1>6. \A j, k \in DOMAIN compiled : compiled[j] = compiled[k] => ss[j] = ss[k]
  BY <1>2
<1>7. SectionDecides(compiled, settings, p, WithUsers(compiled, FlattenSeq(ss), settings), vs)
  BY ONLY <1>2, <1>4, <1>5, <1>6, UsersSection
<1>8. QED
  BY <1>1, <1>7

\* The dedicated outlets and the legacy fallbacks.
LEMMA OutletSections ==
    ASSUME NEW policy, NEW res, NEW settings, NEW p, Situation(policy, res, settings, p),
           NEW compiled, compiled = Compile(policy, res, settings), NEW active, active = Active(policy, settings)
    PROVE  /\ SectionDecides(compiled, settings, p, WithUsers(compiled, Dedicated(compiled), settings),
                             DefaultIn(policy, active, compiled, "dedicated", p))
           /\ SectionDecides(compiled, settings, p, WithUsers(compiled, Fallbacks(compiled), settings),
                             DefaultIn(policy, active, compiled, "legacy_fallback", p))
<1> DEFINE ds == [k \in DOMAIN compiled |-> IF compiled[k].mode = "dedicated" THEN compiled[k].defaults ELSE <<>>]
           fs == [k \in DOMAIN compiled |-> IF compiled[k].mode = "legacy_fallback" THEN compiled[k].defaults ELSE <<>>]
<1>1. Dedicated(compiled) = FlattenSeq(ds) /\ Fallbacks(compiled) = FlattenSeq(fs)
  BY DEF Dedicated, Fallbacks, Joined
<1>2. PICK xs, ys : xs = ds /\ ys = fs
  OBVIOUS
<1>3. SectionDecides(compiled, settings, p, WithUsers(compiled, FlattenSeq(xs), settings),
                     DefaultIn(policy, active, compiled, "dedicated", p))
  BY ONLY Situation(policy, res, settings, p), compiled = Compile(policy, res, settings), active = Active(policy, settings),
          <1>2, DefaultsSection
<1>4. SectionDecides(compiled, settings, p, WithUsers(compiled, FlattenSeq(ys), settings),
                     DefaultIn(policy, active, compiled, "legacy_fallback", p))
  BY ONLY Situation(policy, res, settings, p), compiled = Compile(policy, res, settings), active = Active(policy, settings),
          <1>2, DefaultsSection
<1>5. QED
  BY <1>1, <1>2, <1>3, <1>4

-----------------------------------------------------------------------------
(* The Tailnet.                                                            *)

\* Who may use it.
Allowed(compiled, settings, p) ==
    IF p.from = Mac THEN settings.ts.mac
    ELSE \E k \in DOMAIN compiled : IsMine(compiled, settings, p, k) /\ (settings.ts.all \/ compiled[k].id \in settings.ts.devices)

\* The Tailnet is for those who may use it, and refused to everybody else.
TailnetVerdict(compiled, settings, p) ==
    IF p.to = Peer /\ settings.ts.on THEN (IF Allowed(compiled, settings, p) THEN Tailnet ELSE REJECT) ELSE none

\* The pairs of the devices that may.
LEMMA TailnetPairs ==
    ASSUME OutletsSound, NEW compiled, NEW settings, NEW p, IsPacket(p), Listed(compiled, p),
           NEW on, \A k \in DOMAIN compiled : on[k] = (settings.ts.all \/ compiled[k].id \in settings.ts.devices),
           NEW ss, ss = [k \in DOMAIN compiled |-> PairOf(compiled[k], settings, on[k], <<"to", Peer>>, <<"to", Peer>>, Tailnet)],
           NEW vs, \A k \in DOMAIN compiled : vs[k] = IF on[k] /\ p.to = Peer THEN Tailnet ELSE none
    PROVE  SectionDecides(compiled, settings, p, FlattenSeq(ss), vs)
<1>1. PICK c : c = <<"to", Peer>>
  OBVIOUS
<1>2. PICK applies \in BOOLEAN : applies = (p.to = Peer)
  OBVIOUS
<1>3. SameInBoth(p, c, c, applies)
  <2>1. c \in Condition
    BY <1>1 DEF Condition
  <2>2. c \in Facts(p) <=> p.to = Peer
    BY <1>1, FactsOf
  <2>3. QED
    BY <1>2, <2>1, <2>2 DEF SameInBoth
<1>4. PICK t \in {DIRECT, Tailnet} : t = Tailnet
  OBVIOUS
<1>5. ss = [k \in DOMAIN compiled |-> PairOf(compiled[k], settings, on[k], c, c, t)]
  BY <1>1, <1>4
<1>6. \A k \in DOMAIN compiled : vs[k] = IF on[k] /\ applies THEN t ELSE none
  BY <1>2, <1>4
<1>7. \A j, k \in DOMAIN compiled : compiled[j] = compiled[k] => on[j] = on[k]
  OBVIOUS
<1>8. QED
  BY ONLY OutletsSound, IsPacket(p), Listed(compiled, p), <1>3, <1>5, <1>6, <1>7, PairsSection

\* The rules for the Mac.
HostRules(settings) ==
    IF settings.ts.mac
    THEN <<Rule({FromMac(FALSE), <<"to", Peer>>}, Tailnet), Rule({FromMac(TRUE), <<"to", Peer>>}, Tailnet)>>
    ELSE <<>>

\* They are for the Mac's own packets to the Tailnet.
LEMMA HostSays ==
    ASSUME OutletsSound, NEW settings, NEW p, IsPacket(p)
    PROVE  Says(Facts(p), p.over, HostRules(settings), IF settings.ts.mac /\ p.from = Mac /\ p.to = Peer THEN Tailnet ELSE none)
<1>1. PICK r, s : r = Rule({FromMac(FALSE), <<"to", Peer>>}, Tailnet) /\ s = Rule({FromMac(TRUE), <<"to", Peer>>}, Tailnet)
  OBVIOUS
<1>2. HostRules(settings) = IF settings.ts.mac THEN <<r, s>> ELSE <<>>
  BY <1>1 DEF HostRules
<1>3. r \in AnyRule /\ s \in AnyRule
  <2>1. FromMac(FALSE) \in Condition /\ FromMac(TRUE) \in Condition /\ <<"to", Peer>> \in Condition
    BY DEF Condition, FromMac
  <2>2. QED
    BY <1>1, <2>1, Reached DEF Rule, AnyRule
<1>4. Try(Tailnet, "pass", p) = Tailnet
  BY TriedTarget
<1>5. <<r, s>> \in Seq(AnyRule) /\ Judge(Facts(p), p.over, <<r, s>>) = Or(Verdict(Facts(p), p.over, r), Verdict(Facts(p), p.over, s))
  BY <1>3, JudgePair
<1>6. Verdict(Facts(p), p.over, r) = IF ~p.v6 /\ p.from = Mac /\ p.to = Peer THEN Tailnet ELSE none
  <2>1. Verdict(Facts(p), p.over, r) = IF r.when \subseteq Facts(p) THEN Try(r.to, "pass", p) ELSE none
    BY VerdictOf
  <2>2. FromMac(FALSE) \in Facts(p) <=> p.from = Mac /\ ~p.v6
    BY FactsOf DEF IsPacket
  <2>3. <<"to", Peer>> \in Facts(p) <=> p.to = Peer
    BY FactsOf
  <2>4. r.when \subseteq Facts(p) <=> (~p.v6 /\ p.from = Mac /\ p.to = Peer)
    BY <1>1, <2>2, <2>3 DEF Rule
  <2>5. r.to = Tailnet
    BY <1>1 DEF Rule
  <2>6. QED
    BY <1>4, <2>1, <2>4, <2>5
<1>7. Verdict(Facts(p), p.over, s) = IF p.v6 /\ p.from = Mac /\ p.to = Peer THEN Tailnet ELSE none
  <2>1. Verdict(Facts(p), p.over, s) = IF s.when \subseteq Facts(p) THEN Try(s.to, "pass", p) ELSE none
    BY VerdictOf
  <2>2. FromMac(TRUE) \in Facts(p) <=> p.from = Mac /\ p.v6
    BY FactsOf DEF IsPacket
  <2>3. <<"to", Peer>> \in Facts(p) <=> p.to = Peer
    BY FactsOf
  <2>4. s.when \subseteq Facts(p) <=> (p.v6 /\ p.from = Mac /\ p.to = Peer)
    BY <1>1, <2>2, <2>3 DEF Rule
  <2>5. s.to = Tailnet
    BY <1>1 DEF Rule
  <2>6. QED
    BY <1>4, <2>1, <2>4, <2>5
<1>8. CASE settings.ts.mac
  <2>1. Judge(Facts(p), p.over, <<r, s>>) = IF p.from = Mac /\ p.to = Peer THEN Tailnet ELSE none
    BY <1>5, <1>6, <1>7 DEF Or
  <2>2. QED
    BY <1>2, <1>5, <1>8, <2>1 DEF Says
<1>9. CASE ~settings.ts.mac
  BY <1>2, <1>9, NothingSaid
<1>10. QED
  BY <1>8, <1>9

\* Two and three lists, one after the other.
LEMMA ThreeSay ==
    ASSUME NEW facts, NEW over, NEW a, NEW b, NEW c, NEW u, NEW v, NEW w,
           Says(facts, over, a, u), Says(facts, over, b, v), Says(facts, over, c, w)
    PROVE  Says(facts, over, a \o b, Or(u, v)) /\ Says(facts, over, a \o b \o c, Or(Or(u, v), w))
<1>1. /\ a \in Seq(AnyRule) /\ b \in Seq(AnyRule) /\ c \in Seq(AnyRule)
      /\ Judge(facts, over, a) = u /\ Judge(facts, over, b) = v /\ Judge(facts, over, c) = w
  BY DEF Says
<1>2. PICK ab : ab = a \o b
  OBVIOUS
<1>3. ab \in Seq(AnyRule) /\ Judge(facts, over, ab) = Or(u, v)
  BY <1>1, <1>2, JudgeJoined
<1>4. PICK abc : abc = ab \o c
  OBVIOUS
<1>5. abc \in Seq(AnyRule) /\ Judge(facts, over, abc) = Or(Or(u, v), w)
  BY <1>1, <1>3, <1>4, JudgeJoined
<1>6. QED
  BY <1>2, <1>3, <1>4, <1>5 DEF Says

\* The last rule refuses the Tailnet to the rest.
LEMMA LastSays ==
    ASSUME OutletsSound, NEW p, IsPacket(p)
    PROVE  Says(Facts(p), p.over, <<Rule({<<"to", Peer>>}, REJECT)>>, IF p.to = Peer THEN REJECT ELSE none)
<1>1. PICK r : r = Rule({<<"to", Peer>>}, REJECT)
  OBVIOUS
<1>2. r \in AnyRule
  <2>1. <<"to", Peer>> \in Condition
    BY DEF Condition
  <2>2. QED
    BY <1>1, <2>1, Reached DEF Rule, AnyRule, Builtin
<1>3. <<r>> \in Seq(AnyRule) /\ Judge(Facts(p), p.over, <<r>>) = Verdict(Facts(p), p.over, r)
  BY <1>2, JudgeShort
<1>4. Verdict(Facts(p), p.over, r) = IF r.when \subseteq Facts(p) THEN Try(r.to, "pass", p) ELSE none
  BY VerdictOf
<1>4a. r.when = {<<"to", Peer>>} /\ r.to = REJECT
  BY <1>1 DEF Rule
<1>5. <<"to", Peer>> \in Facts(p) <=> p.to = Peer
  BY FactsOf
<1>6. Try(REJECT, "pass", p) = REJECT
  BY TriedTarget
<1>7. QED
  BY <1>1, <1>3, <1>4, <1>4a, <1>5, <1>6 DEF Says

\* tailscaleRules gives the Tailnet to those who may use it, and to nobody else.
LEMMA TailnetSays ==
    ASSUME OutletsSound, NEW compiled, NEW settings, NEW p, IsPacket(p), Listed(compiled, p)
    PROVE  Says(Facts(p), p.over, TailscaleRules(compiled, settings), TailnetVerdict(compiled, settings, p))
<1> DEFINE on == [k \in DOMAIN compiled |-> settings.ts.all \/ compiled[k].id \in settings.ts.devices]
           ss == [k \in DOMAIN compiled |-> PairOf(compiled[k], settings, settings.ts.all \/ compiled[k].id \in settings.ts.devices,
                                                   <<"to", Peer>>, <<"to", Peer>>, Tailnet)]
           vs == [k \in DOMAIN compiled |-> IF on[k] /\ p.to = Peer THEN Tailnet ELSE none]
           last == <<Rule({<<"to", Peer>>}, REJECT)>>
<1>1. TailscaleRules(compiled, settings) = IF ~settings.ts.on THEN <<>> ELSE HostRules(settings) \o FlattenSeq(ss) \o last
  BY DEF TailscaleRules, HostRules, Joined, PairOf
<1>2. \A k \in DOMAIN compiled : on[k] = (settings.ts.all \/ compiled[k].id \in settings.ts.devices)
  OBVIOUS
<1>3. ss = [k \in DOMAIN compiled |-> PairOf(compiled[k], settings, on[k], <<"to", Peer>>, <<"to", Peer>>, Tailnet)]
  OBVIOUS
<1>4. \A k \in DOMAIN compiled : vs[k] = IF on[k] /\ p.to = Peer THEN Tailnet ELSE none
  OBVIOUS
<1>5. Says(Facts(p), p.over, last, IF p.to = Peer THEN REJECT ELSE none)
  BY LastSays
<1> HIDE DEF on, ss, vs, last
<1>6. SectionDecides(compiled, settings, p, FlattenSeq(ss), vs)
  BY ONLY OutletsSound, IsPacket(p), Listed(compiled, p), <1>2, <1>3, <1>4, TailnetPairs
<1>7. PICK host : host = IF settings.ts.mac /\ p.from = Mac /\ p.to = Peer THEN Tailnet ELSE none
  OBVIOUS
<1>8. Says(Facts(p), p.over, HostRules(settings), host)
  BY <1>7, HostSays
<1>9. PICK own : own = Judge(Facts(p), p.over, FlattenSeq(ss))
  OBVIOUS
<1>10. Says(Facts(p), p.over, FlattenSeq(ss), own)
  BY <1>6, <1>9 DEF Says, SectionDecides
<1>11. PICK end : end = IF p.to = Peer THEN REJECT ELSE none
  OBVIOUS
<1>12. Says(Facts(p), p.over, last, end)
  BY <1>5, <1>11
<1>13. Says(Facts(p), p.over, HostRules(settings) \o FlattenSeq(ss) \o last, Or(Or(host, own), end))
  BY ONLY <1>8, <1>10, <1>12, ThreeSay
<1>14. none # Tailnet
  BY Names
<1>15. CASE ~settings.ts.on
  BY <1>1, <1>15, NothingSaid DEF TailnetVerdict
<1>16. CASE settings.ts.on
  <2>1. p.from = Mac => \A k \in DOMAIN compiled : ~IsMine(compiled, settings, p, k)
    BY RoutingAssumption DEF IsMine, Listed
  <2>2. CASE p.from = Mac
    <3>1. own = none
      BY <1>6, <1>9, <2>1, <2>2 DEF SectionDecides
    <3>2. Or(Or(host, own), end) = TailnetVerdict(compiled, settings, p)
      BY <1>7, <1>11, <1>14, <1>16, <2>2, <3>1 DEF Or, TailnetVerdict, Allowed
    <3>3. QED
      BY <1>1, <1>13, <1>16, <3>2
  <2>3. CASE p.from # Mac /\ \E k \in DOMAIN compiled : IsMine(compiled, settings, p, k)
    <3>1. PICK k \in DOMAIN compiled : IsMine(compiled, settings, p, k)
      BY <2>3
    <3>2. own = IF on[k] /\ p.to = Peer THEN Tailnet ELSE none
      BY <1>4, <1>6, <1>9, <3>1 DEF SectionDecides
    <3>3. \A j \in DOMAIN compiled : IsMine(compiled, settings, p, j) => compiled[j].id = compiled[k].id
      BY <3>1 DEF IsMine
    <3>4. Allowed(compiled, settings, p) <=> on[k]
      BY <1>2, <2>3, <3>1, <3>3 DEF Allowed
    <3>5. Or(Or(host, own), end) = TailnetVerdict(compiled, settings, p)
      BY <1>7, <1>11, <1>14, <1>16, <2>3, <3>2, <3>4 DEF Or, TailnetVerdict
    <3>6. QED
      BY <1>1, <1>13, <1>16, <3>5
  <2>4. CASE p.from # Mac /\ \A k \in DOMAIN compiled : ~IsMine(compiled, settings, p, k)
    <3>1. own = none
      BY <1>6, <1>9, <2>4 DEF SectionDecides
    <3>2. ~Allowed(compiled, settings, p)
      BY <2>4 DEF Allowed
    <3>3. Or(Or(host, own), end) = TailnetVerdict(compiled, settings, p)
      BY <1>7, <1>11, <1>14, <1>16, <2>4, <3>1, <3>2 DEF Or, TailnetVerdict
    <3>4. QED
      BY <1>1, <1>13, <1>16, <3>3
  <2>5. QED
    BY <2>2, <2>3, <2>4
<1>17. QED
  BY <1>15, <1>16

-----------------------------------------------------------------------------
(* The Mac's own traffic.                                                  *)

\* What the Mac's mode says of the Mac's own packets.
LocalVerdict(p) ==
    IF p.from # Mac THEN none
    ELSE IF IsLocal(p) THEN DIRECT
    ELSE Try(IF p.over = "tcp" THEN MacTCP ELSE MacUDP, "pass", p)

\* The rules of one of the Mac's two inbounds.
InboundRules(v6) ==
    <<Rule({FromMac(v6), LocalRange(FALSE)}, DIRECT)>>
    \o (IF v6 THEN <<Rule({FromMac(v6), LocalRange(TRUE)}, DIRECT)>> ELSE <<>>)
    \o <<Rule({FromMac(v6), <<"over", "tcp">>}, MacTCP), Rule({FromMac(v6), <<"over", "udp">>}, MacUDP)>>

\* A rule of an inbound is for the Mac's packets of its family.
LEMMA InboundRule ==
    ASSUME OutletsSound, NEW p, IsPacket(p), NEW v6 \in BOOLEAN, NEW x \in Condition, NEW t \in Reach,
           NEW r, r = Rule({FromMac(v6), x}, t)
    PROVE  /\ r \in AnyRule
           /\ Verdict(Facts(p), p.over, r) = IF p.from = Mac /\ p.v6 = v6 /\ x \in Facts(p) THEN Try(t, "pass", p) ELSE none
<1>1. r.when = {FromMac(v6), x} /\ r.to = t
  BY DEF Rule
<1>2. FromMac(v6) \in Condition
  BY DEF Condition, FromMac
<1>3. r \in AnyRule
  BY <1>2 DEF Rule, AnyRule
<1>4. Verdict(Facts(p), p.over, r) = IF r.when \subseteq Facts(p) THEN Try(r.to, "pass", p) ELSE none
  BY VerdictOf
<1>5. FromMac(v6) \in Facts(p) <=> p.from = Mac /\ v6 = p.v6
  BY FactsOf
<1>6. r.when \subseteq Facts(p) <=> (p.from = Mac /\ p.v6 = v6 /\ x \in Facts(p))
  BY <1>1, <1>5
<1>7. QED
  BY <1>1, <1>3, <1>4, <1>6

\* The rules of an inbound decide over them by the mode.
LEMMA InboundSays ==
    ASSUME OutletsSound, NEW p, IsPacket(p), NEW v6 \in BOOLEAN
    PROVE  Says(Facts(p), p.over, InboundRules(v6), IF p.v6 = v6 THEN LocalVerdict(p) ELSE none)
<1> DEFINE here == p.from = Mac /\ p.v6 = v6
<1>1. PICK r1, r2, r3, r4 : /\ r1 = Rule({FromMac(v6), LocalRange(FALSE)}, DIRECT)
                            /\ r2 = Rule({FromMac(v6), LocalRange(TRUE)}, DIRECT)
                            /\ r3 = Rule({FromMac(v6), <<"over", "tcp">>}, MacTCP)
                            /\ r4 = Rule({FromMac(v6), <<"over", "udp">>}, MacUDP)
  OBVIOUS
<1>2. PICK x1, x2, x3, x4 : x1 = LocalRange(FALSE) /\ x2 = LocalRange(TRUE) /\ x3 = <<"over", "tcp">> /\ x4 = <<"over", "udp">>
  OBVIOUS
<1>3. x1 \in Condition /\ x2 \in Condition /\ x3 \in Condition /\ x4 \in Condition
  BY <1>2 DEF LocalRange, Condition
<1>4. DIRECT \in Reach /\ MacTCP \in Reach /\ MacUDP \in Reach
  BY Reached DEF Builtin, Reach
<1>5. r1 = Rule({FromMac(v6), x1}, DIRECT) /\ r2 = Rule({FromMac(v6), x2}, DIRECT)
      /\ r3 = Rule({FromMac(v6), x3}, MacTCP) /\ r4 = Rule({FromMac(v6), x4}, MacUDP)
  BY <1>1, <1>2
<1>6. r1 \in AnyRule /\ Verdict(Facts(p), p.over, r1) = IF here /\ x1 \in Facts(p) THEN Try(DIRECT, "pass", p) ELSE none
  BY ONLY OutletsSound, IsPacket(p), v6 \in BOOLEAN, <1>3, <1>4, <1>5, InboundRule
<1>7. r2 \in AnyRule /\ Verdict(Facts(p), p.over, r2) = IF here /\ x2 \in Facts(p) THEN Try(DIRECT, "pass", p) ELSE none
  BY ONLY OutletsSound, IsPacket(p), v6 \in BOOLEAN, <1>3, <1>4, <1>5, InboundRule
<1>8. r3 \in AnyRule /\ Verdict(Facts(p), p.over, r3) = IF here /\ x3 \in Facts(p) THEN Try(MacTCP, "pass", p) ELSE none
  BY ONLY OutletsSound, IsPacket(p), v6 \in BOOLEAN, <1>3, <1>4, <1>5, InboundRule
<1>9. r4 \in AnyRule /\ Verdict(Facts(p), p.over, r4) = IF here /\ x4 \in Facts(p) THEN Try(MacUDP, "pass", p) ELSE none
  BY ONLY OutletsSound, IsPacket(p), v6 \in BOOLEAN, <1>3, <1>4, <1>5, InboundRule
<1>10. /\ x1 \in Facts(p) <=> FALSE = p.v6 /\ IsLocal(p)
       /\ x2 \in Facts(p) <=> TRUE = p.v6 /\ IsLocal(p)
       /\ x3 \in Facts(p) <=> p.over = "tcp"
       /\ x4 \in Facts(p) <=> p.over = "udp"
  <2>1. \A v \in BOOLEAN : LocalRange(v) \in Facts(p) <=> v = p.v6 /\ IsLocal(p)
    BY FactsOf
  <2>2. \A x : <<"over", x>> \in Facts(p) <=> x = p.over
    BY FactsOf
  <2>3. QED
    BY <1>2, <2>1, <2>2
<1>11. PICK a, b, c, w : a = <<r1>> /\ b = (IF v6 THEN <<r2>> ELSE <<>>) /\ c = <<r3, r4>> /\ w = Judge(Facts(p), p.over, c)
  OBVIOUS
<1>12. InboundRules(v6) = a \o b \o c
  BY <1>1, <1>11 DEF InboundRules
<1>13. Try(DIRECT, "pass", p) = DIRECT
  BY TriedTarget
<1>14. p.v6 \in BOOLEAN /\ p.over \in {"tcp", "udp"}
  BY DEF IsPacket
<1>15. none # DIRECT
  BY Names
<1>16. Says(Facts(p), p.over, a, IF here /\ ~v6 /\ IsLocal(p) THEN DIRECT ELSE none)
  <2>1. a \in Seq(AnyRule) /\ Judge(Facts(p), p.over, a) = Verdict(Facts(p), p.over, r1)
    BY <1>6, <1>11, JudgeShort
  <2>2. QED
    BY <1>6, <1>10, <1>13, <1>14, <2>1 DEF Says
<1>17. Says(Facts(p), p.over, b, IF here /\ v6 /\ IsLocal(p) THEN DIRECT ELSE none)
  <2>1. CASE v6
    <3>1. b \in Seq(AnyRule) /\ Judge(Facts(p), p.over, b) = Verdict(Facts(p), p.over, r2)
      <4>1. b = <<r2>>
        BY <1>11, <2>1
      <4>2. QED
        BY <1>7, <4>1, JudgeShort
    <3>2. QED
      BY <1>7, <1>10, <1>13, <1>14, <2>1, <3>1 DEF Says
  <2>2. CASE ~v6
    <3>1. b = <<>>
      BY <1>11, <2>2
    <3>2. QED
      BY <2>2, <3>1, NothingSaid
  <2>3. QED
    BY <2>1, <2>2
<1>18. Says(Facts(p), p.over, c, w)
  <2>1. c \in Seq(AnyRule)
    BY <1>8, <1>9, <1>11, JudgePair
  <2>2. QED
    BY <1>11, <2>1 DEF Says
<1>19. w = IF here THEN Try(IF p.over = "tcp" THEN MacTCP ELSE MacUDP, "pass", p) ELSE none
  <2>1. w = Or(Verdict(Facts(p), p.over, r3), Verdict(Facts(p), p.over, r4))
    BY <1>8, <1>9, <1>11, JudgePair
  <2>2. CASE p.over = "tcp"
    BY <1>8, <1>9, <1>10, <2>1, <2>2 DEF Or
  <2>3. CASE p.over = "udp"
    BY <1>8, <1>9, <1>10, <2>1, <2>3 DEF Or
  <2>4. QED
    BY <1>14, <2>2, <2>3
<1>20. PICK u, v : /\ u = (IF here /\ ~v6 /\ IsLocal(p) THEN DIRECT ELSE none)
                   /\ v = (IF here /\ v6 /\ IsLocal(p) THEN DIRECT ELSE none)
  OBVIOUS
<1>21. Says(Facts(p), p.over, a, u) /\ Says(Facts(p), p.over, b, v)
  BY <1>16, <1>17, <1>20
<1>22. Says(Facts(p), p.over, a \o b \o c, Or(Or(u, v), w))
  BY ONLY <1>18, <1>21, ThreeSay
<1>23. Or(Or(u, v), w) = IF p.v6 = v6 THEN LocalVerdict(p) ELSE none
  BY <1>15, <1>19, <1>20 DEF Or, LocalVerdict
<1>24. QED
  BY <1>12, <1>22, <1>23

\* Those of both inbounds decide over all of the Mac's packets.
LEMMA LocalSays ==
    ASSUME OutletsSound, NEW p, IsPacket(p)
    PROVE  Says(Facts(p), p.over, LocalRouting, LocalVerdict(p))
<1> DEFINE ss == [i \in 1 .. 2 |-> InboundRules(i = 2)]
           ws == [i \in DOMAIN ss |-> Judge(Facts(p), p.over, ss[i])]
<1>1. LocalRouting = FlattenSeq(ss)
  BY DEF LocalRouting, InboundRules
<1>2. DOMAIN ss = 1 .. 2 /\ \A i \in 1 .. 2 : ss[i] = InboundRules(i = 2)
  OBVIOUS
<1>3. ss[1] = InboundRules(FALSE) /\ ss[2] = InboundRules(TRUE)
  <2>1. 1 # 2
    OBVIOUS
  <2>2. (1 = 2) = FALSE /\ (2 = 2) = TRUE
    BY ONLY <2>1, Zenon
  <2>3. ss[1] = InboundRules(1 = 2) /\ ss[2] = InboundRules(2 = 2)
    BY <1>2
  <2>4. QED
    BY ONLY <2>2, <2>3, Zenon
<1>4. /\ Says(Facts(p), p.over, ss[1], IF p.v6 = FALSE THEN LocalVerdict(p) ELSE none)
      /\ Says(Facts(p), p.over, ss[2], IF p.v6 = TRUE THEN LocalVerdict(p) ELSE none)
  <2>1. \A v6 \in BOOLEAN : Says(Facts(p), p.over, InboundRules(v6), IF p.v6 = v6 THEN LocalVerdict(p) ELSE none)
    BY ONLY OutletsSound, IsPacket(p), InboundSays
  <2>2. QED
    BY <1>3, <2>1
<1>5. ss \in Seq(Seq(AnyRule))
  <2>1. ss[1] \in Seq(AnyRule) /\ ss[2] \in Seq(AnyRule)
    BY <1>4 DEF Says
  <2>2. ss \in [1 .. 2 -> Seq(AnyRule)]
    BY <1>2, <2>1
  <2>3. QED
    BY <2>2
<1>6. /\ ws[1] = (IF p.v6 = FALSE THEN LocalVerdict(p) ELSE none) /\ ws[2] = (IF p.v6 = TRUE THEN LocalVerdict(p) ELSE none)
      /\ DOMAIN ws = 1 .. 2
  BY <1>2, <1>4 DEF Says
<1> HIDE DEF ss
<1>7. FlattenSeq(ss) \in Seq(AnyRule)
  BY <1>5, FlattenedMembers
<1>8. Judge(Facts(p), p.over, FlattenSeq(ss)) = Leading(ws)
  BY <1>5, JudgeFlattened
<1> HIDE DEF ws
<1>9. Leading(ws) = LocalVerdict(p)
  <2>1. p.v6 \in BOOLEAN
    BY DEF IsPacket
  <2>2. PICK w : w = LocalVerdict(p)
    OBVIOUS
  <2>3. Leads(ws, w)
    BY <1>6, <2>1, <2>2 DEF Leads
  <2>4. DOMAIN ws \subseteq Nat
    BY <1>6
  <2>5. QED
    BY <2>2, <2>3, <2>4, LeadingIs
<1>10. QED
  BY <1>1, <1>7, <1>8, <1>9 DEF Says

-----------------------------------------------------------------------------
(* An engine's rules as a whole.                                           *)

\* The engine routes by what the rules say, and directly without any.
LEMMA RouteIs ==
    ASSUME OutletsSound, NEW rules \in Seq(AnyRule), NEW p
    PROVE  Route(rules, selected, p) = Or(Judge(Facts(p), p.over, rules), DIRECT)
<1> DEFINE facts == Facts(p)
           ws == [i \in DOMAIN rules |-> Verdict(facts, p.over, rules[i])]
           I == {i \in 1 .. Len(rules) : /\ rules[i].when \subseteq facts
                                         /\ Outlet(selected, rules[i].to) # PASS
                                         /\ Carries(Outlet(selected, rules[i].to), p.over)}
           first == CHOOSE i \in I : \A j \in I : i <= j
           at == IF I # {} THEN first ELSE 0
<1>1. Route(rules, selected, p) = IF at = 0 THEN DIRECT ELSE Outlet(selected, rules[at].to)
  BY DEF Route, SelectInSeq, Min
<1>2. DOMAIN rules = 1 .. Len(rules) /\ Len(rules) \in Nat /\ \A i \in DOMAIN rules : rules[i].to \in Reach
  <2>1. DOMAIN rules = 1 .. Len(rules) /\ Len(rules) \in Nat /\ \A i \in DOMAIN rules : rules[i] \in AnyRule
    BY ONLY rules \in Seq(AnyRule)
  <2>2. QED
    BY ONLY <2>1 DEF AnyRule
<1>3. \A i \in DOMAIN rules : ws[i] # none <=> i \in I
  <2>1. \A i \in DOMAIN rules : Outlet(selected, rules[i].to) # none
    BY <1>2, Reached
  <2>2. QED
    BY <1>2, <2>1 DEF Verdict
<1>4. \A i \in I : i \in DOMAIN rules /\ ws[i] = Outlet(selected, rules[i].to)
  BY <1>2 DEF Verdict
<1>5. DOMAIN ws = DOMAIN rules /\ DOMAIN ws \subseteq Nat /\ I \subseteq DOMAIN ws
  BY <1>2
<1>6. Judge(facts, p.over, rules) = Leading(ws)
  BY DEF Judge
<1>7. CASE I = {}
  <2>1. \A i \in DOMAIN ws : ws[i] = none
    BY <1>3, <1>5, <1>7
  <2>2. at = 0
    BY <1>7
  <2> HIDE DEF ws, at, I
  <2>3. Leading(ws) = none
    BY <1>5, <2>1, LeadingNone
  <2>4. QED
    BY <1>1, <1>6, <2>2, <2>3 DEF Or
<1>8. CASE I # {}
  <2>1. first \in I /\ \A j \in I : first <= j
    <3>1. \E i \in I : \A j \in I : i <= j
      <4> HIDE DEF I
      <4>1. I \in SUBSET Nat
        BY <1>5
      <4>2. QED
        BY <1>8, <4>1, Least
    <3>2. QED
      BY <3>1
  <2>2. at = first
    BY <1>8
  <2> HIDE DEF ws, at, I, first
  <2>3. first \in DOMAIN ws /\ first # 0 /\ first \in Nat
    <3>1. first \in DOMAIN rules
      BY <1>4, <2>1
    <3>2. QED
      BY <1>2, <1>5, <3>1
  <2>4. \A j \in DOMAIN ws : j < first => ws[j] = none
    BY <1>2, <1>3, <1>5, <2>1, <2>3
  <2>5. ws[first] # none /\ ws[first] = Outlet(selected, rules[first].to)
    BY <1>3, <1>4, <1>5, <2>1
  <2>6. Leads(ws, ws[first])
    BY <2>3, <2>4, <2>5 DEF Leads
  <2>7. Leading(ws) = ws[first]
    BY <1>5, <2>6, LeadingIs
  <2>8. QED
    BY <1>1, <1>6, <2>2, <2>3, <2>5, <2>7 DEF Or
<1>9. QED
  BY <1>7, <1>8

\* So do the promises.
LEMMA FirstIs ==
    ASSUME NEW S, NEW list \in Seq(S)
    PROVE  First(list) = Or(Leading(list), DIRECT)
<1> DEFINE I == {i \in 1 .. Len(list) : list[i] # none}
           first == CHOOSE i \in I : \A j \in I : i <= j
           at == IF I # {} THEN first ELSE 0
<1>1. First(list) = IF at = 0 THEN DIRECT ELSE list[at]
  BY DEF First, SelectInSeq, Min
<1>2. DOMAIN list = 1 .. Len(list) /\ Len(list) \in Nat /\ DOMAIN list \subseteq Nat
  OBVIOUS
<1>3. Leading(list) = IF I = {} THEN none ELSE list[first]
  BY <1>2 DEF Leading
<1>4. CASE I = {}
  BY <1>1, <1>3, <1>4 DEF Or
<1>5. CASE I # {}
  <2>1. first \in I
    <3>1. \E i \in I : \A j \in I : i <= j
      <4>1. I \in SUBSET Nat
        OBVIOUS
      <4> HIDE DEF I
      <4>2. QED
        BY <1>5, <4>1, Least
    <3>2. QED
      BY <3>1
  <2> HIDE DEF first
  <2>2. first # 0 /\ list[first] # none
    BY <2>1
  <2>3. QED
    BY <1>1, <1>3, <1>5, <2>2 DEF Or
<1>6. QED
  BY <1>4, <1>5

\* What the rules of a source say of a packet, one by one.
SourceVerdicts(content, p) ==
    [i \in DOMAIN content.rules |->
        IF content.rules[i].when \subseteq Facts(p) THEN Try(content.rules[i].to, "pass", p) ELSE none]

\* Its terminal MATCH.
MatchVerdict(content, p) == IF content.match = none THEN none ELSE Try(content.match, "pass", p)

\* The rules made of that.
MatchRules(content) == IF content.match = none THEN <<>> ELSE <<Rule({}, content.match)>>

\* A source's rules are its own in the engine.
LEMMA SourceSays ==
    ASSUME NEW content, IsSource(content), NEW p
    PROVE  /\ Says(Facts(p), p.over, content.rules, Leading(SourceVerdicts(content, p)))
           /\ Says(Facts(p), p.over, MatchRules(content), MatchVerdict(content, p))
<1>1. PICK rules : rules = content.rules
  OBVIOUS
<1>2. RuleTarget \subseteq Reach
  BY DEF Reach
<1>3. rules \in Seq(AnyRule)
  <2>0. PICK S : S = [when : SUBSET Condition, to : RuleTarget]
    OBVIOUS
  <2>1. rules \in Seq(S)
    BY <1>1, <2>0 DEF IsSource
  <2>2. Len(rules) \in Nat /\ DOMAIN rules = 1 .. Len(rules) /\ rules = [i \in DOMAIN rules |-> rules[i]]
        /\ \A i \in DOMAIN rules : rules[i] \in S
    BY ONLY <2>1
  <2>3. \A i \in DOMAIN rules : rules[i] \in AnyRule
    BY ONLY <1>2, <2>0, <2>2 DEF AnyRule
  <2>4. rules \in [1 .. Len(rules) -> AnyRule]
    BY ONLY <2>2, <2>3
  <2>5. QED
    BY ONLY <2>2, <2>4
<1>4. [i \in DOMAIN rules |-> Verdict(Facts(p), p.over, rules[i])] = SourceVerdicts(content, p)
  <2>1. \A i \in DOMAIN rules : Verdict(Facts(p), p.over, rules[i])
                                = IF rules[i].when \subseteq Facts(p) THEN Try(rules[i].to, "pass", p) ELSE none
    BY VerdictOf
  <2>2. SourceVerdicts(content, p) = [i \in DOMAIN rules |-> IF rules[i].when \subseteq Facts(p) THEN Try(rules[i].to, "pass", p) ELSE none]
    BY <1>1 DEF SourceVerdicts
  <2>3. QED
    BY <2>1, <2>2
<1>5. Says(Facts(p), p.over, content.rules, Leading(SourceVerdicts(content, p)))
  BY <1>1, <1>3, <1>4 DEF Says, Judge
<1>6. Says(Facts(p), p.over, MatchRules(content), MatchVerdict(content, p))
  <2>1. CASE content.match = none
    BY <2>1, NothingSaid DEF MatchRules, MatchVerdict
  <2>2. CASE content.match # none
    <3>1. PICK r : r = Rule({}, content.match)
      OBVIOUS
    <3>2. r.when = {} /\ r.to = content.match
      BY <3>1 DEF Rule
    <3>3. content.match \in Reach
      BY <1>2, <2>2 DEF IsSource
    <3>4. r \in AnyRule
      BY <3>1, <3>3 DEF Rule, AnyRule
    <3>5. <<r>> \in Seq(AnyRule) /\ Judge(Facts(p), p.over, <<r>>) = Verdict(Facts(p), p.over, r)
      BY <3>4, JudgeShort
    <3>6. Verdict(Facts(p), p.over, r) = Try(content.match, "pass", p)
      BY <3>2, VerdictOf
    <3>7. MatchRules(content) = <<r>> /\ MatchVerdict(content, p) = Try(content.match, "pass", p)
      BY <2>2, <3>1 DEF MatchRules, MatchVerdict
    <3>8. QED
      BY <3>5, <3>6, <3>7 DEF Says
  <2>3. QED
    BY <2>1, <2>2
<1>7. QED
  BY <1>5, <1>6

\* Nine lists, one after the other.
LEMMA NineSay ==
    ASSUME NEW facts, NEW over, NEW a, NEW b, NEW c, NEW d, NEW e, NEW f, NEW g, NEW h, NEW i,
           NEW ta, NEW tb, NEW tc, NEW td, NEW te, NEW tf, NEW tg, NEW th, NEW ti,
           Says(facts, over, a, ta), Says(facts, over, b, tb), Says(facts, over, c, tc), Says(facts, over, d, td),
           Says(facts, over, e, te), Says(facts, over, f, tf), Says(facts, over, g, tg), Says(facts, over, h, th),
           Says(facts, over, i, ti)
    PROVE  Says(facts, over, a \o b \o c \o d \o e \o f \o g \o h \o i,
                Or(Or(Or(Or(Or(Or(Or(Or(ta, tb), tc), td), te), tf), tg), th), ti))
<1>1. PICK x, tx : x = a \o b \o c /\ tx = Or(Or(ta, tb), tc)
  OBVIOUS
<1>2. Says(facts, over, x, tx)
  BY <1>1, ThreeSay
<1>3. PICK y, ty : y = x \o d \o e /\ ty = Or(Or(tx, td), te)
  OBVIOUS
<1>4. Says(facts, over, y, ty)
  BY ONLY <1>2, <1>3, Says(facts, over, d, td), Says(facts, over, e, te), ThreeSay
<1>5. PICK z, tz : z = y \o f \o g /\ tz = Or(Or(ty, tf), tg)
  OBVIOUS
<1>6. Says(facts, over, z, tz)
  BY ONLY <1>4, <1>5, Says(facts, over, f, tf), Says(facts, over, g, tg), ThreeSay
<1>7. Says(facts, over, z \o h \o i, Or(Or(tz, th), ti))
  BY ONLY <1>6, Says(facts, over, h, th), Says(facts, over, i, ti), ThreeSay
<1>8. QED
  BY ONLY <1>1, <1>3, <1>5, <1>7

\* What the sections of the rules decide one by one.
RouteBy(p, bypass, tailnet, local, direct, own, dedicated, global, fallback, terminal) ==
    Or(Or(Or(Or(Or(Or(Or(Or(Or(bypass, tailnet), local), direct), own), dedicated), global), fallback), terminal), DIRECT)

\* The rules of an engine decide section by section.
LEMMA RulesRoute ==
    ASSUME OutletsSound, NEW compiled, NEW content, NEW settings, NEW p,
           NEW ta, NEW tb, NEW tc, NEW td, NEW te, NEW tf, NEW tg, NEW th, NEW ti,
           Says(Facts(p), p.over, BypassRejects(compiled, settings), ta),
           Says(Facts(p), p.over, TailscaleRules(compiled, settings), tb),
           Says(Facts(p), p.over, LocalRouting, tc),
           Says(Facts(p), p.over, DedicatedLocal(compiled, settings), td),
           Says(Facts(p), p.over, WithUsers(compiled, Overrides(compiled), settings), te),
           Says(Facts(p), p.over, WithUsers(compiled, Dedicated(compiled), settings), tf),
           Says(Facts(p), p.over, content.rules, tg),
           Says(Facts(p), p.over, WithUsers(compiled, Fallbacks(compiled), settings), th),
           Says(Facts(p), p.over, MatchRules(content), ti)
    PROVE  Route(Rules(compiled, content, settings), selected, p) = RouteBy(p, ta, tb, tc, td, te, tf, tg, th, ti)
<1>1. PICK rules : rules = Rules(compiled, content, settings)
  OBVIOUS
<1>2. Says(Facts(p), p.over, rules, Or(Or(Or(Or(Or(Or(Or(Or(ta, tb), tc), td), te), tf), tg), th), ti))
  <2>1. rules = BypassRejects(compiled, settings) \o TailscaleRules(compiled, settings) \o LocalRouting
                \o DedicatedLocal(compiled, settings)
                \o WithUsers(compiled, Overrides(compiled), settings) \o WithUsers(compiled, Dedicated(compiled), settings)
                \o content.rules \o WithUsers(compiled, Fallbacks(compiled), settings) \o MatchRules(content)
    BY <1>1 DEF Rules, MatchRules
  <2>2. QED
    BY <2>1, NineSay
<1>3. Route(rules, selected, p) = Or(Judge(Facts(p), p.over, rules), DIRECT)
  BY <1>2, RouteIs DEF Says
<1>4. QED
  BY <1>1, <1>2, <1>3 DEF Says, RouteBy

-----------------------------------------------------------------------------
(* What the documents promise.                                             *)

\* The list as a whole says w.
Gives(list, w) ==
    /\ \E n \in Nat : DOMAIN list = 1 .. n
    /\ list = [i \in DOMAIN list |-> list[i]]
    /\ Leading(list) = w

\* A list of members is a sequence.
LEMMA GivesSeq ==
    ASSUME NEW list, (\E n \in Nat : DOMAIN list = 1 .. n), list = [i \in DOMAIN list |-> list[i]],
           NEW S, \A i \in DOMAIN list : list[i] \in S
    PROVE  list \in Seq(S)
<1>1. PICK n \in Nat : DOMAIN list = 1 .. n
  OBVIOUS
<1>2. list \in [1 .. n -> S]
  BY <1>1
<1>3. QED
  BY <1>2

\* No promise and a single one.
LEMMA GiveShort ==
    ASSUME NEW x
    PROVE  Gives(<<>>, none) /\ Gives(<<x>>, x)
<1>1. Leading(<<>>) = none /\ Leading(<<x>>) = x
  BY LeadingShort
<1>2. PICK a, b : a = <<>> /\ b = <<x>>
  OBVIOUS
<1>3. DOMAIN a = 1 .. 0 /\ a = [i \in DOMAIN a |-> a[i]]
  BY <1>2
<1>4. DOMAIN b = 1 .. 1 /\ b = [i \in DOMAIN b |-> b[i]]
  BY <1>2
<1>5. QED
  BY <1>1, <1>2, <1>3, <1>4 DEF Gives

\* Promises followed by others.
LEMMA GiveJoined ==
    ASSUME NEW a, NEW b, NEW u, NEW v, Gives(a, u), Gives(b, v)
    PROVE  Gives(a \o b, Or(u, v))
<1> DEFINE S == {a[i] : i \in DOMAIN a} \cup {b[i] : i \in DOMAIN b}
<1>1. /\ \E n \in Nat : DOMAIN a = 1 .. n
      /\ \E n \in Nat : DOMAIN b = 1 .. n
      /\ a = [i \in DOMAIN a |-> a[i]] /\ b = [i \in DOMAIN b |-> b[i]]
      /\ Leading(a) = u /\ Leading(b) = v
  BY DEF Gives
<1>2. (\A i \in DOMAIN a : a[i] \in S) /\ (\A i \in DOMAIN b : b[i] \in S)
  OBVIOUS
<1> HIDE DEF S
<1>3. a \in Seq(S) /\ b \in Seq(S)
  BY <1>1, <1>2, GivesSeq
<1>4. PICK ab : ab = a \o b
  OBVIOUS
<1>5. Leading(ab) = Or(u, v)
  BY <1>1, <1>3, <1>4, LeadingJoined
<1>6. ab \in Seq(S)
  BY <1>3, <1>4
<1>7. Len(ab) \in Nat /\ DOMAIN ab = 1 .. Len(ab) /\ ab = [i \in DOMAIN ab |-> ab[i]]
  BY ONLY <1>6
<1>8. QED
  BY <1>4, <1>5, <1>7 DEF Gives

\* The first promise is kept, or the packet goes out directly.
LEMMA GiveFirst ==
    ASSUME NEW list, NEW w, Gives(list, w)
    PROVE  First(list) = Or(w, DIRECT)
<1> DEFINE S == {list[i] : i \in DOMAIN list}
<1>1. (\E n \in Nat : DOMAIN list = 1 .. n) /\ list = [i \in DOMAIN list |-> list[i]] /\ Leading(list) = w
  BY DEF Gives
<1>2. \A i \in DOMAIN list : list[i] \in S
  OBVIOUS
<1> HIDE DEF S
<1>3. list \in Seq(S)
  BY <1>1, <1>2, GivesSeq
<1>4. QED
  BY <1>1, <1>3, FirstIs

\* The mode of a registration and how it is told.
Unset(d) == d.mode = Unsaid
\* A dedicated device that has its outlet.
IsDedicated(d) == d.mode = "dedicated" /\ <<d.id, "default">> \in DOMAIN selected

\* How a registration tells its mode and its router.
LEMMA ModesOf ==
    ASSUME NEW d, d \in Registration
    PROVE  /\ EffectiveMode(d) = "dedicated" <=> d.mode = "dedicated"
           /\ EffectiveMode(d) = "legacy_fallback" <=> Unset(d)
           /\ Bypasses(d) <=> d.gateway = "upstream_router"
<1>1. d.mode \in {"", "inherit_global", "dedicated"}
  BY Zenon DEF Registration
<1>2. "" # "dedicated" /\ "" # "legacy_fallback" /\ "" # "upstream_router"
  BY Zenon
<1>3. "legacy_fallback" # "dedicated" /\ "legacy_fallback" # "inherit_global" /\ "opensurge" # "upstream_router"
  OBVIOUS
<1>4. EffectiveMode(d) = "dedicated" <=> d.mode = "dedicated"
  BY <1>2, <1>3, Zenon DEF EffectiveMode
<1>5. EffectiveMode(d) = "legacy_fallback" <=> Unset(d)
  BY <1>1, <1>2, <1>3, Zenon DEF EffectiveMode, Unset, Unsaid
<1>6. Bypasses(d) <=> d.gateway = "upstream_router"
  BY <1>2, <1>3, Zenon DEF Bypasses, EffectiveGateway
<1>7. QED
  BY <1>4, <1>5, <1>6

\* What the rules of a device promise.
OwnList(policy, res, d, p) ==
    [i \in DOMAIN Profile(policy, d.profile).rules |-> OwnVerdict(policy, res, d, p, Profile(policy, d.profile).rules[i])]

\* What a device is promised before and after the global rules.
Promised(policy, res, d, p, own) ==
    /\ own.before = (IF IsDedicated(d) /\ IsLocal(p) THEN <<DIRECT>> ELSE <<>>)
                    \o OwnList(policy, res, d, p)
                    \o (IF IsDedicated(d) THEN <<DefaultVerdict(policy, d, p)>> ELSE <<>>)
    /\ own.after = IF Unset(d) THEN <<DefaultVerdict(policy, d, p)>> ELSE <<>>

\* It is what OfDevice says.
LEMMA OfDeviceIs ==
    ASSUME NEW d, NEW p
    PROVE  Promised(Documents[engine.doc], engine.res, d, p, OfDevice(d, p))
BY Zenon DEF Promised, OfDevice, IsDedicated, IsLocal, OwnList, OwnVerdict, DefaultVerdict, Unset, Had, Wanted, Handling, Matches, SetsOf, Applies, Unsaid

\* The promises of a device say what the mode it was compiled to makes of them.
LEMMA DeviceGives ==
    ASSUME NEW policy, NEW res, NEW settings, NEW p, Situation(policy, res, settings, p),
           policy = Documents[engine.doc], res = engine.res,
           NEW k, NEW d, NEW compiled, Compiled(policy, res, settings, k, d, compiled), ~Bypasses(d)
    PROVE  /\ Gives(OfDevice(d, p).before,
                    Or(Or(IF compiled[k].mode = "dedicated" /\ IsLocal(p) THEN DIRECT ELSE none,
                          Leading(OwnVerdicts(policy, res, d, p))),
                       IF compiled[k].mode = "dedicated" THEN DefaultVerdict(policy, d, p) ELSE none))
           /\ Gives(OfDevice(d, p).after, IF compiled[k].mode = "legacy_fallback" THEN DefaultVerdict(policy, d, p) ELSE none)
<1>1. d \in Registration /\ d.profile \in DOMAIN policy.profiles
  BY ActiveShape DEF Situation, Compiled
<1>2. /\ EffectiveMode(d) = "dedicated" <=> d.mode = "dedicated"
      /\ EffectiveMode(d) = "legacy_fallback" <=> Unset(d)
  BY <1>1, ModesOf
<1>3. PICK mode : mode = compiled[k].mode
  OBVIOUS
<1>4. mode = IF <<d.id, "default">> \notin DOMAIN selected THEN "inherit_global" ELSE EffectiveMode(d)
  <2>1. compiled[k].mode = IF ~Bypasses(d) /\ <<d.id, "default">> \notin DOMAIN selected THEN "inherit_global" ELSE EffectiveMode(d)
    BY ONLY Situation(policy, res, settings, p), Compiled(policy, res, settings, k, d, compiled), DefaultsDecide
  <2>2. QED
    BY <1>3, <2>1
<1>5. mode = "dedicated" <=> IsDedicated(d)
  BY <1>2, <1>4 DEF IsDedicated
<1>6. mode = "legacy_fallback" <=> Unset(d) /\ <<d.id, "default">> \in DOMAIN selected
  BY <1>2, <1>4
<1>7. PICK default : default = DefaultVerdict(policy, d, p)
  OBVIOUS
<1>8. <<d.id, "default">> \notin DOMAIN selected => default = none
  BY <1>7 DEF DefaultVerdict
<1>9. PICK a, b, c, e : /\ a = (IF IsDedicated(d) /\ IsLocal(p) THEN <<DIRECT>> ELSE <<>>)
                        /\ b = OwnList(policy, res, d, p)
                        /\ c = (IF IsDedicated(d) THEN <<default>> ELSE <<>>)
                        /\ e = IF Unset(d) THEN <<default>> ELSE <<>>
  OBVIOUS
<1>10. OfDevice(d, p).before = a \o b \o c /\ OfDevice(d, p).after = e
  <2>1. Promised(policy, res, d, p, OfDevice(d, p))
    BY OfDeviceIs
  <2>2. c = (IF IsDedicated(d) THEN <<DefaultVerdict(policy, d, p)>> ELSE <<>>)
        /\ e = (IF Unset(d) THEN <<DefaultVerdict(policy, d, p)>> ELSE <<>>)
    BY ONLY <1>7, <1>9
  <2>3. OfDevice(d, p).before = a \o b \o c
    BY ONLY <1>9, <2>1, <2>2 DEF Promised
  <2>4. QED
    BY ONLY <2>1, <2>2, <2>3 DEF Promised
<1>11. Gives(<<>>, none) /\ Gives(<<DIRECT>>, DIRECT) /\ Gives(<<default>>, default)
  BY GiveShort
<1>12. PICK u, v, w : /\ u = (IF mode = "dedicated" /\ IsLocal(p) THEN DIRECT ELSE none)
                      /\ v = Leading(OwnVerdicts(policy, res, d, p))
                      /\ w = (IF mode = "dedicated" THEN default ELSE none)
  OBVIOUS
<1>13. Gives(a, u)
  BY <1>5, <1>9, <1>11, <1>12
<1>14. Gives(b, v)
  <2>1. b = OwnVerdicts(policy, res, d, p)
    BY <1>9 DEF OwnList, OwnVerdicts, RulesOf
  <2>2. PICK rules : rules = Profile(policy, d.profile).rules
    OBVIOUS
  <2>3. rules \in Seq(Override)
    BY <1>1, <2>2, RuleParts DEF Situation
  <2>4. DOMAIN b = DOMAIN rules /\ b = [i \in DOMAIN b |-> b[i]]
    BY <1>9, <2>2 DEF OwnList
  <2>5. Len(rules) \in Nat /\ DOMAIN rules = 1 .. Len(rules)
    BY ONLY <2>3
  <2>6. QED
    BY <1>12, <2>1, <2>4, <2>5 DEF Gives
<1>15. Gives(c, w)
  BY <1>5, <1>9, <1>11, <1>12
<1>16. Gives(a \o b \o c, Or(Or(u, v), w))
  <2>1. PICK ab : ab = a \o b
    OBVIOUS
  <2>2. Gives(ab, Or(u, v))
    BY <1>13, <1>14, <2>1, GiveJoined
  <2>3. Gives(ab \o c, Or(Or(u, v), w))
    BY <1>15, <2>2, GiveJoined
  <2>4. QED
    BY <2>1, <2>3
<1>17. Gives(e, IF mode = "legacy_fallback" THEN default ELSE none)
  <2>1. CASE Unset(d)
    BY <1>6, <1>8, <1>9, <1>11, <2>1
  <2>2. CASE ~Unset(d)
    BY <1>6, <1>9, <1>11, <2>2
  <2>3. QED
    BY <2>1, <2>2
<1>18. QED
  BY <1>3, <1>7, <1>10, <1>12, <1>16, <1>17

\* The sender as the documents know it.
TheSender(p) == CHOOSE x \in Registered(p) : TRUE
\* It bypasses the engine.
BypassHere(p) == Registered(p) # {} /\ TheSender(p).gateway = "upstream_router"
\* What the sender is promised of its own.
OwnHere(p) == IF Registered(p) = {} \/ BypassHere(p) THEN [before |-> <<>>, after |-> <<>>] ELSE OfDevice(TheSender(p), p)
\* The sender may use the Tailnet.
AllowedHere(p) ==
    LET ts == Nets[engine.net].ts
    IN  IF p.from = Mac THEN ts.mac ELSE Registered(p) # {} /\ (ts.all \/ p.from \in ts.devices)
\* What it is promised of the Tailnet.
PromisedTailnet(p) ==
    IF p.to = Peer /\ Nets[engine.net].ts.on THEN (IF AllowedHere(p) THEN Tailnet ELSE REJECT) ELSE none

\* What the Mac is promised.
MacList(p) ==
    IF p.from = Mac
    THEN <<IF IsLocal(p) THEN DIRECT ELSE Try(IF p.over = "tcp" THEN MacTCP ELSE MacUDP, "pass", p)>>
    ELSE <<>>

\* Expected, with its parts named.
LEMMA ExpectedList ==
    ASSUME NEW p, NEW content, content = Sources[engine.source]
    PROVE  Expected(p) = First((IF BypassHere(p) THEN <<REJECT>> ELSE <<>>)
                               \o (IF p.to = Peer /\ Nets[engine.net].ts.on THEN <<IF AllowedHere(p) THEN Tailnet ELSE REJECT>> ELSE <<>>)
                               \o MacList(p) \o OwnHere(p).before \o SourceVerdicts(content, p) \o OwnHere(p).after
                               \o (IF content.match = none THEN <<>> ELSE <<Try(content.match, "pass", p)>>))
BY Zenon DEF Expected, TheSender, BypassHere, OwnHere, AllowedHere, MacList, SourceVerdicts, IsLocal

\* The promises decide part by part.
LEMMA ExpectedIs ==
    ASSUME NEW p, NEW content, content = Sources[engine.source], IsSource(content),
           NEW before, NEW after, Gives(OwnHere(p).before, before), Gives(OwnHere(p).after, after)
    PROVE  Expected(p) = Or(Or(Or(Or(Or(Or(Or(IF BypassHere(p) THEN REJECT ELSE none, PromisedTailnet(p)), LocalVerdict(p)), before),
                                     Leading(SourceVerdicts(content, p))), after), MatchVerdict(content, p)), DIRECT)
<1>1. PICK a, b, c, e, g : /\ a = (IF BypassHere(p) THEN <<REJECT>> ELSE <<>>)
                           /\ b = (IF p.to = Peer /\ Nets[engine.net].ts.on THEN <<IF AllowedHere(p) THEN Tailnet ELSE REJECT>> ELSE <<>>)
                           /\ c = MacList(p)
                           /\ e = SourceVerdicts(content, p)
                           /\ g = (IF content.match = none THEN <<>> ELSE <<Try(content.match, "pass", p)>>)
  OBVIOUS
<1>2. PICK d, f : d = OwnHere(p).before /\ f = OwnHere(p).after
  OBVIOUS
<1>3. PICK ta, tb, tc, te, tg : /\ ta = (IF BypassHere(p) THEN REJECT ELSE none)
                                /\ tb = PromisedTailnet(p)
                                /\ tc = LocalVerdict(p)
                                /\ te = Leading(SourceVerdicts(content, p))
                                /\ tg = MatchVerdict(content, p)
  OBVIOUS
<1>4. \A x : Gives(<<>>, none) /\ Gives(<<x>>, x)
  BY GiveShort
<1>5. Gives(a, ta)
  BY <1>1, <1>3, <1>4
<1>6. Gives(b, tb)
  BY <1>1, <1>3, <1>4 DEF PromisedTailnet
<1>7. Gives(c, tc)
  BY <1>1, <1>3, <1>4 DEF MacList, LocalVerdict
<1>8. Gives(e, te)
  <2>1. PICK rules : rules = content.rules
    OBVIOUS
  <2>2. PICK S : S = [when : SUBSET Condition, to : RuleTarget]
    OBVIOUS
  <2>3. rules \in Seq(S)
    BY <2>1, <2>2 DEF IsSource
  <2>4. Len(rules) \in Nat /\ DOMAIN rules = 1 .. Len(rules)
    BY ONLY <2>3
  <2>5. DOMAIN e = DOMAIN rules /\ e = [i \in DOMAIN e |-> e[i]]
    BY <1>1, <2>1 DEF SourceVerdicts
  <2>6. QED
    BY <1>1, <1>3, <2>4, <2>5 DEF Gives
<1>9. Gives(g, tg)
  BY <1>1, <1>3, <1>4 DEF MatchVerdict
<1>10. Gives(d, before) /\ Gives(f, after)
  BY <1>2
<1>11. PICK ab, abc : ab = a \o b /\ abc = ab \o c
  OBVIOUS
<1>12. PICK abcd, abcde : abcd = abc \o d /\ abcde = abcd \o e
  OBVIOUS
<1>13. PICK abcdef, all : abcdef = abcde \o f /\ all = abcdef \o g
  OBVIOUS
<1>14. PICK xb, xc, xd, xe, xf, xg : /\ xb = Or(ta, tb) /\ xc = Or(xb, tc) /\ xd = Or(xc, before) /\ xe = Or(xd, te)
                                     /\ xf = Or(xe, after) /\ xg = Or(xf, tg)
  OBVIOUS
<1>15. Gives(ab, xb)
  BY <1>5, <1>6, <1>11, <1>14, GiveJoined
<1>16. Gives(abc, xc)
  BY <1>7, <1>11, <1>14, <1>15, GiveJoined
<1>17. Gives(abcd, xd)
  BY <1>10, <1>12, <1>14, <1>16, GiveJoined
<1>18. Gives(abcde, xe)
  BY <1>8, <1>12, <1>14, <1>17, GiveJoined
<1>19. Gives(abcdef, xf)
  BY <1>10, <1>13, <1>14, <1>18, GiveJoined
<1>20. Gives(all, xg)
  BY <1>9, <1>13, <1>14, <1>19, GiveJoined
<1>21. Expected(p) = First(all)
  <2>1. Expected(p) = First(a \o b \o c \o d \o e \o f \o g)
    BY <1>1, <1>2, ExpectedList
  <2>2. QED
    BY ONLY <1>11, <1>12, <1>13, <2>1
<1>22. First(all) = Or(xg, DIRECT)
  BY <1>20, GiveFirst
<1>23. QED
  BY ONLY <1>3, <1>14, <1>21, <1>22

\* Verdicts are joined from the first to the last.
LEMMA OrElse ==
    /\ \A x : Or(x, none) = x /\ Or(none, x) = x
    /\ \A x, y, z : Or(x, Or(y, z)) = Or(Or(x, y), z)
    /\ \A x, y : x # none => Or(x, y) = x
BY DEF Or

\* An engine that was started from what is in force, and a packet that reaches it.
Living(policy, res, settings, content, compiled, active, p) ==
    /\ policy = Documents[engine.doc] /\ res = engine.res /\ settings = Nets[engine.net] /\ content = Sources[engine.source]
    /\ compiled = Compile(policy, res, settings) /\ active = Active(policy, settings)
    /\ engine.rules = Rules(compiled, content, settings)
    /\ IsSource(content)
    /\ Situation(policy, res, settings, p)
    /\ IsPacket(p) /\ Listed(compiled, p) /\ OutletsSound

\* The registration of a sender is the one of the device that was compiled for it.
LEMMA SendersRegistered ==
    ASSUME NEW policy, NEW res, NEW settings, NEW content, NEW compiled, NEW active, NEW p,
           Living(policy, res, settings, content, compiled, active, p)
    PROVE  /\ Registered(p) = {active[k] : k \in {j \in DOMAIN compiled : IsMine(compiled, settings, p, j)}}
           /\ \A k \in DOMAIN compiled : Compiled(policy, res, settings, k, active[k], compiled)
           /\ \A j, k \in DOMAIN compiled : IsMine(compiled, settings, p, j) /\ IsMine(compiled, settings, p, k) => active[j] = active[k]
           /\ p.from = Mac => \A k \in DOMAIN compiled : ~IsMine(compiled, settings, p, k)
<1>1. /\ policy = Documents[engine.doc] /\ settings = Nets[engine.net]
      /\ compiled = Compile(policy, res, settings) /\ active = Active(policy, settings)
      /\ Listed(compiled, p) /\ IsDocument(policy) /\ ValidPolicySet(policy)
  BY DEF Living, Situation
<1>2. /\ DOMAIN compiled = DOMAIN active
      /\ \A k \in DOMAIN active :
            /\ compiled[k] = CompiledDevice(policy, res, active[k])
            /\ compiled[k].id = active[k].id /\ compiled[k].mac = active[k].mac
            /\ active[k] \in ToSet(active)
  BY <1>1, CompiledAs
<1>3. \A k \in DOMAIN compiled : Compiled(policy, res, settings, k, active[k], compiled)
  BY <1>1, <1>2 DEF Compiled
<1>4. \A j \in DOMAIN compiled : IsMine(compiled, settings, p, j) <=> active[j].id = p.from /\ (p.v6 => active[j].mac /\ settings.ipv6)
  BY <1>2 DEF IsMine
<1>5. Registered(p) = {active[i] : i \in {j \in DOMAIN active : active[j].id = p.from /\ (p.v6 => active[j].mac /\ settings.ipv6)}}
  BY <1>1 DEF Registered
<1>6. Registered(p) = {active[k] : k \in {j \in DOMAIN compiled : IsMine(compiled, settings, p, j)}}
  <2>1. {j \in DOMAIN active : active[j].id = p.from /\ (p.v6 => active[j].mac /\ settings.ipv6)}
        = {j \in DOMAIN compiled : IsMine(compiled, settings, p, j)}
    BY <1>2, <1>4
  <2>2. QED
    BY ONLY <1>5, <2>1
<1>7. ASSUME NEW j \in DOMAIN compiled, NEW k \in DOMAIN compiled, IsMine(compiled, settings, p, j), IsMine(compiled, settings, p, k)
      PROVE  active[j] = active[k]
  <2>1. active[j].id = active[k].id /\ active[j] \in ToSet(active) /\ active[k] \in ToSet(active)
    BY <1>2, <1>4, <1>7
  <2>2. QED
    BY <1>1, <2>1, ActiveOnce
<1>8. p.from = Mac => \A k \in DOMAIN compiled : ~IsMine(compiled, settings, p, k)
  BY <1>1, RoutingAssumption DEF IsMine, Listed
<1>9. QED
  BY <1>3, <1>6, <1>7, <1>8

\* What the sections decide, one of an unknown sender and one of a known one.
LEMMA SectionsSay ==
    ASSUME NEW policy, NEW res, NEW settings, NEW content, NEW compiled, NEW active, NEW p,
           Living(policy, res, settings, content, compiled, active, p)
    PROVE  /\ (\A k \in DOMAIN compiled : ~IsMine(compiled, settings, p, k)) =>
                 Route(engine.rules, selected, p)
                 = RouteBy(p, none, TailnetVerdict(compiled, settings, p), LocalVerdict(p), none, none, none,
                           Leading(SourceVerdicts(content, p)), none, MatchVerdict(content, p))
           /\ \A k \in DOMAIN compiled : IsMine(compiled, settings, p, k) =>
                 Route(engine.rules, selected, p)
                 = RouteBy(p, IF p.v6 /\ compiled[k].bypass THEN REJECT ELSE none,
                           TailnetVerdict(compiled, settings, p), LocalVerdict(p),
                           IF compiled[k].mode = "dedicated" /\ IsLocal(p) THEN DIRECT ELSE none,
                           Leading(OwnVerdicts(policy, res, active[k], p)),
                           IF compiled[k].mode = "dedicated" THEN DefaultVerdict(policy, active[k], p) ELSE none,
                           Leading(SourceVerdicts(content, p)),
                           IF compiled[k].mode = "legacy_fallback" THEN DefaultVerdict(policy, active[k], p) ELSE none,
                           MatchVerdict(content, p))
<1>1. /\ compiled = Compile(policy, res, settings) /\ active = Active(policy, settings)
      /\ engine.rules = Rules(compiled, content, settings) /\ IsSource(content)
      /\ Situation(policy, res, settings, p) /\ IsPacket(p) /\ Listed(compiled, p) /\ OutletsSound
  BY DEF Living
<1>2. PICK ta, td, te, tf, th :
         /\ ta = [k \in DOMAIN compiled |-> IF p.v6 /\ compiled[k].bypass THEN REJECT ELSE none]
         /\ td = [k \in DOMAIN compiled |-> IF compiled[k].mode = "dedicated" /\ IsLocal(p) THEN DIRECT ELSE none]
         /\ te = [k \in DOMAIN compiled |-> Leading(OwnVerdicts(policy, res, active[k], p))]
         /\ tf = DefaultIn(policy, active, compiled, "dedicated", p)
         /\ th = DefaultIn(policy, active, compiled, "legacy_fallback", p)
  OBVIOUS
<1>3. PICK a, d, e, f, h :
         /\ a = BypassRejects(compiled, settings) /\ d = DedicatedLocal(compiled, settings)
         /\ e = WithUsers(compiled, Overrides(compiled), settings)
         /\ f = WithUsers(compiled, Dedicated(compiled), settings)
         /\ h = WithUsers(compiled, Fallbacks(compiled), settings)
  OBVIOUS
<1>4. SectionDecides(compiled, settings, p, a, ta)
  <2>1. SectionDecides(compiled, settings, p, BypassRejects(compiled, settings),
                          [k \in DOMAIN compiled |-> IF p.v6 /\ compiled[k].bypass THEN REJECT ELSE none])
    BY ONLY <1>1, BypassSection
  <2>2. QED
    BY ONLY <1>2, <1>3, <2>1
<1>5. SectionDecides(compiled, settings, p, d, td)
  <2>1. SectionDecides(compiled, settings, p, DedicatedLocal(compiled, settings),
                          [k \in DOMAIN compiled |-> IF compiled[k].mode = "dedicated" /\ IsLocal(p) THEN DIRECT ELSE none])
    BY ONLY <1>1, DedicatedSection
  <2>2. QED
    BY ONLY <1>2, <1>3, <2>1
<1>6. SectionDecides(compiled, settings, p, e, te)
  <2>1. SectionDecides(compiled, settings, p, WithUsers(compiled, Overrides(compiled), settings),
                          [k \in DOMAIN compiled |-> Leading(OwnVerdicts(policy, res, active[k], p))])
    BY ONLY <1>1, OverridesSection
  <2>2. QED
    BY ONLY <1>2, <1>3, <2>1
<1>7. SectionDecides(compiled, settings, p, f, tf) /\ SectionDecides(compiled, settings, p, h, th)
  BY ONLY <1>1, <1>2, <1>3, OutletSections
<1>8. PICK tb, tc, tg, ti : /\ tb = TailnetVerdict(compiled, settings, p) /\ tc = LocalVerdict(p)
                            /\ tg = Leading(SourceVerdicts(content, p)) /\ ti = MatchVerdict(content, p)
  OBVIOUS
<1>9. /\ Says(Facts(p), p.over, TailscaleRules(compiled, settings), tb) /\ Says(Facts(p), p.over, LocalRouting, tc)
      /\ Says(Facts(p), p.over, content.rules, tg) /\ Says(Facts(p), p.over, MatchRules(content), ti)
  <2>1. Says(Facts(p), p.over, TailscaleRules(compiled, settings), TailnetVerdict(compiled, settings, p))
    BY ONLY <1>1, TailnetSays
  <2>2. Says(Facts(p), p.over, LocalRouting, LocalVerdict(p))
    BY ONLY <1>1, LocalSays
  <2>3. Says(Facts(p), p.over, content.rules, Leading(SourceVerdicts(content, p)))
        /\ Says(Facts(p), p.over, MatchRules(content), MatchVerdict(content, p))
    BY ONLY <1>1, SourceSays
  <2>4. QED
    BY ONLY <1>8, <2>1, <2>2, <2>3
<1>10. ASSUME NEW va, NEW vd, NEW ve, NEW vf, NEW vh,
              Says(Facts(p), p.over, a, va), Says(Facts(p), p.over, d, vd), Says(Facts(p), p.over, e, ve),
              Says(Facts(p), p.over, f, vf), Says(Facts(p), p.over, h, vh)
       PROVE  Route(engine.rules, selected, p) = RouteBy(p, va, tb, tc, vd, ve, vf, tg, vh, ti)
  <2>1. /\ Says(Facts(p), p.over, BypassRejects(compiled, settings), va)
        /\ Says(Facts(p), p.over, DedicatedLocal(compiled, settings), vd)
        /\ Says(Facts(p), p.over, WithUsers(compiled, Overrides(compiled), settings), ve)
        /\ Says(Facts(p), p.over, WithUsers(compiled, Dedicated(compiled), settings), vf)
        /\ Says(Facts(p), p.over, WithUsers(compiled, Fallbacks(compiled), settings), vh)
    BY ONLY <1>3, <1>10
  <2>2. Route(Rules(compiled, content, settings), selected, p) = RouteBy(p, va, tb, tc, vd, ve, vf, tg, vh, ti)
    BY ONLY <1>1, <1>9, <2>1, RulesRoute
  <2>3. QED
    BY ONLY <1>1, <2>2
<1>11. ASSUME \A k \in DOMAIN compiled : ~IsMine(compiled, settings, p, k)
       PROVE  Route(engine.rules, selected, p) = RouteBy(p, none, tb, tc, none, none, none, tg, none, ti)
  <2>1. /\ Says(Facts(p), p.over, a, none) /\ Says(Facts(p), p.over, d, none) /\ Says(Facts(p), p.over, e, none)
        /\ Says(Facts(p), p.over, f, none) /\ Says(Facts(p), p.over, h, none)
    BY ONLY <1>4, <1>5, <1>6, <1>7, <1>11 DEF SectionDecides, Says
  <2>2. QED
    BY ONLY <1>10, <2>1
<1>12. ASSUME NEW k \in DOMAIN compiled, IsMine(compiled, settings, p, k)
       PROVE  Route(engine.rules, selected, p) = RouteBy(p, ta[k], tb, tc, td[k], te[k], tf[k], tg, th[k], ti)
  <2>1. /\ Says(Facts(p), p.over, a, ta[k]) /\ Says(Facts(p), p.over, d, td[k]) /\ Says(Facts(p), p.over, e, te[k])
        /\ Says(Facts(p), p.over, f, tf[k]) /\ Says(Facts(p), p.over, h, th[k])
    BY ONLY <1>4, <1>5, <1>6, <1>7, <1>12 DEF SectionDecides, Says
  <2>2. QED
    BY ONLY <1>10, <2>1
<1>13. ASSUME NEW k \in DOMAIN compiled
       PROVE  /\ ta[k] = (IF p.v6 /\ compiled[k].bypass THEN REJECT ELSE none)
              /\ td[k] = (IF compiled[k].mode = "dedicated" /\ IsLocal(p) THEN DIRECT ELSE none)
              /\ te[k] = Leading(OwnVerdicts(policy, res, active[k], p))
              /\ tf[k] = (IF compiled[k].mode = "dedicated" THEN DefaultVerdict(policy, active[k], p) ELSE none)
              /\ th[k] = (IF compiled[k].mode = "legacy_fallback" THEN DefaultVerdict(policy, active[k], p) ELSE none)
  BY ONLY <1>2, <1>13 DEF DefaultIn
<1>14. QED
  BY ONLY <1>8, <1>11, <1>12, <1>13

\* A packet of the Mac, or of a machine that is not registered, takes the promised
\* outlet.
LEMMA StrangerRouted ==
    ASSUME NEW policy, NEW res, NEW settings, NEW content, NEW compiled, NEW active, NEW p,
           Living(policy, res, settings, content, compiled, active, p),
           \A k \in DOMAIN compiled : ~IsMine(compiled, settings, p, k)
    PROVE  Route(engine.rules, selected, p) = Expected(p)
<1>1. PICK tb, tc, tg, ti : /\ tb = TailnetVerdict(compiled, settings, p) /\ tc = LocalVerdict(p)
                            /\ tg = Leading(SourceVerdicts(content, p)) /\ ti = MatchVerdict(content, p)
  OBVIOUS
<1>2. Route(engine.rules, selected, p) = RouteBy(p, none, tb, tc, none, none, none, tg, none, ti)
  BY <1>1, SectionsSay
<1>3. Registered(p) = {}
  <2>1. Registered(p) = {active[k] : k \in {j \in DOMAIN compiled : IsMine(compiled, settings, p, j)}}
    BY SendersRegistered
  <2>2. QED
    BY <2>1
<1>4. OwnHere(p).before = <<>> /\ OwnHere(p).after = <<>> /\ ~BypassHere(p)
  BY <1>3 DEF OwnHere, BypassHere
<1>5. Gives(OwnHere(p).before, none) /\ Gives(OwnHere(p).after, none)
  BY <1>4, GiveShort
<1>6. settings = Nets[engine.net] /\ content = Sources[engine.source] /\ IsSource(content)
  BY DEF Living
<1>7. PromisedTailnet(p) = tb
  <2>1. AllowedHere(p) <=> Allowed(compiled, settings, p)
    BY <1>3, <1>6 DEF AllowedHere, Allowed
  <2>2. QED
    BY <1>1, <1>6, <2>1 DEF PromisedTailnet, TailnetVerdict
<1>8. PICK none0 : none0 = IF BypassHere(p) THEN REJECT ELSE none
  OBVIOUS
<1>9. Expected(p) = Or(Or(Or(Or(Or(Or(Or(none0, tb), tc), none), tg), none), ti), DIRECT)
  <2>1. Expected(p) = Or(Or(Or(Or(Or(Or(Or(IF BypassHere(p) THEN REJECT ELSE none, PromisedTailnet(p)), LocalVerdict(p)), none),
                                     Leading(SourceVerdicts(content, p))), none), MatchVerdict(content, p)), DIRECT)
    BY ONLY <1>5, <1>6, ExpectedIs
  <2>2. QED
    BY ONLY <1>1, <1>7, <1>8, <2>1
<1>10. none0 = none
  BY <1>4, <1>8
<1>11. QED
  BY ONLY <1>2, <1>9, <1>10, OrElse DEF RouteBy

\* A packet of a registered device does.
LEMMA DeviceRouted ==
    ASSUME NEW policy, NEW res, NEW settings, NEW content, NEW compiled, NEW active, NEW p,
           Living(policy, res, settings, content, compiled, active, p),
           NEW k \in DOMAIN compiled, IsMine(compiled, settings, p, k)
    PROVE  Route(engine.rules, selected, p) = Expected(p)
<1> DEFINE d == active[k]
<1>1. /\ policy = Documents[engine.doc] /\ res = engine.res /\ settings = Nets[engine.net] /\ content = Sources[engine.source]
      /\ IsSource(content) /\ Situation(policy, res, settings, p) /\ IsPacket(p)
  BY DEF Living
<1>2. Compiled(policy, res, settings, k, d, compiled)
  BY SendersRegistered
<1>3. /\ compiled[k].id = d.id /\ compiled[k].bypass = Bypasses(d) /\ d \in ToSet(Active(policy, settings))
  <2>1. compiled[k].id = d.id /\ compiled[k].bypass = Bypasses(d)
    BY ONLY <1>1, <1>2, CompiledParts
  <2>2. QED
    BY <1>2, <2>1 DEF Compiled
<1>4. Registered(p) = {d}
  <2>1. Registered(p) = {active[j] : j \in {i \in DOMAIN compiled : IsMine(compiled, settings, p, i)}}
    BY SendersRegistered
  <2>2. \A j \in DOMAIN compiled : IsMine(compiled, settings, p, j) => active[j] = d
    BY SendersRegistered
  <2>3. QED
    BY <2>1, <2>2
<1>5. d \in Registration /\ p.from # Mac /\ d.id = p.from
  <2>1. d \in Registration
    BY <1>1, <1>3, ActiveShape DEF Situation
  <2>2. p.from # Mac
    BY SendersRegistered
  <2>3. QED
    BY <1>3, <2>1, <2>2 DEF IsMine
<1>6. Bypasses(d) <=> d.gateway = "upstream_router"
  BY <1>5, ModesOf
<1> HIDE DEF d
<1>7. TheSender(p) = d
  BY <1>4 DEF TheSender
<1>8. BypassHere(p) <=> Bypasses(d)
  BY <1>4, <1>6, <1>7 DEF BypassHere
<1>9. Bypasses(d) => p.v6
  <2>1. ASSUME ~p.v6 PROVE ~Bypasses(d)
    <3>1. EffectiveGateway(d) # "upstream_router"
      BY <1>1, <1>3, <1>5, <2>1, SourceTold DEF Situation
    <3>2. QED
      BY <3>1 DEF Bypasses
  <2>2. p.v6 \in BOOLEAN
    BY <1>1 DEF IsPacket
  <2>3. QED
    BY <2>1, <2>2
<1>10. PICK tb, tc, tg, ti : /\ tb = TailnetVerdict(compiled, settings, p) /\ tc = LocalVerdict(p)
                             /\ tg = Leading(SourceVerdicts(content, p)) /\ ti = MatchVerdict(content, p)
  OBVIOUS
<1>11. PICK td, te, tf, th : /\ td = (IF compiled[k].mode = "dedicated" /\ IsLocal(p) THEN DIRECT ELSE none)
                             /\ te = Leading(OwnVerdicts(policy, res, d, p))
                             /\ tf = (IF compiled[k].mode = "dedicated" THEN DefaultVerdict(policy, d, p) ELSE none)
                             /\ th = (IF compiled[k].mode = "legacy_fallback" THEN DefaultVerdict(policy, d, p) ELSE none)
  OBVIOUS
<1>12. PICK ta : ta = IF p.v6 /\ compiled[k].bypass THEN REJECT ELSE none
  OBVIOUS
<1>13. Route(engine.rules, selected, p) = RouteBy(p, ta, tb, tc, td, te, tf, tg, th, ti)
  BY <1>10, <1>11, <1>12, SectionsSay DEF d
<1>14. ta = IF BypassHere(p) THEN REJECT ELSE none
  BY <1>3, <1>8, <1>9, <1>12
<1>15. PromisedTailnet(p) = tb
  <2>1. AllowedHere(p) <=> Allowed(compiled, settings, p)
    <3>1. AllowedHere(p) <=> settings.ts.all \/ p.from \in settings.ts.devices
      BY <1>1, <1>4, <1>5 DEF AllowedHere
    <3>2. \A j \in DOMAIN compiled : IsMine(compiled, settings, p, j) => compiled[j].id = p.from
      BY DEF IsMine
    <3>3. QED
      BY <1>5, <3>1, <3>2 DEF Allowed
  <2>2. QED
    BY <1>1, <1>10, <2>1 DEF PromisedTailnet, TailnetVerdict
<1>16. tc = none
  BY <1>5, <1>10 DEF LocalVerdict
<1>17. CASE Bypasses(d)
  <2>1. OwnHere(p).before = <<>> /\ OwnHere(p).after = <<>>
    BY <1>8, <1>17 DEF OwnHere
  <2>2. Gives(OwnHere(p).before, none) /\ Gives(OwnHere(p).after, none)
    BY <2>1, GiveShort
  <2>3. Expected(p) = Or(Or(Or(Or(Or(Or(Or(ta, tb), tc), none), tg), none), ti), DIRECT)
    <3>1. Expected(p) = Or(Or(Or(Or(Or(Or(Or(IF BypassHere(p) THEN REJECT ELSE none, PromisedTailnet(p)), LocalVerdict(p)), none),
                                     Leading(SourceVerdicts(content, p))), none), MatchVerdict(content, p)), DIRECT)
      BY ONLY <1>1, <2>2, ExpectedIs
    <3>2. QED
      BY ONLY <1>10, <1>14, <1>15, <3>1
  <2>4. ta = REJECT /\ ta # none
    BY <1>8, <1>14, <1>17, Names
  <2>5. QED
    BY ONLY <1>13, <2>3, <2>4, OrElse DEF RouteBy
<1>18. CASE ~Bypasses(d)
  <2>1. OwnHere(p) = OfDevice(d, p)
    BY <1>4, <1>7, <1>8, <1>18 DEF OwnHere
  <2>2. /\ Gives(OfDevice(d, p).before,
                    Or(Or(IF compiled[k].mode = "dedicated" /\ IsLocal(p) THEN DIRECT ELSE none,
                          Leading(OwnVerdicts(policy, res, d, p))),
                       IF compiled[k].mode = "dedicated" THEN DefaultVerdict(policy, d, p) ELSE none))
        /\ Gives(OfDevice(d, p).after, IF compiled[k].mode = "legacy_fallback" THEN DefaultVerdict(policy, d, p) ELSE none)
    BY ONLY <1>1, <1>2, <1>18, DeviceGives
  <2>3. PICK own : own = Or(Or(td, te), tf)
    OBVIOUS
  <2>4. Gives(OwnHere(p).before, own) /\ Gives(OwnHere(p).after, th)
    BY ONLY <1>11, <2>1, <2>2, <2>3
  <2>5. Expected(p) = Or(Or(Or(Or(Or(Or(Or(ta, tb), tc), own), tg), th), ti), DIRECT)
    <3>1. Expected(p) = Or(Or(Or(Or(Or(Or(Or(IF BypassHere(p) THEN REJECT ELSE none, PromisedTailnet(p)), LocalVerdict(p)), own),
                                     Leading(SourceVerdicts(content, p))), th), MatchVerdict(content, p)), DIRECT)
      BY ONLY <1>1, <2>4, ExpectedIs
    <3>2. QED
      BY ONLY <1>10, <1>14, <1>15, <3>1
  <2>6. PICK first : first = Or(Or(ta, tb), tc)
    OBVIOUS
  <2>7. Or(first, own) = Or(Or(Or(first, td), te), tf)
    BY ONLY <2>3, OrElse
  <2>8. QED
    BY ONLY <1>13, <2>5, <2>6, <2>7 DEF RouteBy
<1>19. QED
  BY <1>17, <1>18

\* Every packet does.
LEMMA PacketRouted ==
    ASSUME NEW policy, NEW res, NEW settings, NEW content, NEW compiled, NEW active, NEW p,
           Living(policy, res, settings, content, compiled, active, p)
    PROVE  Route(engine.rules, selected, p) = Expected(p)
BY StrangerRouted, DeviceRouted

-----------------------------------------------------------------------------
(* What a live engine was made of.                                         *)

\* Every group has a member, and none has the name of an outlet.
GroupsSound(groups) ==
    /\ \A g \in DOMAIN groups : groups[g] \in Seq(Reach) /\ groups[g] # <<>>
    /\ \A t \in {DIRECT, REJECT, Tailnet} : t \notin DOMAIN groups

\* A group with more members.
LEMMA JoinedGroup ==
    ASSUME NEW S, NEW a \in Seq(S), NEW b \in Seq(S)
    PROVE  a \o b \in Seq(S) /\ (a # <<>> \/ b # <<>> => a \o b # <<>>)
<1>1. Len(a \o b) = Len(a) + Len(b) /\ Len(a) \in Nat /\ Len(b) \in Nat /\ a \o b \in Seq(S)
  OBVIOUS
<1>2. a # <<>> => Len(a) # 0
  OBVIOUS
<1>3. b # <<>> => Len(b) # 0
  OBVIOUS
<1>4. a \o b # <<>>  <=> Len(a \o b) # 0
  BY <1>1
<1>5. QED
  BY <1>1, <1>2, <1>3, <1>4

\* A list of some is a list of more.
LEMMA WiderSeq ==
    ASSUME NEW S, NEW T, S \subseteq T, NEW list \in Seq(S)
    PROVE  list \in Seq(T)
<1>1. Len(list) \in Nat /\ DOMAIN list = 1 .. Len(list) /\ list = [i \in DOMAIN list |-> list[i]] /\ \A i \in DOMAIN list : list[i] \in S
  OBVIOUS
<1>2. list \in [1 .. Len(list) -> T]
  BY <1>1
<1>3. QED
  BY <1>1, <1>2

\* The selectors of devices have candidates.
LEMMA DeviceGroupShape ==
    ASSUME NEW policy, IsDocument(policy), ValidPolicySet(policy), NEW settings, NEW res,
           NEW groups, groups = DeviceGroups(Compile(policy, res, settings)), NEW g \in DOMAIN groups
    PROVE  groups[g] \in Seq(Reach) /\ groups[g] # <<>> /\ g \in Device \X Slot
<1>1. PICK d, s : Owns(policy, settings, g, d, s)
  BY SelectorsOf
<1>2. groups[g] = ResolveSelector(res, g, SlotCandidates(policy, d)[s]) /\ groups[g] # <<>>
  <2>1. /\ g \in DOMAIN groups <=> ResolveSelector(res, g, SlotCandidates(policy, d)[s]) # <<>>
        /\ g \in DOMAIN groups => groups[g] = ResolveSelector(res, g, SlotCandidates(policy, d)[s])
    BY <1>1, SelectorsOf
  <2>2. QED
    BY <2>1
<1>3. d \in ToSet(Active(policy, settings)) /\ s \in DOMAIN SlotCandidates(policy, d) /\ g = <<d.id, s>>
  BY <1>1 DEF Owns
<1>4. d \in Registration /\ d.profile \in DOMAIN policy.profiles
  BY <1>3, ActiveShape
<1>5. s \in Slot /\ SlotCandidates(policy, d)[s] \in Seq(Named)
  BY <1>3, <1>4, SlotShape
<1>6. PICK candidates : candidates = SlotCandidates(policy, d)[s]
  OBVIOUS
<1>7. groups[g] \in Seq(Named)
  <2>1. candidates \in Seq(Named)
    BY <1>5, <1>6
  <2>2. PICK offered : offered = ResolveSelector(res, g, candidates)
    OBVIOUS
  <2>3. offered = candidates \/ offered = <<>> \/ offered \in Seq(Named)
    BY <2>1, <2>2, ResolvedSelector
  <2>4. QED
    BY <1>2, <1>6, <2>1, <2>2, <2>3
<1>8. groups[g] \in Seq(Reach)
  <2>1. Named \subseteq Reach
    BY DEF Reach, RuleTarget
  <2>2. QED
    BY <1>7, <2>1, WiderSeq
<1>9. d.id \in Device
  BY <1>4 DEF Registration
<1>10. QED
  BY <1>2, <1>3, <1>5, <1>8, <1>9

\* The groups of a source have members, with the exit or without it.
LEMMA SourceGroupShape ==
    ASSUME NEW content, IsSource(content), NEW settings, NEW extra \in {<<>>, <<ExitGroup>>}
    PROVE  /\ DOMAIN content.groups \subseteq Node
           /\ \A g \in DOMAIN content.groups : content.groups[g] \o extra \in Seq(Reach) /\ content.groups[g] \o extra # <<>>
           /\ content.targets \o extra \in Seq(Reach)
<1>1. DOMAIN content.groups \subseteq Node
  BY DEF IsSource
<1>2. RuleTarget \subseteq Reach /\ Node \subseteq Reach /\ ExitGroup \in Reach
  BY DEF Reach, RuleTarget, Named
<1>3. extra \in Seq(Reach)
  <2>1. <<>> \in Seq(Reach) /\ \A x \in Reach : <<x>> \in Seq(Reach)
    OBVIOUS
  <2>2. QED
    BY <1>2, <2>1
<1>4. content.targets \in Seq(Node)
  BY DEF IsSource
<1>5. content.targets \in Seq(Reach)
  BY <1>2, <1>4, WiderSeq
<1>6. ASSUME NEW g \in DOMAIN content.groups
      PROVE  content.groups[g] \o extra \in Seq(Reach) /\ content.groups[g] \o extra # <<>>
  <2>1. content.groups[g] \in Seq(RuleTarget) /\ content.groups[g] # <<>>
    BY DEF IsSource
  <2>2. content.groups[g] \in Seq(Reach)
    BY <1>2, <2>1, WiderSeq
  <2>3. QED
    BY <1>3, <2>1, <2>2, JoinedGroup
<1>7. content.targets \o extra \in Seq(Reach)
  BY <1>3, <1>5, JoinedGroup
<1>8. QED
  BY <1>1, <1>6, <1>7

\* Groups put together have what each of them has.
LEMMA OverShape ==
    ASSUME NEW f, NEW h, NEW A, NEW B, NEW S,
           DOMAIN f \subseteq A, DOMAIN h \subseteq B, \A x \in DOMAIN f : f[x] \in S, \A x \in DOMAIN h : h[x] \in S
    PROVE  DOMAIN Over(f, h) \subseteq A \cup B /\ \A x \in DOMAIN Over(f, h) : Over(f, h)[x] \in S
BY DEF Over

\* Every group of an engine has a member, and none has the name of an outlet.
LEMMA GroupShape ==
    ASSUME NEW d \in DOMAIN Documents, ValidPolicySet(Documents[d]), NEW s \in DOMAIN Sources, NEW settings, NEW res
    PROVE  GroupsSound(Groups(Compile(Documents[d], res, settings), Sources[s], settings))
<1> DEFINE src == Sources[s]
           extra == IF ExitOffered(settings) THEN <<ExitGroup>> ELSE <<>>
           more == IF ExitOffered(settings) /\ settings.ts.mac THEN <<ExitGroup>> ELSE <<>>
           mac == src.targets \o more
           global == IF mac = <<>> THEN <<>> ELSE <<MacGlobal>>
           own == [x \in DOMAIN src.groups |-> src.groups[x] \o extra]
           exit == [x \in IF ExitOffered(settings) THEN {ExitGroup} ELSE {} |-> <<Tailnet>>]
           local == [x \in (IF mac = <<>> THEN {} ELSE {MacGlobal}) \cup {MacTCP, MacUDP} |->
                        IF x = MacGlobal THEN mac
                        ELSE IF x = MacTCP THEN <<PASS, DIRECT>> \o global ELSE <<PASS, DIRECT, REJECT>> \o global]
           devices == DeviceGroups(Compile(Documents[d], res, settings))
           groups == Groups(Compile(Documents[d], res, settings), src, settings)
<1>1. groups = Over(own, Over(exit, Over(local, devices)))
  BY DEF Groups
<1>2. IsSource(src) /\ IsDocument(Documents[d])
  BY DeviceRoutingAssumption
<1>3. extra \in {<<>>, <<ExitGroup>>} /\ more \in {<<>>, <<ExitGroup>>}
  OBVIOUS
<1> HIDE DEF extra, more, src
<1>4. /\ DOMAIN src.groups \subseteq Node
      /\ \A g \in DOMAIN src.groups : src.groups[g] \o extra \in Seq(Reach) /\ src.groups[g] \o extra # <<>>
  BY <1>2, <1>3, SourceGroupShape
<1>5. mac \in Seq(Reach)
  BY <1>2, <1>3, SourceGroupShape
<1>6. DOMAIN own \subseteq Node /\ \A g \in DOMAIN own : own[g] \in Seq(Reach) /\ own[g] # <<>>
  BY <1>4
<1>7. DOMAIN exit \subseteq {ExitGroup} /\ \A g \in DOMAIN exit : exit[g] \in Seq(Reach) /\ exit[g] # <<>>
  <2>1. Tailnet \in Reach
    BY DEF Reach, RuleTarget, Named
  <2>2. \A x \in Reach : <<x>> \in Seq(Reach) /\ <<x>> # <<>>
    OBVIOUS
  <2>3. <<Tailnet>> \in Seq(Reach) /\ <<Tailnet>> # <<>>
    BY <2>1, <2>2
  <2>4. QED
    BY <2>3
<1> HIDE DEF mac, own, exit
<1>8. DOMAIN local \subseteq {MacGlobal, MacTCP, MacUDP} /\ \A g \in DOMAIN local : local[g] \in Seq(Reach) /\ local[g] # <<>>
  <2>1. PASS \in Reach /\ DIRECT \in Reach /\ REJECT \in Reach /\ MacGlobal \in Reach
    BY DEF Reach, RuleTarget, Named, Builtin
  <2>2. global \in Seq(Reach)
    BY <2>1
  <2> HIDE DEF global
  <2>3. PICK two, three : two = <<PASS, DIRECT>> /\ three = <<PASS, DIRECT, REJECT>>
    OBVIOUS
  <2>4. two \in Seq(Reach) /\ three \in Seq(Reach) /\ two # <<>> /\ three # <<>>
    BY <2>1, <2>3
  <2>5. PICK twice, thrice : twice = two \o global /\ thrice = three \o global
    OBVIOUS
  <2>6. twice \in Seq(Reach) /\ twice # <<>> /\ thrice \in Seq(Reach) /\ thrice # <<>>
    BY <2>2, <2>4, <2>5, JoinedGroup
  <2>7. local = [x \in (IF mac = <<>> THEN {} ELSE {MacGlobal}) \cup {MacTCP, MacUDP} |->
                    IF x = MacGlobal THEN mac ELSE IF x = MacTCP THEN twice ELSE thrice]
    BY <2>3, <2>5
  <2>8. \A g \in DOMAIN local : g = MacGlobal => mac # <<>>
    BY <2>7, Names
  <2>9. QED
    BY <1>5, <2>6, <2>7, <2>8
<1> HIDE DEF local
<1>9. \A g \in DOMAIN devices : devices[g] \in Seq(Reach) /\ devices[g] # <<>> /\ g \in Device \X Slot
  BY <1>2, DeviceGroupShape
<1> HIDE DEF devices, groups
<1>10. PICK S : S = {list \in Seq(Reach) : list # <<>>}
  OBVIOUS
<1>10a. /\ \A g \in DOMAIN own : own[g] \in S
        /\ \A g \in DOMAIN exit : exit[g] \in S
        /\ \A g \in DOMAIN local : local[g] \in S
        /\ \A g \in DOMAIN devices : devices[g] \in S
  BY <1>6, <1>7, <1>8, <1>9, <1>10
<1>10b. DOMAIN devices \subseteq Device \X Slot
  BY <1>9
<1>11. DOMAIN groups \subseteq Node \cup ({ExitGroup} \cup ({MacGlobal, MacTCP, MacUDP} \cup (Device \X Slot)))
       /\ \A g \in DOMAIN groups : groups[g] \in S
  <2>1. PICK rest : rest = Over(local, devices)
    OBVIOUS
  <2>2. DOMAIN rest \subseteq {MacGlobal, MacTCP, MacUDP} \cup (Device \X Slot) /\ \A x \in DOMAIN rest : rest[x] \in S
    BY ONLY <1>8, <1>10a, <1>10b, <2>1, OverShape
  <2>3. PICK more2 : more2 = Over(exit, rest)
    OBVIOUS
  <2>4. DOMAIN more2 \subseteq {ExitGroup} \cup ({MacGlobal, MacTCP, MacUDP} \cup (Device \X Slot)) /\ \A x \in DOMAIN more2 : more2[x] \in S
    BY ONLY <1>7, <1>10a, <2>2, <2>3, OverShape
  <2>5. groups = Over(own, more2)
    BY <1>1, <2>1, <2>3
  <2>6. QED
    BY ONLY <1>6, <1>10a, <2>4, <2>5, OverShape
<1>12. \A t \in {DIRECT, REJECT, Tailnet} : t \notin DOMAIN groups
  BY <1>11, Names
<1>13. QED
  BY <1>10, <1>11, <1>12 DEF GroupsSound, groups, src

-----------------------------------------------------------------------------
(* Every packet takes its outlet.                                          *)

\* What is saved is valid for the settings of today, and a live engine has the
\* rules of what was valid when it was started.
RulesSound ==
    /\ Valid(Documents[doc], Nets[net])
    /\ engine # NoEngine =>
         /\ engine.net \in DOMAIN Nets /\ Valid(Documents[engine.doc], Nets[engine.net])
         /\ engine.rules = Rules(Compile(Documents[engine.doc], engine.res, Nets[engine.net]),
                                 Sources[engine.source], Nets[engine.net])

\* Never more was spent than there is.
SpentSound == DOMAIN left = DOMAIN Quota /\ \A k \in DOMAIN left : left[k] \in 0 .. Quota[k]
\* Only what was chosen can be guessed wrongly.
GuessSound == guessed \subseteq DOMAIN cache
\* The stages of a change of the mode.
StageSound == switch.at \in {"idle", "apply", "undo"}

\* What is known of a live engine, the choices, and what is saved.
RoutingInv == ChoiceInv /\ ModeInv /\ RulesSound /\ SpentSound /\ GuessSound /\ StageSound

\* Each group of a live engine has chosen one of its members.
LEMMA LiveOutlets ==
    ASSUME RoutingInv, engine # NoEngine
    PROVE  /\ OutletsSound
           /\ DOMAIN selected = DOMAIN engine.groups
           /\ \A g \in DOMAIN selected : selected[g] \in ToSet(engine.groups[g])
<1>1. /\ engine.doc \in DOMAIN Documents /\ ValidPolicySet(Documents[engine.doc]) /\ engine.source \in DOMAIN Sources
      /\ engine.groups = Groups(Compile(Documents[engine.doc], engine.res, Nets[engine.net]), Sources[engine.source], Nets[engine.net])
      /\ DOMAIN selected = DOMAIN engine.groups
      /\ \A g \in DOMAIN selected : selected[g] = Restore(engine.groups[g], Saved(g))
  BY DEF RoutingInv, ChoiceInv, EngineSound, LiveSound
<1>2. GroupsSound(engine.groups)
  BY <1>1, GroupShape
<1>3. ASSUME NEW list \in Seq(Reach), list # <<>>, NEW saved
      PROVE  Restore(list, saved) \in ToSet(list) /\ ToSet(list) \subseteq Reach
  <2>1. 1 \in DOMAIN list /\ \A i \in DOMAIN list : list[i] \in Reach
    BY <1>3
  <2>2. QED
    BY <2>1 DEF Restore, ToSet
<1>4. \A g \in DOMAIN selected : selected[g] \in ToSet(engine.groups[g]) /\ selected[g] \in Reach
  BY <1>1, <1>2, <1>3 DEF GroupsSound
<1>5. QED
  BY <1>1, <1>2, <1>4 DEF GroupsSound, OutletsSound

\* It has the types with it.
LEMMA RoutingTyped == RoutingInv => TypeOK
<1> SUFFICES ASSUME RoutingInv PROVE TypeOK
  OBVIOUS
<1>1. doc \in DOMAIN Documents /\ source \in DOMAIN Sources /\ net \in DOMAIN Nets
  BY DEF RoutingInv, ChoiceInv, DocumentSound
<1>2. engine # NoEngine => /\ engine.owner \in {"prepared", "gateway"}
                           /\ engine.doc \in DOMAIN Documents /\ engine.source \in DOMAIN Sources /\ engine.net \in DOMAIN Nets
                           /\ DOMAIN selected = DOMAIN engine.groups
                           /\ \A g \in DOMAIN selected : selected[g] \in ToSet(engine.groups[g])
  BY LiveOutlets DEF RoutingInv, ChoiceInv, EngineSound, RulesSound
<1>3. QED
  BY <1>1, <1>2 DEF RoutingInv, SpentSound, GuessSound, StageSound, TypeOK

\* An engine of which this is known routes as was promised.
LEMMA RoutingHolds == RoutingInv => RoutedAsDocumented
<1> SUFFICES ASSUME RoutingInv PROVE RoutedAsDocumented
  OBVIOUS
<1>1. TypeOK
  BY RoutingTyped
<1>2. ASSUME engine.owner = "gateway", NEW p \in Packets PROVE Route(engine.rules, selected, p) = Expected(p)
  <2>1. engine # NoEngine
    BY <1>2 DEF NoEngine
  <2>2. PICK policy, res, settings, content :
           policy = Documents[engine.doc] /\ res = engine.res /\ settings = Nets[engine.net] /\ content = Sources[engine.source]
    OBVIOUS
  <2>3. PICK compiled, active : compiled = Compile(policy, res, settings) /\ active = Active(policy, settings)
    OBVIOUS
  <2>4. /\ engine.doc \in DOMAIN Documents /\ ValidPolicySet(policy) /\ engine.source \in DOMAIN Sources /\ ~res.all
        /\ engine.groups = Groups(compiled, content, settings)
        /\ Valid(policy, settings) /\ engine.rules = Rules(compiled, content, settings)
    BY <2>1, <2>2, <2>3 DEF RoutingInv, ChoiceInv, EngineSound, RulesSound
  <2>5. IsDocument(policy) /\ IsSource(content)
    BY <2>2, <2>4, DeviceRoutingAssumption
  <2>6. OutletsSound /\ DOMAIN selected = DOMAIN engine.groups
    BY <2>1, LiveOutlets
  <2>7. Arrives(policy, settings, p)
    BY <2>2, PacketsArrive
  <2>8. IsPacket(p)
    BY <2>7 DEF Arrives
  <2>9. Listed(compiled, p)
    BY <2>3, <2>4, <2>5, <2>7, CompiledListed
  <2>10. \A g : IsDeviceGroup(g) => (g \in DOMAIN selected <=> g \in DOMAIN DeviceGroups(compiled))
    BY <2>2, <2>4, <2>6, DevicesGroups
  <2>11. Situation(policy, res, settings, p)
    BY <2>3, <2>4, <2>5, <2>6, <2>7, <2>10 DEF Situation
  <2>12. Living(policy, res, settings, content, compiled, active, p)
    BY <2>2, <2>3, <2>4, <2>5, <2>6, <2>8, <2>9, <2>11 DEF Living
  <2>13. QED
    BY <2>12, PacketRouted
<1>3. QED
  BY <1>1, <1>2 DEF RoutedAsDocumented

\* Spending leaves what is left in its range.
LEMMA SpentLess ==
    ASSUME SpentSound, UNCHANGED left \/ \E kind : kind # "all" /\ Spend(kind)
    PROVE  SpentSound'
<1>1. CASE UNCHANGED left
  BY <1>1 DEF SpentSound
<1>2. ASSUME NEW kind, kind # "all", Spend(kind) PROVE SpentSound'
  <2>1. left' = [left EXCEPT ![kind] = @ - 1, !["all"] = @ - 1] /\ left[kind] > 0 /\ left["all"] > 0
    BY <1>2 DEF Spend
  <2>2. DOMAIN left' = DOMAIN left
    BY <2>1
  <2>3. ASSUME NEW k \in DOMAIN left PROVE left'[k] \in 0 .. Quota[k]
    <3>1. left[k] \in 0 .. Quota[k] /\ Quota[k] \in Nat
      BY DeviceRoutingAssumption DEF SpentSound
    <3>2. left'[k] = IF k = kind \/ k = "all" THEN left[k] - 1 ELSE left[k]
      BY <1>2, <2>1
    <3>3. QED
      BY <2>1, <3>1, <3>2
  <2>4. QED
    BY <2>2, <2>3 DEF SpentSound
<1>3. QED
  BY <1>1, <1>2

\* A step spends once, or not at all.
LEMMA EverythingSpends ==
    ASSUME [Next]_vars
    PROVE  UNCHANGED left \/ \E kind : kind # "all" /\ Spend(kind)
<1>1. ASSUME NEW x, Edit(x) \/ ChangeSource(x) \/ ChangeNet(x) PROVE \E kind : kind # "all" /\ Spend(kind)
  BY <1>1 DEF Edit, ChangeSource, ChangeNet
<1>2. ASSUME NEW late, Prepare(late) \/ Start(late) PROVE UNCHANGED left \/ \E kind : kind # "all" /\ Spend(kind)
  BY <1>2 DEF Prepare, Start, Late
<1>3. ASSUME Stop \/ PreparedDies PROVE UNCHANGED left \/ \E kind : kind # "all" /\ Spend(kind)
  BY <1>3 DEF Stop, PreparedDies
<1>4. ASSUME NEW g, NEW m, Select(g, m) PROVE \E kind : kind # "all" /\ Spend(kind)
  BY <1>4 DEF Select
<1>5. ASSUME NEW mode, NEW policy, NEW health, AskMode(mode, policy, health) PROVE \E kind : kind # "all" /\ Spend(kind)
  BY <1>5 DEF AskMode
<1>6. ASSUME ApplyOne \/ ApplyFails \/ ReplyLost \/ Verify \/ VerifyFails \/ UndoOne \/ UndoFails \/ Failed
      PROVE  UNCHANGED left \/ \E kind : kind # "all" /\ Spend(kind)
  BY <1>6 DEF ApplyOne, ApplyFails, ReplyLost, Verify, VerifyFails, UndoOne, UndoFails, Failed
<1>7. ASSUME UNCHANGED vars PROVE UNCHANGED left
  BY <1>7 DEF vars
<1>8. QED
  BY <1>1, <1>2, <1>3, <1>4, <1>5, <1>6, <1>7 DEF Next

-----------------------------------------------------------------------------
(* Every step.                                                             *)

\* Every step keeps to the quota.
LEMMA SpentNext ==
    ASSUME SpentSound, [Next]_vars
    PROVE  SpentSound'
BY EverythingSpends, SpentLess

\* What is saved stays, and the engine stays or is stopped.
LEMMA RulesStay ==
    ASSUME RulesSound, UNCHANGED <<doc, net>>, engine' \in {engine, NoEngine}
    PROVE  RulesSound'
BY DEF RulesSound

\* An engine is started from what is saved.
LEMMA LaunchRules ==
    ASSUME RulesSound, DocumentSound, NEW owner, NEW late, UNCHANGED <<doc, net>>,
           Launch(Candidate(owner, late))
    PROVE  RulesSound'
<1> DEFINE res == Resolution(late)
<1>1. engine' = Candidate(owner, late)
  BY DEF Launch
<1>2. /\ engine'.doc = doc /\ engine'.source = source /\ engine'.net = net /\ engine'.res = res
      /\ engine'.rules = Rules(Compile(Documents[doc], res, Nets[net]), Sources[source], Nets[net])
  BY <1>1 DEF Candidate, Engine
<1> HIDE DEF res
<1>3. RulesSound'
  BY <1>2 DEF RulesSound, DocumentSound
<1>4. QED
  BY <1>3

\* Every step keeps what is saved valid and the engine what it was started from.
LEMMA RulesNext ==
    ASSUME RulesSound, DocumentSound, [Next]_vars
    PROVE  RulesSound'
<1>1. ASSUME NEW d \in DOMAIN Documents, Edit(d) PROVE RulesSound'
  BY <1>1 DEF Edit, RulesSound
<1>2. ASSUME NEW s, ChangeSource(s) PROVE RulesSound'
  BY <1>2, RulesStay DEF ChangeSource
<1>3. ASSUME NEW n, ChangeNet(n) PROVE RulesSound'
  BY <1>3 DEF ChangeNet, RulesSound
<1>4. ASSUME NEW late, Prepare(late) PROVE RulesSound'
  <2>1. UNCHANGED <<doc, net>> /\ (engine' = engine \/ Launch(Candidate("prepared", late)))
    BY <1>4 DEF Prepare
  <2>2. QED
    BY <2>1, RulesStay, LaunchRules
<1>5. ASSUME NEW late, Start(late) PROVE RulesSound'
  <2>1. UNCHANGED <<doc, net>> /\ Launch(Candidate("gateway", late))
    BY <1>5 DEF Start
  <2>2. QED
    BY <2>1, LaunchRules
<1>6. ASSUME Stop \/ PreparedDies PROVE RulesSound'
  BY <1>6, RulesStay DEF Stop, PreparedDies
<1>7. ASSUME NEW g, NEW m, Select(g, m) PROVE RulesSound'
  BY <1>7, RulesStay DEF Select
<1>8. ASSUME NEW mode, NEW policy, NEW health, AskMode(mode, policy, health) PROVE RulesSound'
  BY <1>8, RulesStay DEF AskMode
<1>9. ASSUME ApplyOne \/ ApplyFails \/ ReplyLost \/ Verify \/ VerifyFails \/ UndoOne \/ UndoFails \/ Failed
      PROVE  RulesSound'
  BY <1>9, RulesStay DEF ApplyOne, ApplyFails, ReplyLost, Verify, VerifyFails, UndoOne, UndoFails, Failed
<1>10. ASSUME UNCHANGED vars PROVE RulesSound'
  BY <1>10, RulesStay DEF vars
<1>11. QED
  BY <1>1, <1>2, <1>3, <1>4, <1>5, <1>6, <1>7, <1>8, <1>9, <1>10 DEF Next

\* A choice adds to what was chosen.
LEMMA GuessPut ==
    ASSUME GuessSound, guessed' = guessed, NEW g, NEW member, Put(g, member)
    PROVE  GuessSound'
BY PutSaves DEF GuessSound

\* A start guesses at what was chosen.
LEMMA GuessLaunch ==
    ASSUME GuessSound, cache' = cache, NEW e, Launch(e)
    PROVE  GuessSound'
<1>1. guessed' = Guesses(e.res)
  BY DEF Launch
<1>2. Guesses(e.res) \subseteq DOMAIN cache
  BY DEF Guesses, GuessSound
<1>3. QED
  BY <1>1, <1>2 DEF GuessSound

\* Every step keeps the guesses among the choices.
LEMMA GuessNext ==
    ASSUME GuessSound, [Next]_vars
    PROVE  GuessSound'
<1>1. ASSUME NEW x, Edit(x) \/ ChangeSource(x) \/ ChangeNet(x) PROVE GuessSound'
  BY <1>1 DEF Edit, ChangeSource, ChangeNet, GuessSound
<1>2. ASSUME NEW late, Prepare(late) PROVE GuessSound'
  <2>1. cache' = cache /\ (guessed' = guessed \/ Launch(Candidate("prepared", late)))
    BY <1>2 DEF Prepare
  <2>2. QED
    BY <2>1, GuessLaunch DEF GuessSound
<1>3. ASSUME NEW late, Start(late) PROVE GuessSound'
  <2>1. cache' = cache /\ Launch(Candidate("gateway", late))
    BY <1>3 DEF Start
  <2>2. QED
    BY <2>1, GuessLaunch
<1>4. ASSUME Stop \/ PreparedDies PROVE GuessSound'
  BY <1>4 DEF Stop, PreparedDies, GuessSound
<1>5. ASSUME NEW g, NEW m, Select(g, m) PROVE GuessSound'
  BY <1>5, GuessPut DEF Select
<1>6. ASSUME NEW mode, NEW policy, NEW health, AskMode(mode, policy, health) PROVE GuessSound'
  BY <1>6 DEF AskMode, GuessSound
<1>7. ASSUME ApplyOne \/ ReplyLost PROVE GuessSound'
  BY <1>7, GuessPut DEF ApplyOne, ReplyLost
<1>8. ASSUME UndoOne PROVE GuessSound'
  BY <1>8, GuessPut DEF UndoOne
<1>9. ASSUME ApplyFails \/ Verify \/ VerifyFails \/ UndoFails \/ Failed PROVE GuessSound'
  BY <1>9 DEF ApplyFails, Verify, VerifyFails, UndoFails, Failed, GuessSound
<1>10. ASSUME UNCHANGED vars PROVE GuessSound'
  BY <1>10 DEF vars, GuessSound
<1>11. QED
  BY <1>1, <1>2, <1>3, <1>4, <1>5, <1>6, <1>7, <1>8, <1>9, <1>10 DEF Next

\* Every step ends in one of the stages.
LEMMA StageNext ==
    ASSUME StageSound, SwitchSound, [Next]_vars
    PROVE  StageSound'
<1>1. Idle.at = "idle"
  BY DEF Idle
<1>2. switch.at # "idle" => DOMAIN switch = SwitchFields
  BY <1>1 DEF SwitchSound
<1>3. ASSUME switch' = switch PROVE StageSound'
  BY <1>3 DEF StageSound
<1>4. ASSUME NEW x, \/ Edit(x) \/ ChangeSource(x) \/ ChangeNet(x) \/ Prepare(x) \/ Start(x)
                    \/ Stop \/ PreparedDies \/ UNCHANGED vars
      PROVE  StageSound'
  BY <1>3, <1>4 DEF Edit, ChangeSource, ChangeNet, Prepare, Start, Stop, PreparedDies, vars
<1>5. ASSUME NEW g, NEW m, Select(g, m) PROVE StageSound'
  BY <1>3, <1>5 DEF Select
<1>6. ASSUME NEW mode, NEW policy, NEW health, AskMode(mode, policy, health) PROVE StageSound'
  BY <1>6 DEF AskMode, StageSound
<1>7. ASSUME switch.at # "idle", switch' = [switch EXCEPT !.at = "undo"] PROVE StageSound'
  BY <1>2, <1>7, SwitchTurns DEF StageSound
<1>8. ASSUME ApplyOne PROVE StageSound'
  BY <1>2, <1>8, SwitchTakes DEF ApplyOne, StageSound
<1>9. ASSUME ApplyFails \/ VerifyFails PROVE StageSound'
  BY <1>7, <1>9 DEF ApplyFails, VerifyFails
<1>10. ASSUME ReplyLost PROVE StageSound'
  BY <1>2, <1>10, SwitchLoses DEF ReplyLost, StageSound
<1>11. ASSUME Verify PROVE StageSound'
  <2>1. switch.at # "idle" /\ (switch' = Idle \/ switch' = [switch EXCEPT !.at = "undo"])
    BY <1>11 DEF Verify
  <2>2. QED
    BY <1>1, <1>7, <2>1 DEF StageSound
<1>12. ASSUME UndoOne PROVE StageSound'
  BY <1>2, <1>12, SwitchUndoes DEF UndoOne, StageSound
<1>13. ASSUME UndoFails PROVE StageSound'
  BY <1>2, <1>13, SwitchSkips DEF UndoFails, StageSound
<1>14. ASSUME Failed PROVE StageSound'
  BY <1>1, <1>14 DEF Failed, StageSound
<1>15. QED
  BY <1>4, <1>5, <1>6, <1>8, <1>9, <1>10, <1>11, <1>12, <1>13, <1>14 DEF Next

\* It is known at first.
LEMMA RoutingInit == Init => RoutingInv
<1> SUFFICES ASSUME Init PROVE RoutingInv
  OBVIOUS
<1>1. ChoiceInv /\ ModeInv
  BY ChoiceInit, ModeInit
<1>2. RulesSound /\ GuessSound
  BY DEF Init, RulesSound, GuessSound
<1>3. StageSound
  BY DEF Init, Idle, StageSound
<1>4. SpentSound
  BY DeviceRoutingAssumption DEF Init, SpentSound
<1>5. QED
  BY <1>1, <1>2, <1>3, <1>4 DEF RoutingInv

\* Every step keeps it.
LEMMA RoutingNext == RoutingInv /\ [Next]_vars => RoutingInv'
<1> SUFFICES ASSUME RoutingInv, [Next]_vars PROVE RoutingInv'
  OBVIOUS
<1>1. ChoiceInv' /\ ModeInv'
  BY ChoiceNext, ModeNext DEF RoutingInv
<1>2. RulesSound' /\ SpentSound' /\ GuessSound' /\ StageSound'
  BY RulesNext, SpentNext, GuessNext, StageNext DEF RoutingInv, ChoiceInv, ModeInv
<1>3. QED
  BY <1>1, <1>2 DEF RoutingInv

\* A live engine has the rules of a document that was valid for its settings, and
\* a member chosen in each of its groups, whatever was saved, chosen, started and
\* stopped before.
THEOREM RoutingInvariant == Spec => []RoutingInv
<1>1. QED
  BY RoutingInit, RoutingNext, PTL DEF Spec

\* Every packet takes the outlet that its sender's registration promises, from any
\* sender and address, over both families and transports, to any destination, for
\* every document, source and settings that are accepted (device_policy.go:86-366,
\* policy.go:424-429, tailscale.go, local_routing.go): a machine without an active
\* registration never gets the rules of another, and what an outlet cannot carry is
\* refused or passed over as the rule says.
THEOREM PacketsAreRouted == Spec => []RoutedAsDocumented
<1>1. QED
  BY RoutingInvariant, RoutingHolds, PTL
=============================================================================
