-------------------------- MODULE Selection_proofs --------------------------
(***************************************************************************)
(* What Picked returns: a set of positions has exactly one increasing      *)
(* enumeration.  The induction behind it is over sets of numbers.          *)
(***************************************************************************)
EXTENDS Selection, FiniteSetTheorems, TLAPS

NatLess == {ss \in Nat \X Nat : ss[1] < ss[2]}

\* A set of natural numbers has a least element.
LEMMA Least ==
  ASSUME NEW T \in SUBSET Nat, T # {}
  PROVE  \E m \in T : \A k \in T : m <= k
<1>1. IsWellFoundedOn(NatLess, Nat)
  BY NatLessThanWellFounded, Zenon DEF NatLess, OpToRel
<1>2. PICK m \in T : \A k \in T : ~ (<<k, m>> \in NatLess)
  BY <1>1, WFMin
<1>3. ASSUME NEW k \in T PROVE m <= k
  <2>1. k \in Nat /\ m \in Nat
    OBVIOUS
  <2>2. k < m => <<k, m>> \in NatLess
    BY <2>1 DEF NatLess
  <2>3. QED
    BY <1>2, <2>1, <2>2
<1>4. QED
  BY <1>3

\* A set that has 0 and the successor of each of its elements has every number.
LEMMA Induction ==
  ASSUME NEW S \in SUBSET Nat, 0 \in S, \A m \in S : m + 1 \in S
  PROVE  S = Nat
<1>1. SUFFICES ASSUME S # Nat PROVE FALSE
  OBVIOUS
<1>2. PICK m \in Nat \ S : \A k \in Nat \ S : m <= k
  <2> DEFINE T == Nat \ S
  <2>1. T \in SUBSET Nat /\ T # {}
    BY <1>1
  <2> HIDE DEF T
  <2>2. \E m \in T : \A k \in T : m <= k
    BY <2>1, Least
  <2>3. QED
    BY <2>2 DEF T
<1>3. m - 1 \in S
  BY <1>2
<1>4. QED
  BY <1>2, <1>3

\* Finite sets of positions.
LEMMA Positions ==
  ASSUME NEW n \in Nat, NEW I \in SUBSET (1 .. n)
  PROVE  IsFiniteSet(I) /\ Cardinality(I) \in Nat
<1>1. IsFiniteSet(1 .. n)
  BY FS_Interval
<1>2. IsFiniteSet(I)
  BY <1>1, FS_Subset
<1>3. QED
  BY <1>2, FS_CardinalityType

\* h is the increasing enumeration of I.
Enumerates(h, I) ==
  /\ h \in [1 .. Cardinality(I) -> I]
  /\ \A a, b \in 1 .. Cardinality(I) : a < b => h[a] < h[b]
  /\ \A x \in I : \E a \in 1 .. Cardinality(I) : h[a] = x

\* Every set of positions has an increasing enumeration: by induction on the
\* bound of the positions.
LEMMA EnumerationExists ==
  ASSUME NEW n \in Nat
  PROVE  \A I \in SUBSET (1 .. n) : \E h : Enumerates(h, I)
<1> DEFINE S == {m \in Nat : \A I \in SUBSET (1 .. m) : \E h : Enumerates(h, I)}
<1>1. 0 \in S
  <2>1. ASSUME NEW I \in SUBSET (1 .. 0) PROVE \E h : Enumerates(h, I)
    <3>1. I = {}
      OBVIOUS
    <3>2. Cardinality(I) = 0
      BY <3>1, FS_EmptySet
    <3>3. Enumerates([a \in 1 .. 0 |-> 0], I)
      BY <3>1, <3>2 DEF Enumerates
    <3>4. QED
      BY <3>3
  <2>2. QED
    BY <2>1
<1>2. ASSUME NEW m \in S PROVE m + 1 \in S
  <2>1. ASSUME NEW I \in SUBSET (1 .. m + 1) PROVE \E h : Enumerates(h, I)
    <3> DEFINE J == I \ {m + 1}
    <3>1. J \in SUBSET (1 .. m) /\ m \in Nat
      OBVIOUS
    <3>2. PICK h : Enumerates(h, J)
      BY <3>1
    <3>3. CASE m + 1 \notin I
      BY <3>2, <3>3, J = I
    <3>4. CASE m + 1 \in I
      <4>0. m + 1 \in Nat
        BY <3>1
      <4>1. IsFiniteSet(I) /\ Cardinality(I) \in Nat
        BY <4>0, Positions
      <4>2. Cardinality(J) = Cardinality(I) - 1 /\ Cardinality(J) \in Nat
        BY <3>4, <4>1, FS_RemoveElement, FS_CardinalityType
      <4> DEFINE c == Cardinality(I)
                 g == [a \in 1 .. c |-> IF a = c THEN m + 1 ELSE h[a]]
      <4>3. c \in Nat \ {0} /\ Cardinality(J) = c - 1
        BY <4>1, <4>2
      <4> HIDE DEF c
      <4>4. /\ h \in [1 .. c - 1 -> J]
            /\ \A a, b \in 1 .. c - 1 : a < b => h[a] < h[b]
            /\ \A x \in J : \E a \in 1 .. c - 1 : h[a] = x
        BY <3>2, <4>3 DEF Enumerates
      <4>5. \A a \in 1 .. c : a # c => a \in 1 .. c - 1
        BY <4>3
      <4>6. g \in [1 .. c -> I]
        BY <4>3, <4>4, <4>5, <3>4
      <4>7. ASSUME NEW a \in 1 .. c, NEW b \in 1 .. c, a < b PROVE g[a] < g[b]
        <5>1. a # c /\ a \in 1 .. c - 1 /\ g[a] = h[a]
          BY <4>3, <4>7
        <5>2. h[a] \in 1 .. m
          BY <5>1, <4>4, <3>1
        <5>3. CASE b = c
          BY <5>1, <5>2, <5>3, <3>1
        <5>4. CASE b # c
          <6>1. b \in 1 .. c - 1 /\ g[b] = h[b]
            BY <5>4, <4>5
          <6>2. QED
            BY <6>1, <5>1, <4>4, <4>7
        <5>5. QED
          BY <5>3, <5>4
      <4>8. ASSUME NEW x \in I PROVE \E a \in 1 .. c : g[a] = x
        <5>1. CASE x = m + 1
          BY <5>1, <4>3
        <5>2. CASE x # m + 1
          <6>1. PICK a \in 1 .. c - 1 : h[a] = x
            BY <5>2, <4>4
          <6>2. a \in 1 .. c /\ a # c
            BY <4>3
          <6>3. QED
            BY <6>1, <6>2
        <5>3. QED
          BY <5>1, <5>2
      <4>9. Enumerates(g, I)
        BY <4>6, <4>7, <4>8 DEF Enumerates, c
      <4>10. QED
        BY <4>9
    <3>5. QED
      BY <3>3, <3>4
  <2>2. QED
    BY <2>1
<1>3. S = Nat
  <2> HIDE DEF S
  <2>1. S \in SUBSET Nat
    BY DEF S
  <2>2. QED
    BY <1>1, <1>2, <2>1, Induction
<1>4. QED
  BY <1>3

\* InOrder enumerates its argument.
LEMMA InOrderEnumerates ==
  ASSUME NEW n \in Nat, NEW I \in SUBSET (1 .. n)
  PROVE  Enumerates(InOrder(I), I)
<1>1. PICK h : Enumerates(h, I)
  BY EnumerationExists
<1>2. QED
  BY <1>1 DEF Enumerates, InOrder

\* t is the vector of the elements of s at the positions in I, each once, in
\* the order h of the positions.
TakenInOrder(t, s, I, h) ==
  /\ Cardinality(I) \in Nat
  /\ DOMAIN t = 1 .. Cardinality(I) /\ Len(t) = Cardinality(I)
  /\ h \in [1 .. Cardinality(I) -> I]
  /\ \A a, b \in 1 .. Cardinality(I) : a < b => h[a] < h[b]
  /\ \A x \in I : \E a \in 1 .. Cardinality(I) : h[a] = x
  /\ \A a \in 1 .. Cardinality(I) : t[a] = s[h[a]]

\* Picked returns the elements at the positions in I, each once and in order.
THEOREM PickedIsInOrder ==
  ASSUME NEW n \in Nat, NEW I \in SUBSET (1 .. n), NEW s
  PROVE  TakenInOrder(Picked(s, I), s, I, InOrder(I))
<1>1. Cardinality(I) \in Nat
  BY Positions
<1>2. Enumerates(InOrder(I), I)
  BY InOrderEnumerates
<1>3. QED
  BY <1>1, <1>2 DEF TakenInOrder, Enumerates, Picked

\* Two increasing enumerations of a set do not part: where they first would,
\* the larger one has passed over an element.
LEMMA EnumerationsAgree ==
  ASSUME NEW n \in Nat, NEW I \in SUBSET (1 .. n), NEW g, NEW h,
         Enumerates(g, I), Enumerates(h, I), NEW a \in 1 .. Cardinality(I),
         \A b \in 1 .. Cardinality(I) : b < a => g[b] = h[b]
  PROVE  ~ (g[a] < h[a])
<1>1. SUFFICES ASSUME g[a] < h[a] PROVE FALSE
  OBVIOUS
<1>2. Cardinality(I) \in Nat
  BY Positions
<1>3. g[a] \in I /\ g[a] \in Nat /\ h[a] \in Nat
  <2>1. g[a] \in I /\ h[a] \in I
    BY DEF Enumerates
  <2>2. \A x \in I : x \in Nat
    OBVIOUS
  <2> QED
    BY <2>1, <2>2
<1>4. PICK b \in 1 .. Cardinality(I) : h[b] = g[a]
  BY <1>3 DEF Enumerates
<1>5. b \in Nat /\ a \in Nat
  BY <1>2
<1>6. CASE b < a
  <2>1. g[b] = h[b] /\ g[b] < g[a]
    BY <1>6 DEF Enumerates
  <2> QED
    BY <2>1, <1>3, <1>4
<1>7. CASE b = a
  BY <1>7, <1>1, <1>3, <1>4
<1>8. CASE a < b
  <2>1. h[a] < h[b]
    BY <1>8 DEF Enumerates
  <2> QED
    BY <2>1, <1>1, <1>3, <1>4
<1>9. QED
  BY <1>5, <1>6, <1>7, <1>8

\* The increasing enumeration of a set is unique.
LEMMA EnumerationUnique ==
  ASSUME NEW n \in Nat, NEW I \in SUBSET (1 .. n), NEW g, NEW h,
         Enumerates(g, I), Enumerates(h, I)
  PROVE  g = h
<1> DEFINE c == Cardinality(I)
           T == {a \in 1 .. c : g[a] # h[a]}
<1>1. c \in Nat
  BY Positions
<1>2. g \in [1 .. c -> I] /\ h \in [1 .. c -> I]
  BY DEF Enumerates
<1>3. T = {}
  <2>1. SUFFICES ASSUME T # {} PROVE FALSE
    OBVIOUS
  <2>2. T \in SUBSET Nat
    BY <1>1
  <2>3. PICK a \in T : \A b \in T : a <= b
    <3> HIDE DEF T
    <3> QED
      BY <2>1, <2>2, Least
  <2>4. a \in 1 .. c /\ g[a] # h[a]
    BY <2>3
  <2>5. \A b \in 1 .. c : b < a => g[b] = h[b] /\ h[b] = g[b]
    BY <2>3, <1>1
  <2>6. ~ (g[a] < h[a]) /\ ~ (h[a] < g[a])
    BY <2>4, <2>5, EnumerationsAgree
  <2>7. g[a] \in Nat /\ h[a] \in Nat
    <3>1. g[a] \in I /\ h[a] \in I
      BY <2>4, <1>2
    <3>2. \A x \in I : x \in Nat
      OBVIOUS
    <3> QED
      BY <3>1, <3>2
  <2> QED
    BY <2>4, <2>6, <2>7
<1>4. \A a \in 1 .. c : g[a] = h[a]
  BY <1>3
<1>5. QED
  <2> HIDE DEF c
  <2>1. g = [a \in 1 .. c |-> g[a]] /\ h = [a \in 1 .. c |-> h[a]]
    BY <1>2
  <2> QED
    BY <2>1, <1>4

\* The positions that the positions J among those of I stand for.
Places(I, J) == {InOrder(I)[a] : a \in J}

\* Picking from what was picked is picking once.
THEOREM PickedTwice ==
  ASSUME NEW n \in Nat, NEW I \in SUBSET (1 .. n), NEW J \in SUBSET (1 .. Cardinality(I)),
         NEW s
  PROVE  Picked(Picked(s, I), J) = Picked(s, Places(I, J))
<1> DEFINE K == Places(I, J)
           c == Cardinality(I)
           d == Cardinality(J)
           p == InOrder(I)
           q == InOrder(J)
           h == [b \in 1 .. d |-> p[q[b]]]
<1>1. c \in Nat /\ IsFiniteSet(J) /\ d \in Nat
  BY Positions
<1>2. /\ p \in [1 .. c -> I] /\ \A a, b \in 1 .. c : a < b => p[a] < p[b]
      /\ q \in [1 .. d -> J] /\ \A a, b \in 1 .. d : a < b => q[a] < q[b]
      /\ \A x \in J : \E a \in 1 .. d : q[a] = x
  <2>1. Enumerates(p, I)
    BY InOrderEnumerates
  <2>2. Enumerates(q, J)
    BY <1>1, InOrderEnumerates
  <2> QED
    BY <2>1, <2>2 DEF Enumerates
<1> HIDE DEF p, q, c, d
<1>3. K = {p[a] : a \in J} /\ J \subseteq 1 .. c /\ K \in SUBSET (1 .. n)
  BY <1>2 DEF p, c, Places
<1> HIDE DEF K
<1>4. Cardinality(K) = d
  <2> DEFINE f == [a \in J |-> p[a]]
  <2>1. \A a, b \in J : a # b => f[a] # f[b]
    <3>1. ASSUME NEW a \in J, NEW b \in J, a # b PROVE p[a] # p[b]
      <4>1. a \in 1 .. c /\ b \in 1 .. c /\ p[a] \in Nat /\ p[b] \in Nat
        <5>1. a \in 1 .. c /\ b \in 1 .. c /\ \A x \in I : x \in Nat
          BY <1>3
        <5>2. p[a] \in I /\ p[b] \in I
          BY <5>1, <1>2
        <5> QED
          BY <5>1, <5>2
      <4>2. a < b \/ b < a
        BY <3>1, <4>1, <1>1 DEF c
      <4> QED
        BY <4>1, <4>2, <1>2
    <3> QED
      BY <3>1
  <2>2. f \in Bijection(J, K)
    BY <2>1, <1>3 DEF Bijection, Injection, Surjection, IsInjective
  <2>3. ExistsBijection(J, K)
    BY <2>2 DEF ExistsBijection
  <2> QED
    BY <2>3, <1>1, FS_Bijection DEF d
<1>5. Enumerates(h, K)
  <2>1. \A b \in 1 .. d : q[b] \in J /\ q[b] \in 1 .. c /\ h[b] = p[q[b]]
    BY <1>2, <1>3
  <2>2. h \in [1 .. d -> K]
    BY <2>1, <1>3
  <2>3. \A a, b \in 1 .. d : a < b => h[a] < h[b]
    BY <2>1, <1>2
  <2>4. \A x \in K : \E b \in 1 .. d : h[b] = x
    <3>1. ASSUME NEW x \in K PROVE \E b \in 1 .. d : h[b] = x
      <4>1. PICK a \in J : x = p[a]
        BY <1>3
      <4>2. PICK b \in 1 .. d : q[b] = a
        BY <1>2
      <4> QED
        BY <4>1, <4>2
    <3> QED
      BY <3>1
  <2> HIDE DEF h
  <2> QED
    BY <2>2, <2>3, <2>4, <1>4 DEF Enumerates
<1>6. InOrder(K) = h
  <2>1. Enumerates(InOrder(K), K)
    BY <1>3, InOrderEnumerates
  <2> HIDE DEF h
  <2> QED
    BY <2>1, <1>3, <1>5, EnumerationUnique
<1>7. Picked(s, I) = [a \in 1 .. c |-> s[p[a]]]
  BY DEF Picked, c, p
<1>8. Picked(Picked(s, I), J) = [b \in 1 .. d |-> Picked(s, I)[q[b]]]
  BY DEF Picked, d, q
<1>9. Picked(s, K) = [b \in 1 .. d |-> s[h[b]]]
  BY <1>4, <1>6 DEF Picked
<1>10. \A b \in 1 .. d : Picked(s, I)[q[b]] = s[h[b]]
  BY <1>2, <1>3, <1>7
<1>11. QED
  BY <1>8, <1>9, <1>10 DEF K

\* A set of positions that is not empty has a last one.
THEOREM LastOfIsLast ==
  ASSUME NEW n \in Nat, NEW I \in SUBSET (1 .. n), I # {}
  PROVE  LastOf(I) \in I /\ \A y \in I : y <= LastOf(I)
<1> DEFINE T == {k \in Nat : n - k \in I}
<1>1. T \in SUBSET Nat /\ T # {}
  <2>1. PICK x \in I : TRUE
    OBVIOUS
  <2>2. n - x \in Nat /\ n - (n - x) = x
    OBVIOUS
  <2>3. QED
    BY <2>2
<1>2. PICK m \in T : \A k \in T : m <= k
  <2> HIDE DEF T
  <2>1. QED
    BY <1>1, Least
<1>3. PICK x \in I : m = n - x
  <2>1. n - m \in I /\ m = n - (n - m)
    BY <1>2
  <2>2. QED
    BY <2>1
<1>4. \A y \in I : y <= x
  <2>1. ASSUME NEW y \in I PROVE y <= x
    <3>1. n - y \in Nat /\ n - (n - y) = y
      OBVIOUS
    <3>2. n - x <= n - y
      BY <3>1, <1>2, <1>3
    <3>3. QED
      BY <3>2
  <2>2. QED
    BY <2>1
<1>5. QED
  BY <1>4 DEF LastOf
=============================================================================
