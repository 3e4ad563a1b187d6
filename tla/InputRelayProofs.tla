-------------------------- MODULE InputRelayProofs --------------------------
(***************************************************************************)
(* InputRelay, for every number of frames, length of batches and budget:   *)
(* each taken input reaches the peers exactly once and in its place, and   *)
(* the released frames are those of FrameRelease.                          *)
(***************************************************************************)
EXTENDS InputRelay, FiniteSetTheorems, WellFoundedInduction, TLAPS

-----------------------------------------------------------------------------
(* Numbers and finite sets of numbers.  The induction principle of the     *)
(* library takes an operator; the least element of a set does the same.    *)

\* A set of numbers that is not empty has a least element.
LEMMA LeastNumber ==
  ASSUME NEW S \in SUBSET Nat, S # {}
  PROVE  \E n \in S : \A m \in S : n <= m
<1> DEFINE R == {ss \in Nat \X Nat : ss[1] < ss[2]}
<1>1. IsWellFoundedOn(R, Nat)
  BY NatLessThanWellFounded DEF OpToRel
<1>2. \A x, y \in Nat : y < x => <<y, x>> \in R
  OBVIOUS
<1> HIDE DEF R
<1>3. PICK x \in S : \A y \in S : ~(<<y, x>> \in R)
  BY <1>1, WFMin, Zenon
<1>4. \A y \in S : ~(y < x)
  BY <1>2, <1>3, Zenon
<1> QED
  BY <1>4

\* What holds of 0, and of n + 1 whenever it holds of n, holds of every number.
LEMMA Induction ==
  ASSUME NEW S, 0 \in S, \A n \in Nat : n \in S => n + 1 \in S
  PROVE  Nat \subseteq S
<1> SUFFICES ASSUME Nat \ S # {} PROVE FALSE
  OBVIOUS
<1>1. PICK n \in Nat \ S : \A m \in Nat \ S : n <= m
  BY LeastNumber, Zenon
<1>2. n - 1 \in Nat /\ n - 1 \in S
  BY <1>1
<1> QED
  BY <1>1, <1>2

Below(n) == {x \in Nat : x < n}

\* Sets of frames and of positions are finite.
LEMMA BoundedFinite ==
  ASSUME NEW n \in Nat, NEW S \in SUBSET Below(n)
  PROVE  IsFiniteSet(S) /\ Cardinality(S) \in Nat
<1>1. S \in SUBSET Nat /\ \A x \in S : x <= n
  BY DEF Below
<1>2. IsFiniteSet(S)
  BY <1>1, FS_BoundedSetOfNaturals, Zenon
<1> QED
  BY <1>2, FS_CardinalityType, Zenon

\* The largest element of a set of numbers.
LEMMA Largest ==
  ASSUME NEW n \in Nat, NEW S \in SUBSET Below(n), S # {}
  PROVE  Max(S) \in S /\ \A x \in S : x <= Max(S)
<1> DEFINE U == {m \in Nat : \A x \in S : x <= m}
<1>1. n \in U /\ U \subseteq Nat
  BY DEF Below
<1>2. PICK u \in U : \A m \in U : u <= m
  BY <1>1, LeastNumber, Zenon
<1>3. u \in S
  <2> SUFFICES ASSUME u \notin S PROVE FALSE
    OBVIOUS
  <2>1. \A x \in S : x \in Nat /\ x < u
    BY <1>2 DEF Below
  <2>2. u # 0
    BY <1>2, <2>1
  <2>3. u - 1 \in U
    BY <1>2, <2>1, <2>2
  <2> QED
    BY <1>2, <2>3
<1>4. \E x \in S : \A y \in S : x >= y
  BY <1>2, <1>3
<1>5. Max(S) \in S /\ \A y \in S : Max(S) >= y
  BY <1>4, Zenon DEF Max
<1> QED
  BY <1>5 DEF Below

Increasing(q, n) == \A i, j \in 1 .. n : i < j => q[i] < q[j]

\* A finite set of numbers has a listing in ascending order.
LEMMA ListingExists ==
  ASSUME NEW n \in Nat, NEW S \in SUBSET Below(n)
  PROVE  \E q \in [1 .. Cardinality(S) -> S] : Increasing(q, Cardinality(S))
<1> DEFINE Good(T) == \E q \in [1 .. Cardinality(T) -> T] : Increasing(q, Cardinality(T))
           G == {m \in Nat : \A T \in SUBSET Below(m) : Good(T)}
<1>1. 0 \in G
  <2> SUFFICES ASSUME NEW T \in SUBSET Below(0) PROVE Good(T)
    BY Zenon
  <2>1. T = {}
    BY DEF Below
  <2>2. Cardinality(T) = 0
    BY <2>1, FS_EmptySet
  <2>3. [i \in 1 .. 0 |-> i] \in [1 .. 0 -> T] /\ Increasing([i \in 1 .. 0 |-> i], 0)
    BY DEF Increasing
  <2> QED
    BY <2>2, <2>3, Zenon
<1>2. ASSUME NEW m \in Nat, m \in G PROVE m + 1 \in G
  <2> SUFFICES ASSUME NEW T \in SUBSET Below(m + 1) PROVE Good(T)
    OBVIOUS
  <2> DEFINE T0 == T \ {m}
  <2>1. T0 \in SUBSET Below(m)
    BY DEF Below
  <2>2. IsFiniteSet(T) /\ Cardinality(T) \in Nat /\ Cardinality(T0) \in Nat
    BY <2>1, BoundedFinite
  <2>3. PICK q \in [1 .. Cardinality(T0) -> T0] : Increasing(q, Cardinality(T0))
    BY <1>2, <2>1, Zenon
  <2>4. CASE m \notin T
    <3>1. T0 = T
      BY <2>4
    <3> QED
      BY <2>3, <3>1, Zenon
  <2>5. CASE m \in T
    <3>1. Cardinality(T0) = Cardinality(T) - 1
      BY <2>2, <2>5, FS_RemoveElement, Zenon
    <3>2. PICK k \in Nat : k = Cardinality(T0) /\ Cardinality(T) = k + 1
      BY <2>2, <3>1
    <3> DEFINE r == [i \in 1 .. (k + 1) |-> IF i = k + 1 THEN m ELSE q[i]]
    <3>3. \A i \in 1 .. k : q[i] \in T0 /\ q[i] \in T /\ q[i] \in Nat /\ q[i] < m
      BY <2>1, <2>3, <3>2, Zenon DEF Below
    <3>4. \A i \in 1 .. (k + 1) : i # k + 1 => i \in 1 .. k
      OBVIOUS
    <3>5. r \in [1 .. (k + 1) -> T]
      BY <2>5, <3>3, <3>4, Zenon
    <3>6. Increasing(r, k + 1)
      <4> SUFFICES ASSUME NEW i \in 1 .. (k + 1), NEW j \in 1 .. (k + 1), i < j PROVE r[i] < r[j]
        BY Zenon DEF Increasing
      <4>1. i \in 1 .. k /\ r[i] = q[i]
        OBVIOUS
      <4>2. CASE j = k + 1
        BY <3>3, <4>1, <4>2, Zenon
      <4>3. CASE j # k + 1
        <5>1. j \in 1 .. k /\ r[j] = q[j]
          BY <4>3
        <5> QED
          BY <2>3, <3>2, <4>1, <5>1, Zenon DEF Increasing
      <4> QED
        BY <4>2, <4>3
    <3> HIDE DEF r
    <3> QED
      BY <3>2, <3>5, <3>6, Zenon
  <2> QED
    BY <2>4, <2>5
<1>3. n \in G
  <2> HIDE DEF G
  <2> QED
    BY <1>1, <1>2, Induction
<1> QED
  BY <1>3

\* A listing in ascending order of as many elements as the set has leaves none out.
LEMMA ListingIsOnto ==
  ASSUME NEW n \in Nat, NEW S \in SUBSET Below(n),
         NEW q \in [1 .. Cardinality(S) -> S], Increasing(q, Cardinality(S))
  PROVE  \A x \in S : \E i \in 1 .. Cardinality(S) : q[i] = x
<1>1. IsFiniteSet(S) /\ Cardinality(S) \in Nat
  BY BoundedFinite
<1>2. PICK k \in Nat : k = Cardinality(S)
  BY <1>1
<1>3. \A i \in 1 .. k : q[i] \in Nat
  BY <1>2, Zenon DEF Below
<1>4. \A i, j \in 1 .. k : q[i] = q[j] => i = j
  <2> SUFFICES ASSUME NEW i \in 1 .. k, NEW j \in 1 .. k, i # j PROVE q[i] # q[j]
    OBVIOUS
  <2>1. i < j \/ j < i
    OBVIOUS
  <2>2. q[i] < q[j] \/ q[j] < q[i]
    BY <1>2, <2>1, Zenon DEF Increasing
  <2> QED
    BY <1>3, <2>2
<1>5. q \in Injection(1 .. k, S)
  BY <1>2, <1>4 DEF Injection, IsInjective
<1>6. Cardinality(1 .. k) = k
  BY FS_Interval
<1>7. q \in Surjection(1 .. k, S)
  BY <1>1, <1>2, <1>5, <1>6, FS_Injection, Zenon
<1> QED
  BY <1>2, <1>7 DEF Surjection

\* There is only one.
LEMMA ListingIsUnique ==
  ASSUME NEW n \in Nat, NEW S \in SUBSET Below(n), NEW k \in Nat, k = Cardinality(S),
         NEW q \in [1 .. k -> S], Increasing(q, k), NEW r \in [1 .. k -> S], Increasing(r, k)
  PROVE  q = r
<1>1. /\ \A x \in S : \E i \in 1 .. k : q[i] = x
      /\ \A x \in S : \E i \in 1 .. k : r[i] = x
  BY ListingIsOnto
<1>2. \A i \in 1 .. k : q[i] \in Nat /\ r[i] \in Nat
  BY Zenon DEF Below
<1> DEFINE D == {i \in 1 .. k : q[i] # r[i]}
<1>3. CASE D = {}
  BY <1>3
<1>4. CASE D # {}
  <2>0. D \in SUBSET Nat
    OBVIOUS
  <2>1. PICK i \in D : \A j \in D : i <= j
    <3> HIDE DEF D
    <3> QED
      BY <1>4, <2>0, LeastNumber, Zenon
  <2>2. \A j \in 1 .. k : j < i => q[j] = r[j]
    BY <2>1
  <2>3. CASE q[i] < r[i]
    <3>1. PICK j \in 1 .. k : r[j] = q[i]
      BY <1>1, <2>1
    <3>2. j < i \/ j = i \/ i < j
      OBVIOUS
    <3>3. ~(j < i)
      <4> SUFFICES ASSUME j < i PROVE FALSE
        OBVIOUS
      <4>1. q[j] = q[i] /\ q[j] < q[i]
        BY <2>2, <3>1 DEF Increasing
      <4> QED
        BY <1>2, <4>1
    <3>4. ~(i < j)
      <4> SUFFICES ASSUME i < j PROVE FALSE
        OBVIOUS
      <4>1. r[i] < r[j]
        BY DEF Increasing
      <4> QED
        BY <1>2, <2>3, <3>1, <4>1
    <3> QED
      BY <2>1, <3>1, <3>2, <3>3, <3>4
  <2>4. CASE r[i] < q[i]
    <3>1. PICK j \in 1 .. k : q[j] = r[i]
      BY <1>1, <2>1
    <3>2. j < i \/ j = i \/ i < j
      OBVIOUS
    <3>3. ~(j < i)
      <4> SUFFICES ASSUME j < i PROVE FALSE
        OBVIOUS
      <4>1. r[j] = r[i] /\ r[j] < r[i]
        BY <2>2, <3>1 DEF Increasing
      <4> QED
        BY <1>2, <4>1
    <3>4. ~(i < j)
      <4> SUFFICES ASSUME i < j PROVE FALSE
        OBVIOUS
      <4>1. q[i] < q[j]
        BY DEF Increasing
      <4> QED
        BY <1>2, <2>4, <3>1, <4>1
    <3> QED
      BY <2>1, <3>1, <3>2, <3>3, <3>4
  <2> QED
    BY <1>2, <2>1, <2>3, <2>4
<1> QED
  BY <1>3, <1>4

\* What Ascending lists.
LEMMA AscendingFacts ==
  ASSUME NEW n \in Nat, NEW S \in SUBSET Below(n)
  PROVE  /\ IsFiniteSet(S) /\ Cardinality(S) \in Nat
         /\ Ascending(S) \in [1 .. Cardinality(S) -> S]
         /\ Increasing(Ascending(S), Cardinality(S))
         /\ \A x \in S : \E i \in 1 .. Cardinality(S) : Ascending(S)[i] = x
<1>1. IsFiniteSet(S) /\ Cardinality(S) \in Nat
  BY BoundedFinite
<1>2. PICK q \in [1 .. Cardinality(S) -> S] : Increasing(q, Cardinality(S))
  BY ListingExists, Zenon
<1>3. DOMAIN q = 1 .. Cardinality(S)
  OBVIOUS
<1>4. \E r \in [1 .. Cardinality(S) -> S] : \A i, j \in DOMAIN r : i < j => r[i] < r[j]
  BY <1>2, <1>3, Zenon DEF Increasing
<1>5. /\ Ascending(S) \in [1 .. Cardinality(S) -> S]
      /\ \A i, j \in DOMAIN Ascending(S) : i < j => Ascending(S)[i] < Ascending(S)[j]
  BY <1>4, Zenon DEF Ascending
<1>6. DOMAIN Ascending(S) = 1 .. Cardinality(S)
  BY <1>5
<1>7. Increasing(Ascending(S), Cardinality(S))
  BY <1>5, <1>6, Zenon DEF Increasing
<1> QED
  BY <1>1, <1>5, <1>7, ListingIsOnto

\* An element above the others is listed behind them.
ListedLast(S, x, k) ==
  /\ Cardinality(S \cup {x}) = k + 1
  /\ Ascending(S \cup {x}) \in [1 .. (k + 1) -> S \cup {x}]
  /\ Ascending(S \cup {x})[k + 1] = x
  /\ \A i \in 1 .. k : Ascending(S \cup {x})[i] = Ascending(S)[i]

\* So Ascending appends an element above the others.
LEMMA AscendingAdd ==
  ASSUME NEW n \in Nat, NEW S \in SUBSET Below(n), NEW x \in Nat, n <= x,
         NEW k \in Nat, k = Cardinality(S)
  PROVE  ListedLast(S, x, k)
<1> DEFINE T == S \cup {x}
           r == [i \in 1 .. (k + 1) |-> IF i = k + 1 THEN x ELSE Ascending(S)[i]]
<1>1. x \notin S /\ T \in SUBSET Below(x + 1) /\ x + 1 \in Nat
  BY DEF Below
<1>2. /\ IsFiniteSet(S) /\ Ascending(S) \in [1 .. k -> S] /\ Increasing(Ascending(S), k)
  BY AscendingFacts
<1>3. Cardinality(T) = k + 1
  BY <1>1, <1>2, FS_AddElement, Zenon
<1>4. \A i \in 1 .. k : Ascending(S)[i] \in S /\ Ascending(S)[i] \in Nat /\ Ascending(S)[i] < x
  <2> SUFFICES ASSUME NEW i \in 1 .. k
               PROVE  Ascending(S)[i] \in S /\ Ascending(S)[i] \in Nat /\ Ascending(S)[i] < x
    OBVIOUS
  <2>1. Ascending(S)[i] \in S
    BY <1>2
  <2>2. \A y \in S : y \in Nat /\ y < x
    BY DEF Below
  <2> QED
    BY <2>1, <2>2
<1>5. \A i \in 1 .. (k + 1) : i # k + 1 => i \in 1 .. k
  OBVIOUS
<1>6. r \in [1 .. (k + 1) -> T]
  BY <1>4, <1>5
<1>7. Increasing(r, k + 1)
  <2> SUFFICES ASSUME NEW i \in 1 .. (k + 1), NEW j \in 1 .. (k + 1), i < j PROVE r[i] < r[j]
    BY DEF Increasing
  <2>1. i \in 1 .. k /\ r[i] = Ascending(S)[i]
    OBVIOUS
  <2>2. CASE j = k + 1
    BY <1>4, <2>1, <2>2
  <2>3. CASE j # k + 1
    <3>1. j \in 1 .. k /\ r[j] = Ascending(S)[j]
      BY <2>3
    <3> QED
      BY <1>2, <2>1, <3>1 DEF Increasing
  <2> QED
    BY <2>2, <2>3
<1>8. Ascending(T) \in [1 .. (k + 1) -> T] /\ Increasing(Ascending(T), k + 1)
  <2> HIDE DEF T
  <2> QED
    BY <1>1, <1>3, AscendingFacts
<1>9. Ascending(T) = r
  <2> HIDE DEF T, r
  <2> QED
    BY <1>1, <1>3, <1>6, <1>7, <1>8, ListingIsUnique
<1>10. r[k + 1] = x /\ \A i \in 1 .. k : r[i] = Ascending(S)[i]
  OBVIOUS
<1> QED
  BY <1>3, <1>8, <1>9, <1>10, Zenon DEF ListedLast

\* All positions, in order.
LEMMA AscendingInterval ==
  ASSUME NEW n \in Nat
  PROVE  Cardinality(1 .. n) = n /\ Ascending(1 .. n) = [i \in 1 .. n |-> i]
<1>1. 1 .. n \in SUBSET Below(n + 1)
  BY DEF Below
<1>2. Cardinality(1 .. n) = n
  BY FS_Interval
<1>3. Ascending(1 .. n) \in [1 .. n -> 1 .. n] /\ Increasing(Ascending(1 .. n), n)
  BY <1>1, <1>2, AscendingFacts, SMTT(30)
<1>4. [i \in 1 .. n |-> i] \in [1 .. n -> 1 .. n] /\ Increasing([i \in 1 .. n |-> i], n)
  BY DEF Increasing
<1>5. n + 1 \in Nat
  OBVIOUS
<1>6. \A S \in SUBSET Below(n + 1) : \A q, r \in [1 .. n -> S] :
        n = Cardinality(S) /\ Increasing(q, n) /\ Increasing(r, n) => q = r
  BY <1>5, ListingIsUnique, Zenon
<1> QED
  BY <1>1, <1>2, <1>3, <1>4, <1>6, Zenon

\* The elements at all positions are the sequence.
LEMMA AtAll ==
  ASSUME NEW X, NEW s \in Seq(X)
  PROVE  At(s, DOMAIN s) = s
<1>1. PICK n \in Nat : n = Len(s)
  OBVIOUS
<1>2. DOMAIN s = 1 .. n
  BY <1>1
<1>3. Cardinality(1 .. n) = n /\ Ascending(1 .. n) = [i \in 1 .. n |-> i]
  BY AscendingInterval
<1>4. \A i \in 1 .. n : Ascending(1 .. n)[i] = i
  BY <1>3
<1>5. At(s, 1 .. n) = [i \in 1 .. n |-> s[i]]
  BY <1>3, <1>4, Zenon DEF At
<1>6. s = [i \in 1 .. n |-> s[i]]
  BY <1>2
<1> QED
  BY <1>2, <1>5, <1>6, Zenon

\* A function on 1 .. c is a sequence.
LEMMA SeqOf ==
  ASSUME NEW X, NEW c \in Nat, NEW t \in [1 .. c -> X]
  PROVE  t \in Seq(X)
  OBVIOUS

\* An element of a sequence is of its type.
LEMMA SeqElement ==
  ASSUME NEW X, NEW s \in Seq(X), NEW i \in DOMAIN s
  PROVE  s[i] \in X
  OBVIOUS

\* What a concatenation has where.
LEMMA CatFacts ==
  ASSUME NEW X, NEW s \in Seq(X), NEW t \in Seq(X)
  PROVE  /\ s \o t \in Seq(X) /\ Len(s) \in Nat /\ Len(t) \in Nat
         /\ Len(s \o t) = Len(s) + Len(t)
         /\ DOMAIN s = 1 .. Len(s) /\ DOMAIN t = 1 .. Len(t)
         /\ DOMAIN (s \o t) = 1 .. (Len(s) + Len(t))
         /\ \A i \in 1 .. Len(s) : (s \o t)[i] = s[i]
         /\ \A i \in 1 .. Len(t) : (s \o t)[Len(s) + i] = t[i]
  OBVIOUS

-----------------------------------------------------------------------------
(* Counting occurrences *)

Hits(s, p, f) == {i \in DOMAIN s : s[i].player = p /\ s[i].frame = f /\ ~s[i].past}

\* Occurrences counts finitely many positions.
LEMMA HitsFinite ==
  ASSUME NEW m \in Nat, NEW s, DOMAIN s = 1 .. m, NEW p, NEW f
  PROVE  IsFiniteSet(Hits(s, p, f)) /\ Occurrences(s, p, f) = Cardinality(Hits(s, p, f))
         /\ Occurrences(s, p, f) \in Nat
<1>1. Hits(s, p, f) \in SUBSET Below(m + 1)
  BY DEF Hits, Below
<1>2. Occurrences(s, p, f) = Cardinality(Hits(s, p, f))
  BY Zenon DEF Occurrences, Hits
<1>3. m + 1 \in Nat
  OBVIOUS
<1>4. IsFiniteSet(Hits(s, p, f)) /\ Cardinality(Hits(s, p, f)) \in Nat
  BY <1>1, <1>3, BoundedFinite, Zenon
<1> QED
  BY <1>2, <1>4

\* Only who sent what when counts.
Alike(s, t) ==
  /\ DOMAIN s = DOMAIN t
  /\ \A i \in DOMAIN s : s[i].player = t[i].player /\ s[i].frame = t[i].frame /\ s[i].past = t[i].past

SameCounts(s, t) == \A p, f : Occurrences(s, p, f) = Occurrences(t, p, f)

\* Sequences alike in that have the same occurrences.
LEMMA SameOccurrences ==
  ASSUME NEW s, NEW t, Alike(s, t)
  PROVE  SameCounts(s, t)
<1> SUFFICES ASSUME NEW p, NEW f PROVE Occurrences(s, p, f) = Occurrences(t, p, f)
  BY DEF SameCounts
<1>1. {i \in DOMAIN s : s[i].player = p /\ s[i].frame = f /\ ~s[i].past}
        = {i \in DOMAIN t : t[i].player = p /\ t[i].frame = f /\ ~t[i].past}
  BY DEF Alike
<1> QED
  BY <1>1, Zenon DEF Occurrences

\* A sequence without a match has no occurrence.
LEMMA NoOccurrence ==
  ASSUME NEW s, NEW p, NEW f,
         \A i \in DOMAIN s : ~(s[i].player = p /\ s[i].frame = f /\ ~s[i].past)
  PROVE  Occurrences(s, p, f) = 0
<1>1. {i \in DOMAIN s : s[i].player = p /\ s[i].frame = f /\ ~s[i].past} = {}
  OBVIOUS
<1>2. Occurrences(s, p, f) = Cardinality({})
  BY <1>1, Zenon DEF Occurrences
<1> QED
  BY <1>2, FS_EmptySet

\* A single match is one occurrence.
LEMMA OneOccurrence ==
  ASSUME NEW s, NEW p, NEW f, NEW k \in DOMAIN s,
         s[k].player = p /\ s[k].frame = f /\ ~s[k].past,
         \A i \in DOMAIN s : s[i].player = p /\ s[i].frame = f /\ ~s[i].past => i = k
  PROVE  Occurrences(s, p, f) = 1
<1>1. {i \in DOMAIN s : s[i].player = p /\ s[i].frame = f /\ ~s[i].past} = {k}
  OBVIOUS
<1>2. Occurrences(s, p, f) = Cardinality({k})
  BY <1>1, Zenon DEF Occurrences
<1> QED
  BY <1>2, FS_Singleton, Zenon

\* u is s, of length m, followed by t, of length n.
Joined(u, s, m, t, n) ==
  /\ DOMAIN s = 1 .. m /\ DOMAIN t = 1 .. n /\ DOMAIN u = 1 .. (m + n)
  /\ \A i \in 1 .. m : u[i] = s[i]
  /\ \A i \in 1 .. n : u[m + i] = t[i]

\* The concatenation is.
LEMMA JoinedCat ==
  ASSUME NEW X, NEW s \in Seq(X), NEW t \in Seq(X)
  PROVE  /\ s \o t \in Seq(X) /\ Len(s) \in Nat /\ Len(t) \in Nat
         /\ Joined(s \o t, s, Len(s), t, Len(t))
  BY CatFacts DEF Joined

\* The occurrences in a concatenation add up.
LEMMA OccurrencesAdd ==
  ASSUME NEW m \in Nat, NEW n \in Nat, NEW s, NEW t, NEW u, Joined(u, s, m, t, n), NEW p, NEW f
  PROVE  Occurrences(u, p, f) = Occurrences(s, p, f) + Occurrences(t, p, f)
<1> USE DEF Joined
<1> DEFINE H == Hits(s, p, f)
           T == Hits(t, p, f)
           U == {m + i : i \in T}
           g == [i \in T |-> m + i]
<1>1. /\ IsFiniteSet(H) /\ IsFiniteSet(T)
      /\ Occurrences(s, p, f) = Cardinality(H) /\ Occurrences(t, p, f) = Cardinality(T)
  BY HitsFinite
<1>2. Occurrences(u, p, f) = Cardinality(Hits(u, p, f))
  <2>1. m + n \in Nat
    OBVIOUS
  <2> QED
    BY <2>1, HitsFinite
<1>3. H \subseteq 1 .. m /\ T \subseteq 1 .. n
  BY DEF Hits
<1>4. Hits(u, p, f) = H \cup U
  <2>1. ASSUME NEW i \in Hits(u, p, f) PROVE i \in H \cup U
    <3>1. i \in 1 .. (m + n) /\ u[i].player = p /\ u[i].frame = f /\ ~u[i].past
      BY <2>1 DEF Hits
    <3>2. CASE i <= m
      BY <3>1, <3>2 DEF Hits
    <3>3. CASE i > m
      <4>1. i - m \in 1 .. n /\ m + (i - m) = i
        BY <3>1, <3>3
      <4>2. u[i] = t[i - m]
        BY <4>1
      <4>3. i - m \in T
        BY <3>1, <4>1, <4>2 DEF Hits
      <4> QED
        BY <4>1, <4>3
    <3> QED
      BY <3>1, <3>2, <3>3
  <2>2. ASSUME NEW i \in H PROVE i \in Hits(u, p, f)
    <3>1. i \in 1 .. m /\ s[i].player = p /\ s[i].frame = f /\ ~s[i].past
      BY <2>2 DEF Hits
    <3>2. i \in 1 .. (m + n) /\ u[i] = s[i]
      BY <3>1
    <3> QED
      BY <3>1, <3>2 DEF Hits
  <2>3. ASSUME NEW i \in T PROVE m + i \in Hits(u, p, f)
    <3>1. i \in 1 .. n /\ t[i].player = p /\ t[i].frame = f /\ ~t[i].past
      BY <2>3 DEF Hits
    <3>2. m + i \in 1 .. (m + n) /\ u[m + i] = t[i]
      BY <3>1
    <3> QED
      BY <3>1, <3>2 DEF Hits
  <2> HIDE DEF H, T
  <2> QED
    BY <2>1, <2>2, <2>3
<1> HIDE DEF H, T
<1>5. g \in Bijection(T, U)
  BY <1>3 DEF Bijection, Injection, IsInjective, Surjection
<1>6. IsFiniteSet(U) /\ Cardinality(U) = Cardinality(T)
  <2> HIDE DEF g, U
  <2>1. ExistsBijection(T, U)
    BY <1>5, Zenon DEF ExistsBijection
  <2> QED
    BY <1>1, <2>1, FS_Bijection, Zenon
<1>7. H \cap U = {}
  BY <1>3
<1>8. Cardinality(H \cup U) = Cardinality(H) + Cardinality(U)
  <2> HIDE DEF U
  <2>1. Cardinality(H \cup U) = Cardinality(H) + Cardinality(U) - Cardinality({})
    BY <1>1, <1>6, <1>7, FS_Union
  <2> QED
    BY <1>1, <1>6, <2>1, FS_EmptySet, FS_CardinalityType
<1> QED
  BY <1>1, <1>2, <1>4, <1>6, <1>8

-----------------------------------------------------------------------------
(* What the sockets were sent, as far as the frames are concerned: s is the *)
(* stream, st the start, nr the next frame to release, e the epochs.        *)

Messages == [player : Players \cup {Server}, frame : Nat, sent : Nat \X Nat, past : BOOLEAN]
Inputs(t, e) == \A i \in DOMAIN t : t[i].player # Server /\ t[i].sent = e

ServersIn(s, n) == {i \in 1 .. n : s[i].player = Server}
FramesIn(s) ==
  LET order == Ascending(ServersIn(s, Len(s)))
  IN  [n \in DOMAIN order |-> s[order[n]].frame]

StreamOk(s, st, nr, e) ==
  /\ s \in Seq(Messages)
  /\ Cardinality(ServersIn(s, Len(s))) = nr - st
  /\ FramesIn(s) = [n \in 1 .. (nr - st) |-> st + n - 1]
  /\ \A i \in DOMAIN s : s[i].sent = e

PlacesOk(s, st) ==
  \A i \in DOMAIN s :
    \/ s[i].player = Server
    \/ s[i].frame < st + Cardinality(ServersIn(s, i - 1))
    \/ /\ s[i].frame = st + Cardinality(ServersIn(s, i - 1))
       /\ i < Len(s)
       /\ s[i + 1].frame = st + Cardinality(ServersIn(s, i - 1))

\* A restarted stream is in order.
LEMMA StreamEmpty ==
  ASSUME NEW st \in Nat, NEW e
  PROVE  StreamOk(<< >>, st, st, e) /\ PlacesOk(<< >>, st)
<1>1. Len(<< >>) = 0 /\ << >> \in Seq(Messages) /\ DOMAIN << >> = {}
  OBVIOUS
<1>2. ServersIn(<< >>, Len(<< >>)) = {}
  BY <1>1 DEF ServersIn
<1>3. {} \in SUBSET Below(0) /\ Cardinality({}) = 0
  BY FS_EmptySet
<1>4. Ascending({}) \in [1 .. 0 -> {}]
  BY <1>3, AscendingFacts
<1>5. FramesIn(<< >>) = [n \in 1 .. 0 |-> << >>[Ascending({})[n]].frame]
  BY <1>2, <1>4, Zenon DEF FramesIn
<1>6. FramesIn(<< >>) = [n \in 1 .. 0 |-> st + n - 1]
  BY <1>5
<1>7. st - st = 0
  OBVIOUS
<1> QED
  BY <1>1, <1>2, <1>3, <1>6, <1>7, Zenon DEF StreamOk, PlacesOk

\* Input messages behind a stream open no frame.
LEMMA ServersBehind ==
  ASSUME NEW s \in Seq(Messages), NEW t \in Seq(Messages),
         \A i \in DOMAIN t : t[i].player # Server
  PROVE  /\ \A n \in 0 .. Len(s) : ServersIn(s \o t, n) = ServersIn(s, n)
         /\ \A n \in Len(s) .. (Len(s) + Len(t)) : ServersIn(s \o t, n) = ServersIn(s, Len(s))
<1>1. PICK m \in Nat, k \in Nat : m = Len(s) /\ k = Len(t)
  OBVIOUS
<1>2. PICK u \in Seq(Messages) : u = s \o t
  BY CatFacts, Zenon
<1>3. /\ \A i \in 1 .. m : u[i] = s[i]
      /\ \A i \in 1 .. k : u[m + i] = t[i]
      /\ DOMAIN t = 1 .. k
  BY <1>1, <1>2, CatFacts
<1>4. ASSUME NEW n \in 0 .. m PROVE ServersIn(u, n) = ServersIn(s, n)
  <2>1. \A i \in 1 .. n : u[i] = s[i]
    BY <1>3
  <2> QED
    BY <2>1 DEF ServersIn
<1>5. ASSUME NEW n \in m .. (m + k) PROVE ServersIn(u, n) = ServersIn(s, m)
  <2>1. ASSUME NEW i \in 1 .. n, u[i].player = Server PROVE i \in 1 .. m
    <3> SUFFICES ASSUME i > m PROVE FALSE
      OBVIOUS
    <3>1. i - m \in 1 .. k /\ m + (i - m) = i
      OBVIOUS
    <3>2. u[i] = t[i - m]
      BY <1>3, <3>1
    <3> QED
      BY <1>3, <2>1, <3>1, <3>2, Zenon
  <2>2. \A i \in 1 .. m : i \in 1 .. n /\ u[i] = s[i]
    BY <1>3
  <2> QED
    BY <2>1, <2>2 DEF ServersIn
<1> QED
  BY <1>1, <1>2, <1>4, <1>5, Zenon

\* The positions of the frame messages are those of the stream.
LEMMA ServersBounded ==
  ASSUME NEW s, NEW n \in Nat
  PROVE  /\ n + 1 \in Nat /\ ServersIn(s, n) \in SUBSET Below(n + 1) /\ ServersIn(s, n) \subseteq 1 .. n
         /\ IsFiniteSet(ServersIn(s, n)) /\ Cardinality(ServersIn(s, n)) \in Nat
<1>1. n + 1 \in Nat /\ ServersIn(s, n) \in SUBSET Below(n + 1) /\ ServersIn(s, n) \subseteq 1 .. n
  BY DEF ServersIn, Below
<1> QED
  BY <1>1, BoundedFinite, Zenon

\* Input for released frames may follow at any time.
LEMMA StreamInputs ==
  ASSUME NEW st \in Nat, NEW nr \in Nat, st <= nr, NEW e, NEW s, NEW t \in Seq(Messages),
         StreamOk(s, st, nr, e), PlacesOk(s, st), Inputs(t, e),
         \A i \in DOMAIN t : t[i].frame < nr
  PROVE  StreamOk(s \o t, st, nr, e) /\ PlacesOk(s \o t, st)
<1>1. PICK m \in Nat, k \in Nat : m = Len(s) /\ k = Len(t)
  BY DEF StreamOk
<1>2. PICK u \in Seq(Messages) : u = s \o t
  BY CatFacts, Zenon DEF StreamOk
<1>3. /\ \A i \in 1 .. m : u[i] = s[i]
      /\ \A i \in 1 .. k : u[m + i] = t[i]
      /\ DOMAIN s = 1 .. m /\ DOMAIN t = 1 .. k /\ DOMAIN u = 1 .. (m + k) /\ Len(u) = m + k
  BY <1>1, <1>2, CatFacts DEF StreamOk
<1>4. /\ \A n \in 0 .. m : ServersIn(u, n) = ServersIn(s, n)
      /\ \A n \in m .. (m + k) : ServersIn(u, n) = ServersIn(s, m)
  BY <1>1, <1>2, ServersBehind, Zenon DEF StreamOk, Inputs
<1>5. ServersIn(u, Len(u)) = ServersIn(s, m) /\ Cardinality(ServersIn(s, m)) = nr - st
  BY <1>1, <1>3, <1>4 DEF StreamOk
<1>6. FramesIn(u) = FramesIn(s)
  <2>1. PICK order : order = Ascending(ServersIn(s, m))
    OBVIOUS
  <2>2. order \in [1 .. (nr - st) -> ServersIn(s, m)]
    BY <1>5, <2>1, ServersBounded, AscendingFacts, Zenon
  <2>3. \A n \in DOMAIN order : order[n] \in 1 .. m
    BY <2>2, ServersBounded, SMTT(30)
  <2>4. \A n \in DOMAIN order : u[order[n]].frame = s[order[n]].frame
    BY <1>3, <2>3
  <2>5. /\ FramesIn(u) = [n \in DOMAIN order |-> u[order[n]].frame]
        /\ FramesIn(s) = [n \in DOMAIN order |-> s[order[n]].frame]
    BY <1>1, <1>5, <2>1, Zenon DEF FramesIn
  <2> QED
    BY <2>4, <2>5
<1>7. \A i \in 1 .. (m + k) : i \in 1 .. m \/ (i - m \in 1 .. k /\ u[i] = t[i - m])
  <2> SUFFICES ASSUME NEW i \in 1 .. (m + k), i \notin 1 .. m PROVE i - m \in 1 .. k /\ u[i] = t[i - m]
    OBVIOUS
  <2>1. i - m \in 1 .. k /\ m + (i - m) = i
    OBVIOUS
  <2> QED
    BY <1>3, <2>1
<1>8. \A i \in DOMAIN u : u[i].sent = e
  <2> SUFFICES ASSUME NEW i \in 1 .. (m + k) PROVE u[i].sent = e
    BY <1>3
  <2>1. \A j \in 1 .. m : s[j].sent = e
    BY <1>3, Zenon DEF StreamOk
  <2>2. \A j \in 1 .. k : t[j].sent = e
    BY <1>3, Zenon DEF Inputs
  <2> QED
    BY <1>3, <1>7, <2>1, <2>2
<1>9. PlacesOk(u, st)
  <2> SUFFICES ASSUME NEW i \in 1 .. (m + k)
               PROVE  \/ u[i].player = Server
                      \/ u[i].frame < st + Cardinality(ServersIn(u, i - 1))
                      \/ /\ u[i].frame = st + Cardinality(ServersIn(u, i - 1))
                         /\ i < m + k
                         /\ u[i + 1].frame = st + Cardinality(ServersIn(u, i - 1))
    BY <1>3, Zenon DEF PlacesOk
  <2>1. CASE i \in 1 .. m
    <3>1. i - 1 \in 0 .. m /\ (i < m => i + 1 \in 1 .. m)
      BY <2>1
    <3>2. ServersIn(u, i - 1) = ServersIn(s, i - 1) /\ u[i] = s[i] /\ (i < m => u[i + 1] = s[i + 1])
      BY <1>3, <1>4, <2>1, <3>1
    <3>3. i < m => i < m + k
      OBVIOUS
    <3> QED
      BY <1>1, <1>3, <2>1, <3>2, <3>3, Zenon DEF PlacesOk
  <2>2. CASE i \notin 1 .. m
    <3>1. i - m \in 1 .. k /\ u[i] = t[i - m] /\ i - 1 \in m .. (m + k)
      BY <1>7, <2>2
    <3>2. Cardinality(ServersIn(u, i - 1)) = nr - st
      BY <1>4, <1>5, <3>1
    <3>3. u[i].frame < nr
      BY <1>3, <3>1, Zenon
    <3>4. st + (nr - st) = nr
      OBVIOUS
    <3> QED
      BY <3>2, <3>3, <3>4
  <2> QED
    BY <2>1, <2>2
<1> QED
  BY <1>2, <1>5, <1>6, <1>8, <1>9 DEF StreamOk
\* A place in the first part of a longer sequence.
LEMMA EarlierPlace ==
  ASSUME NEW m \in Nat, NEW k \in Nat, NEW i \in 1 .. m
  PROVE  i - 1 \in 0 .. m /\ i - 1 \in 0 .. (m + k) /\ i < m + k + 1
  OBVIOUS

\* A release: the input of the frame, then the frame.
LEMMA StreamRelease ==
  ASSUME NEW st \in Nat, NEW nr \in Nat, st <= nr, NEW e, NEW s, NEW t \in Seq(Messages),
         NEW x \in Messages, x.player = Server, x.frame = nr, x.sent = e,
         StreamOk(s, st, nr, e), PlacesOk(s, st), Inputs(t, e),
         \A i \in DOMAIN t : t[i].frame = nr
  PROVE  /\ StreamOk((s \o t) \o <<x>>, st, nr + 1, e) /\ PlacesOk((s \o t) \o <<x>>, st)
<1>1. PICK m \in Nat, k \in Nat : m = Len(s) /\ k = Len(t)
  <2>1. s \in Seq(Messages)
    BY Zenon DEF StreamOk
  <2>2. Len(s) \in Nat /\ Len(t) \in Nat
    BY <2>1, CatFacts, Zenon
  <2> QED
    BY <2>2, Zenon
<1>2. PICK u \in Seq(Messages) : u = s \o t
  BY CatFacts, Zenon DEF StreamOk
<1>3. /\ \A i \in 1 .. m : u[i] = s[i]
      /\ \A i \in 1 .. k : u[m + i] = t[i]
      /\ DOMAIN s = 1 .. m /\ DOMAIN t = 1 .. k /\ Len(u) = m + k
  BY <1>1, <1>2, CatFacts DEF StreamOk
<1>4. PICK w \in Seq(Messages) : w = u \o <<x>>
  <2>1. <<x>> \in Seq(Messages)
    OBVIOUS
  <2> QED
    BY <2>1, CatFacts, Zenon
<1>5. PICK z \in Nat : z = m + k + 1
  OBVIOUS
<1>6. /\ \A i \in 1 .. (m + k) : w[i] = u[i]
      /\ w[z] = x /\ Len(w) = z /\ DOMAIN w = 1 .. z
  BY <1>3, <1>4, <1>5
<1>7. /\ \A n \in 0 .. m : ServersIn(u, n) = ServersIn(s, n)
      /\ \A n \in m .. (m + k) : ServersIn(u, n) = ServersIn(s, m)
  BY <1>1, <1>2, ServersBehind, Zenon DEF StreamOk, Inputs
<1>8. \A n \in 0 .. (m + k) : ServersIn(w, n) = ServersIn(u, n)
  <2> SUFFICES ASSUME NEW n \in 0 .. (m + k) PROVE ServersIn(w, n) = ServersIn(u, n)
    OBVIOUS
  <2>1. \A i \in 1 .. n : w[i] = u[i]
    BY <1>6
  <2> QED
    BY <2>1 DEF ServersIn
<1>9. PICK S : S = ServersIn(s, m)
  OBVIOUS
<1>10. /\ S \in SUBSET Below(m + 1) /\ m + 1 \in Nat /\ S \subseteq 1 .. m
       /\ Cardinality(S) = nr - st /\ nr - st \in Nat
  BY <1>1, <1>9, ServersBounded DEF StreamOk
<1>11. ServersIn(w, z) = S \cup {z}
  <2>1. ServersIn(w, z) = ServersIn(w, m + k) \cup {z}
    <3>1. PICK y \in Nat : y = m + k /\ z = y + 1
      BY <1>5
    <3>2. \A i : i \in 1 .. (y + 1) <=> (i \in 1 .. y \/ i = y + 1)
      OBVIOUS
    <3> QED
      BY <1>6, <3>1, <3>2 DEF ServersIn
  <2>2. ServersIn(w, m + k) = ServersIn(u, m + k)
    BY <1>8
  <2>3. ServersIn(u, m + k) = S
    BY <1>7, <1>9
  <2> QED
    BY <2>1, <2>2, <2>3
<1>12. PICK c \in Nat : c = nr - st
  BY <1>10
<1>13. PICK old, new : old = Ascending(S) /\ new = Ascending(S \cup {z})
  OBVIOUS
<1>14. /\ Cardinality(S \cup {z}) = c + 1
       /\ new \in [1 .. (c + 1) -> S \cup {z}]
       /\ new[c + 1] = z
       /\ \A i \in 1 .. c : new[i] = old[i]
  <2>1. PICK y \in Nat : y = m + 1
    OBVIOUS
  <2>3. y <= z /\ c = Cardinality(S) /\ S \in SUBSET Below(y)
    BY <1>5, <1>10, <1>12, <2>1
  <2>4. ListedLast(S, z, c)
    BY <2>3, AscendingAdd, Zenon
  <2> QED
    BY <1>13, <2>4, Zenon DEF ListedLast
<1>15. old \in [1 .. c -> S]
  BY <1>10, <1>12, <1>13, AscendingFacts, Zenon
<1>16. FramesIn(w) = [n \in 1 .. (c + 1) |-> st + n - 1]
  <2>1. DOMAIN new = 1 .. (c + 1) /\ DOMAIN old = 1 .. c
    BY <1>14, <1>15
  <2>2. FramesIn(w) = [n \in 1 .. (c + 1) |-> w[new[n]].frame]
    BY <1>6, <1>11, <1>13, <2>1, Zenon DEF FramesIn
  <2>3. FramesIn(s) = [n \in 1 .. c |-> s[old[n]].frame]
    BY <1>1, <1>9, <1>13, <2>1, Zenon DEF FramesIn
  <2>4. FramesIn(s) = [n \in 1 .. c |-> st + n - 1]
    BY <1>12, Zenon DEF StreamOk
  <2>5. \A n \in 1 .. c : s[old[n]].frame = st + n - 1
    BY <2>3, <2>4
  <2>6. ASSUME NEW n \in 1 .. (c + 1) PROVE w[new[n]].frame = st + n - 1
    <3>1. CASE n = c + 1
      BY <1>6, <1>12, <1>14, <3>1
    <3>2. CASE n # c + 1
      <4>1. n \in 1 .. c
        BY <3>2
      <4>2. old[n] \in 1 .. m /\ new[n] = old[n]
        BY <1>10, <1>14, <1>15, <4>1, Zenon
      <4>3. old[n] \in 1 .. (m + k)
        BY <4>2
      <4>4. w[new[n]] = s[old[n]]
        BY <1>3, <1>6, <4>2, <4>3
      <4> QED
        BY <2>5, <4>1, <4>4
    <3> QED
      BY <3>1, <3>2
  <2> QED
    BY <2>2, <2>6
<1>17. \A i \in 1 .. z : \/ i \in 1 .. m /\ w[i] = s[i]
                         \/ i - m \in 1 .. k /\ w[i] = t[i - m]
                         \/ i = z
  <2> SUFFICES ASSUME NEW i \in 1 .. z, i \notin 1 .. m, i # z PROVE i - m \in 1 .. k /\ w[i] = t[i - m]
    <3>1. \A i \in 1 .. m : w[i] = s[i]
      BY <1>3, <1>6
    <3> QED
      BY <3>1
  <2>1. i - m \in 1 .. k /\ m + (i - m) = i /\ i \in 1 .. (m + k)
    BY <1>5
  <2> QED
    BY <1>3, <1>6, <2>1
<1>18. \A i \in DOMAIN w : w[i].sent = e
  <2> SUFFICES ASSUME NEW i \in 1 .. z PROVE w[i].sent = e
    BY <1>6
  <2>1. \A j \in 1 .. m : s[j].sent = e
    BY <1>3, Zenon DEF StreamOk
  <2>2. \A j \in 1 .. k : t[j].sent = e
    BY <1>3, Zenon DEF Inputs
  <2> QED
    BY <1>6, <1>17, <2>1, <2>2, Zenon
<1>19. PlacesOk(w, st)
  <2> SUFFICES ASSUME NEW i \in 1 .. z
               PROVE  \/ w[i].player = Server
                      \/ w[i].frame < st + Cardinality(ServersIn(w, i - 1))
                      \/ /\ w[i].frame = st + Cardinality(ServersIn(w, i - 1))
                         /\ i < z
                         /\ w[i + 1].frame = st + Cardinality(ServersIn(w, i - 1))
    BY <1>6, Zenon DEF PlacesOk
  <2>1. CASE i \in 1 .. m /\ w[i] = s[i]
    <3>1. i - 1 \in 0 .. m /\ i - 1 \in 0 .. (m + k) /\ i < z
      <4>1. i < m + k + 1
        BY <2>1, EarlierPlace, Zenon
      <4> QED
        BY <1>5, <2>1, <4>1, EarlierPlace, Zenon
    <3>2. ServersIn(w, i - 1) = ServersIn(s, i - 1)
      BY <1>7, <1>8, <3>1, Zenon
    <3>3. ASSUME i < m PROVE w[i + 1] = s[i + 1]
      <4>1. i + 1 \in 1 .. m /\ i + 1 \in 1 .. (m + k)
        BY <2>1, <3>3, SMTT(30)
      <4> QED
        BY <1>3, <1>6, <4>1
    <3>4. i \in DOMAIN s
      BY <1>3, <2>1
    <3>5. \/ s[i].player = Server
          \/ s[i].frame < st + Cardinality(ServersIn(s, i - 1))
          \/ /\ s[i].frame = st + Cardinality(ServersIn(s, i - 1))
             /\ i < m
             /\ s[i + 1].frame = st + Cardinality(ServersIn(s, i - 1))
      BY <1>1, <3>4, Zenon DEF PlacesOk
    <3> QED
      BY <2>1, <3>1, <3>2, <3>3, <3>5, Zenon
  <2>2. CASE i - m \in 1 .. k /\ w[i] = t[i - m]
    <3>0. i - m \in 1 .. k
      BY <2>2
    <3>1. i - 1 \in m .. (m + k) /\ i - 1 \in 0 .. (m + k) /\ i < z /\ i + 1 \in 1 .. z /\ i >= m
      BY <1>5, <3>0
    <3>2. Cardinality(ServersIn(w, i - 1)) = nr - st
      BY <1>7, <1>8, <1>9, <1>10, <3>1, SMTT(30)
    <3>3. w[i].frame = nr
      BY <1>3, <2>2
    <3>4. w[i + 1].frame = nr
      <4>1. CASE i + 1 = z
        BY <1>6, <4>1
      <4>2. CASE i + 1 # z
        <5>1. i + 1 \notin 1 .. m
          BY <3>1
        <5>2. (i + 1) - m \in 1 .. k /\ w[i + 1] = t[(i + 1) - m]
          BY <1>17, <3>1, <4>2, <5>1, Zenon
        <5> QED
          BY <1>3, <5>2, SMTT(30)
      <4> QED
        BY <4>1, <4>2
    <3>5. st + (nr - st) = nr
      OBVIOUS
    <3> QED
      BY <3>1, <3>2, <3>3, <3>4, <3>5
  <2>3. CASE i = z
    BY <1>6, <2>3
  <2> QED
    BY <1>17, <2>1, <2>2, <2>3
<1>20. (nr + 1) - st = c + 1
  BY <1>12
<1> QED
  BY <1>2, <1>4, <1>6, <1>11, <1>14, <1>16, <1>18, <1>19, <1>20, Zenon DEF StreamOk

-----------------------------------------------------------------------------
(* The inductive invariant.  What the counting rests on: a cursor is past   *)
(* every frame taken from its player and never before the start, so a taken *)
(* frame is new; and whatever a buffer holds was pushed for the epochs the  *)
(* buffer is for, so the frame clock drains all of it or none of it.        *)

Entries == [player : Players, frame : Frames, epochs : Nat \X Nat, sent : Nat \X Nat, past : BOOLEAN]

\* What a buffer has for one frame belongs to that frame and to the epochs e.
Holds(b, e) ==
  /\ b \in [Kinds -> [Frames -> Seq(Entries)]]
  /\ \A k \in Kinds : \A f \in Frames : \A i \in DOMAIN b[k][f] :
       b[k][f][i].frame = f /\ b[k][f][i].epochs = e /\ b[k][f][i].sent = e

CursorsInv ==
  /\ start <= nextRelease
  /\ accepted \in [Players -> SUBSET Frames]
  /\ \A p \in Players : start <= nextIn[p]
  /\ \A p \in Players \ dropped : \A f \in accepted[p] : f < nextIn[p]

BufferInv == Holds(buffer, bufEpochs)

CountInv ==
  \A p \in Players \ dropped : \A f \in Frames :
    /\ Occurrences(stream, p, f) = IF f \in accepted[p] /\ f < nextRelease THEN 1 ELSE 0
    /\ Occurrences(Synchronized["legacy"][f], p, f) + Occurrences(Synchronized["fast"][f], p, f)
         = IF f \in accepted[p] /\ f >= nextRelease THEN 1 ELSE 0

RelayInv ==
  /\ RelayTypeOK /\ CursorsInv /\ BufferInv /\ CountInv
  /\ StreamOk(stream, start, nextRelease, epochs) /\ PlacesOk(stream, start)


-----------------------------------------------------------------------------
(* The buffers *)

\* Empty buffers hold nothing of other epochs.
LEMMA HoldsNothing ==
  ASSUME NEW e PROVE Holds(NoBuffer, e)
<1>1. << >> \in Seq(Entries) /\ DOMAIN << >> = {}
  OBVIOUS
<1>2. NoBuffer \in [Kinds -> [Frames -> Seq(Entries)]]
  BY <1>1, Zenon DEF NoBuffer
<1>3. \A k \in Kinds : \A f \in Frames : NoBuffer[k][f] = << >>
  BY Zenon DEF NoBuffer
<1> QED
  BY <1>1, <1>2, <1>3, Zenon DEF Holds

\* synchronize_input_runtime_epoch leaves entries of the current epochs only.
LEMMA SynchronizedHolds ==
  ASSUME BufferInv PROVE Holds(Synchronized, epochs)
<1>1. CASE bufEpochs = epochs
  BY <1>1, Zenon DEF BufferInv, Holds, Synchronized
<1>2. CASE bufEpochs # epochs
  BY <1>2, HoldsNothing, Zenon DEF Synchronized
<1> QED
  BY <1>1, <1>2

\* So drain_frame of either buffer leaves nothing behind.
LEMMA ReadyIsAll ==
  ASSUME NEW b, Holds(b, epochs), NEW f \in Frames
  PROVE  LegacyReady(b, f) = b["legacy"][f] /\ FastReady(b, f) = b["fast"][f]
<1>1. "legacy" \in Kinds /\ "fast" \in Kinds
  BY DEF Kinds
<1>2. b["legacy"][f] \in Seq(Entries) /\ b["fast"][f] \in Seq(Entries)
  BY <1>1 DEF Holds
<1>3. {i \in DOMAIN b["legacy"][f] : b["legacy"][f][i].epochs = epochs} = DOMAIN b["legacy"][f]
  <2>1. \A i \in DOMAIN b["legacy"][f] : b["legacy"][f][i].epochs = epochs
    BY <1>1, Zenon DEF Holds
  <2> QED
    BY <2>1, Zenon
<1>4. {i \in DOMAIN b["fast"][f] : b["fast"][f][i].sent = epochs} = DOMAIN b["fast"][f]
  <2>1. \A i \in DOMAIN b["fast"][f] : b["fast"][f][i].sent = epochs
    BY <1>1, Zenon DEF Holds
  <2> QED
    BY <2>1, Zenon
<1>5. LegacyReady(b, f) = b["legacy"][f]
  BY <1>2, <1>3, AtAll, Zenon DEF LegacyReady
<1>6. FastReady(b, f) = b["fast"][f]
  BY <1>2, <1>4, AtAll, Zenon DEF FastReady
<1> QED
  BY <1>5, <1>6

\* A restart keeps what is buffered, as input of the past.
LEMMA AgedFacts ==
  ASSUME NEW b, NEW e, Holds(b, e)
  PROVE  /\ Holds(Aged(b), e)
         /\ \A k \in Kinds : \A f \in Frames : \A i \in DOMAIN Aged(b)[k][f] : Aged(b)[k][f][i].past
<1>1. ASSUME NEW k \in Kinds, NEW f \in Frames
      PROVE  /\ Aged(b)[k][f] \in Seq(Entries)
             /\ \A i \in DOMAIN Aged(b)[k][f] :
                  /\ Aged(b)[k][f][i].frame = f /\ Aged(b)[k][f][i].epochs = e
                  /\ Aged(b)[k][f][i].sent = e /\ Aged(b)[k][f][i].past
  <2>1. PICK s \in Seq(Entries) : s = b[k][f]
    BY Zenon DEF Holds
  <2>2. PICK n \in Nat : n = Len(s) /\ DOMAIN s = 1 .. n
    OBVIOUS
  <2>3. Aged(b)[k][f] = [i \in 1 .. n |-> [s[i] EXCEPT !.past = TRUE]]
    BY <2>1, <2>2, Zenon DEF Aged
  <2>4. \A i \in 1 .. n : s[i] \in Entries /\ s[i].frame = f /\ s[i].epochs = e /\ s[i].sent = e
    <3>0. \A i \in DOMAIN b[k][f] : b[k][f][i].frame = f /\ b[k][f][i].epochs = e /\ b[k][f][i].sent = e
      BY Zenon DEF Holds
    <3>1. \A i \in 1 .. n : s[i].frame = f /\ s[i].epochs = e /\ s[i].sent = e
      BY <2>1, <2>2, <3>0
    <3>2. \A i \in 1 .. n : s[i] \in Entries
      BY <2>2
    <3> QED
      BY <3>1, <3>2, Zenon
  <2>5. \A r \in Entries : /\ [r EXCEPT !.past = TRUE] \in Entries
                           /\ [r EXCEPT !.past = TRUE].frame = r.frame
                           /\ [r EXCEPT !.past = TRUE].epochs = r.epochs
                           /\ [r EXCEPT !.past = TRUE].sent = r.sent
                           /\ [r EXCEPT !.past = TRUE].past
    BY Zenon DEF Entries
  <2>6. PICK t : t = [i \in 1 .. n |-> [s[i] EXCEPT !.past = TRUE]]
    BY Zenon
  <2>7. /\ DOMAIN t = 1 .. n
        /\ \A i \in 1 .. n : /\ t[i] \in Entries /\ t[i].frame = f /\ t[i].epochs = e
                             /\ t[i].sent = e /\ t[i].past
    BY <2>4, <2>5, <2>6, Zenon
  <2>8. t \in Seq(Entries)
    BY <2>6, <2>7
  <2> QED
    BY <2>3, <2>6, <2>7, <2>8, Zenon
<1>2. Aged(b) \in [Kinds -> [Frames -> Seq(Entries)]]
  <2>1. \A k \in Kinds : Aged(b)[k] \in [Frames -> Seq(Entries)]
    BY <1>1, Zenon DEF Aged
  <2> QED
    BY <2>1, Zenon DEF Aged
<1> QED
  BY <1>1, <1>2, Zenon DEF Holds

-----------------------------------------------------------------------------
(* The initial state, the steps that leave the relay alone, the restarts *)

\* A new room: nothing taken, nothing sent.
LEMMA RelayInitially == Init => RelayInv
<1> SUFFICES ASSUME Init PROVE RelayInv
  OBVIOUS
<1>1. RelayTypeOK
  <2>1. delay \in Delays
    BY RelayAssumption, Zenon DEF Init
  <2>2. /\ status = "Setup" /\ due = "none" /\ epochs = <<1, 1>> /\ bufEpochs = <<1, 1>>
        /\ sock = [p \in Players |-> "control"] /\ start = 0 /\ nextRelease = 0
        /\ nextIn = [p \in Players |-> 0] /\ lastIn = [p \in Players |-> -1] /\ pause = NoPause
    BY DEF Init
  <2> QED
    BY <2>1, <2>2 DEF RelayTypeOK, NoPause
<1>2. CursorsInv
  <2>1. /\ start = 0 /\ nextRelease = 0 /\ nextIn = [p \in Players |-> 0]
        /\ accepted = [p \in Players |-> {}]
    BY DEF Init
  <2> QED
    BY <2>1 DEF CursorsInv
<1>3. BufferInv
  BY HoldsNothing DEF Init, BufferInv
<1>4. CountInv
  <2> SUFFICES ASSUME NEW p \in Players, NEW f \in Frames
               PROVE  /\ Occurrences(stream, p, f) = 0 /\ f \notin accepted[p]
                      /\ Occurrences(Synchronized["legacy"][f], p, f) = 0
                      /\ Occurrences(Synchronized["fast"][f], p, f) = 0
    BY DEF CountInv
  <2>1. stream = << >> /\ Synchronized = NoBuffer /\ f \notin accepted[p]
    BY Zenon DEF Init, Synchronized
  <2>2. NoBuffer["legacy"][f] = << >> /\ NoBuffer["fast"][f] = << >>
    BY DEF NoBuffer, Kinds
  <2>3. Occurrences(<< >>, p, f) = 0
    BY NoOccurrence
  <2> QED
    BY <2>1, <2>2, <2>3
<1>5. StreamOk(stream, start, nextRelease, epochs) /\ PlacesOk(stream, start)
  BY StreamEmpty DEF Init
<1> QED
  BY <1>1, <1>2, <1>3, <1>4, <1>5 DEF RelayInv

\* What a step that leaves the cursors, the buffers and the stream alone preserves.
RestInv ==
  /\ CursorsInv /\ BufferInv /\ CountInv
  /\ StreamOk(stream, start, nextRelease, epochs) /\ PlacesOk(stream, start)

\* A step that leaves the relay alone keeps its invariant.
LEMMA QuietStep ==
  ASSUME RelayInv, UNCHANGED <<epochs, start, nextRelease, nextIn, accepted, dropped,
                               buffer, bufEpochs, stream>>
  PROVE  RestInv'
<1>1. CursorsInv' /\ BufferInv'
  BY DEF RelayInv, CursorsInv, BufferInv
<1>2. CountInv'
  BY DEF RelayInv, CountInv, Synchronized
<1>3. (StreamOk(stream, start, nextRelease, epochs) /\ PlacesOk(stream, start))'
  BY DEF RelayInv
<1> QED
  BY <1>1, <1>2, <1>3 DEF RestInv

\* reset_sync_state_to starts over: what is buffered belongs to the past.
LEMMA ResetStep ==
  ASSUME RelayInv, NEW g \in Nat, ResetSync(g)
  PROVE  RestInv'
<1>1. /\ start' = g /\ nextRelease' = g /\ nextIn' = [p \in Players |-> g]
      /\ stream' = << >> /\ accepted' = [p \in Players |-> {}] /\ dropped' = {}
      /\ buffer' = Aged(buffer) /\ bufEpochs' = bufEpochs
  BY DEF ResetSync
<1>2. CursorsInv'
  BY <1>1 DEF CursorsInv
<1>3. /\ Holds(buffer', bufEpochs')
      /\ \A k \in Kinds : \A f \in Frames : \A i \in DOMAIN buffer'[k][f] : buffer'[k][f][i].past
  <2>1. Holds(buffer, bufEpochs)
    BY DEF RelayInv, BufferInv
  <2> QED
    BY <1>1, <2>1, AgedFacts
<1>4. BufferInv'
  BY <1>3 DEF BufferInv
<1>5. CountInv'
  <2> SUFFICES ASSUME NEW p \in Players, NEW f \in Frames
               PROVE  /\ Occurrences(stream', p, f) = 0 /\ f \notin accepted'[p]
                      /\ Occurrences(Synchronized'["legacy"][f], p, f) = 0
                      /\ Occurrences(Synchronized'["fast"][f], p, f) = 0
    BY DEF CountInv
  <2>1. stream' = << >> /\ f \notin accepted'[p]
    BY <1>1, Zenon
  <2>2. Synchronized' = buffer' \/ Synchronized' = NoBuffer
    BY Zenon DEF Synchronized
  <2>3. Occurrences(<< >>, p, f) = 0
    BY NoOccurrence
  <2>4. NoBuffer["legacy"][f] = << >> /\ NoBuffer["fast"][f] = << >>
    BY DEF NoBuffer, Kinds
  <2>5. Occurrences(buffer'["legacy"][f], p, f) = 0 /\ Occurrences(buffer'["fast"][f], p, f) = 0
    <3>1. "legacy" \in Kinds /\ "fast" \in Kinds
      BY DEF Kinds
    <3>2. \A k \in Kinds : Occurrences(buffer'[k][f], p, f) = 0
      BY <1>3, NoOccurrence, Zenon
    <3> QED
      BY <3>1, <3>2
  <2> QED
    BY <2>1, <2>2, <2>3, <2>4, <2>5
<1>6. (StreamOk(stream, start, nextRelease, epochs) /\ PlacesOk(stream, start))'
  BY <1>1, StreamEmpty
<1> QED
  BY <1>2, <1>4, <1>5, <1>6 DEF RestInv

-----------------------------------------------------------------------------
(* An accepted batch *)

Entry(p, f, e) == [player |-> p, frame |-> f, epochs |-> e, sent |-> e, past |-> FALSE]

\* One message more.
LEMMA OccurrenceAppended ==
  ASSUME NEW X, NEW s \in Seq(X), NEW x \in X, NEW p, NEW f
  PROVE  Occurrences(Append(s, x), p, f)
           = Occurrences(s, p, f) + (IF x.player = p /\ x.frame = f /\ ~x.past THEN 1 ELSE 0)
<1>1. PICK m \in Nat : m = Len(s) /\ DOMAIN s = 1 .. m
  OBVIOUS
<1>2. PICK u, t : u = Append(s, x) /\ t = <<x>>
  BY Zenon
<1>3. /\ DOMAIN u = 1 .. (m + 1) /\ (\A i \in 1 .. m : u[i] = s[i]) /\ u[m + 1] = x
  BY <1>1, <1>2
<1>4. DOMAIN t = 1 .. 1 /\ t[1] = x /\ \A i \in 1 .. 1 : u[m + i] = t[i]
  BY <1>2, <1>3
<1>5. Occurrences(u, p, f) = Occurrences(s, p, f) + Occurrences(t, p, f)
  <2>1. 1 \in Nat /\ Joined(u, s, m, t, 1)
    BY <1>1, <1>3, <1>4 DEF Joined
  <2> QED
    BY <2>1, OccurrencesAdd
<1>6. \A i \in DOMAIN t : i = 1
  BY <1>4
<1>7. CASE x.player = p /\ x.frame = f /\ ~x.past
  <2>1. 1 \in DOMAIN t
    BY <1>4
  <2>2. Occurrences(t, p, f) = 1
    BY <1>4, <1>6, <1>7, <2>1, OneOccurrence, Zenon
  <2> QED
    BY <1>2, <1>5, <1>7, <2>2
<1>8. CASE ~(x.player = p /\ x.frame = f /\ ~x.past)
  <2>1. Occurrences(t, p, f) = 0
    BY <1>4, <1>6, <1>8, NoOccurrence, Zenon
  <2> QED
    BY <1>2, <1>5, <1>8, <2>1
<1> QED
  BY <1>7, <1>8

\* The frames of a batch that are taken, and the newest of them.
LEMMA TakenFacts ==
  ASSUME RelayTypeOK, NEW p \in Players, NEW batch \in Batches
  PROVE  /\ Taken(p, batch) \in SUBSET Frames /\ MaxFrame + 1 \in Nat
         /\ \A f \in Taken(p, batch) : f >= nextIn[p]
         /\ Frames \in SUBSET Below(MaxFrame + 1)
         /\ Taken(p, batch) # {} =>
              /\ Max(Taken(p, batch)) \in Taken(p, batch)
              /\ \A f \in Taken(p, batch) : f <= Max(Taken(p, batch))
<1>1. PICK n \in 1 .. BatchLen : batch \in [1 .. n -> Frames]
  BY Zenon DEF Batches
<1>2. \A f \in Taken(p, batch) : \E i \in DOMAIN batch : f = batch[i] /\ f >= nextIn[p]
  BY Zenon DEF Taken
<1>3. Taken(p, batch) \in SUBSET Frames /\ \A f \in Taken(p, batch) : f >= nextIn[p]
  BY <1>1, <1>2
<1>4. MaxFrame + 1 \in Nat /\ Frames \in SUBSET Below(MaxFrame + 1)
  BY RelayAssumption DEF Frames, Below
<1>5. Taken(p, batch) \in SUBSET Below(MaxFrame + 1)
  BY <1>3, <1>4, Zenon
<1>6. Taken(p, batch) # {} =>
              /\ Max(Taken(p, batch)) \in Taken(p, batch)
              /\ \A f \in Taken(p, batch) : f <= Max(Taken(p, batch))
  BY <1>4, <1>5, Largest
<1> QED
  BY <1>3, <1>4, <1>6

\* c is b with one entry of p more in the buffer kind for each of the frames.
OneMore(c, b, kind, frames, p) ==
  \A k \in Kinds : \A f \in Frames : \A q \in Players :
    Occurrences(c[k][f], q, f)
      = Occurrences(b[k][f], q, f) + (IF k = kind /\ f \in frames /\ q = p THEN 1 ELSE 0)

\* push
LEMMA PushedFacts ==
  ASSUME NEW b, Holds(b, epochs), NEW kind \in Kinds, NEW frames, NEW p \in Players,
         epochs \in Nat \X Nat, NEW entry, entry = [f \in Frames |-> Entry(p, f, epochs)]
  PROVE  /\ Holds(Pushed(b, kind, frames, entry), epochs)
         /\ OneMore(Pushed(b, kind, frames, entry), b, kind, frames, p)
<1>1. PICK c : c = Pushed(b, kind, frames, entry)
  OBVIOUS
<1>2. b \in [Kinds -> [Frames -> Seq(Entries)]]
  BY DEF Holds
<1>3. /\ c \in [Kinds -> [Frames -> Seq(Entries)]]
      /\ \A k \in Kinds : \A f \in Frames :
           c[k][f] = IF k = kind /\ f \in frames THEN Append(b[k][f], Entry(p, f, epochs)) ELSE b[k][f]
  <2>1. c = [b EXCEPT ![kind] = [f \in Frames |-> IF f \in frames THEN Append(b[kind][f], entry[f]) ELSE b[kind][f]]]
    BY <1>1, <1>2, Zenon DEF Pushed
  <2>2. PICK g : g = [f \in Frames |-> IF f \in frames THEN Append(b[kind][f], entry[f]) ELSE b[kind][f]]
    BY Zenon
  <2>3. \A f \in Frames : Entry(p, f, epochs) \in Entries /\ entry[f] = Entry(p, f, epochs)
    BY DEF Entry, Entries
  <2>4. \A s \in Seq(Entries) : \A x \in Entries : Append(s, x) \in Seq(Entries)
    OBVIOUS
  <2>5. /\ g \in [Frames -> Seq(Entries)]
        /\ \A f \in Frames : g[f] = IF f \in frames THEN Append(b[kind][f], Entry(p, f, epochs)) ELSE b[kind][f]
    BY <1>2, <2>2, <2>3, <2>4, Zenon
  <2>6. /\ c \in [Kinds -> [Frames -> Seq(Entries)]]
        /\ c[kind] = g /\ \A k \in Kinds : k # kind => c[k] = b[k]
    BY <1>2, <2>1, <2>2, <2>5
  <2> QED
    BY <2>5, <2>6, Zenon
<1>4. ASSUME NEW k \in Kinds, NEW f \in Frames
      PROVE  /\ \A i \in DOMAIN c[k][f] :
                  c[k][f][i].frame = f /\ c[k][f][i].epochs = epochs /\ c[k][f][i].sent = epochs
             /\ \A q \in Players : Occurrences(c[k][f], q, f)
                  = Occurrences(b[k][f], q, f) + (IF k = kind /\ f \in frames /\ q = p THEN 1 ELSE 0)
  <2>1. PICK s \in Seq(Entries) : s = b[k][f]
    BY <1>2, Zenon
  <2>2. \A i \in DOMAIN s : s[i].frame = f /\ s[i].epochs = epochs /\ s[i].sent = epochs
    BY <2>1, Zenon DEF Holds
  <2>3. \A q \in Players : Occurrences(s, q, f) \in Nat
    BY HitsFinite
  <2>4. CASE k = kind /\ f \in frames
    <3>1. PICK x \in Entries : x = Entry(p, f, epochs)
      BY Zenon DEF Entry, Entries
    <3>2. c[k][f] = Append(s, x)
      BY <1>3, <2>1, <2>4, <3>1, Zenon
    <3>3. x.player = p /\ x.frame = f /\ x.epochs = epochs /\ x.sent = epochs /\ ~x.past
      BY <3>1 DEF Entry
    <3>4. \A i \in DOMAIN Append(s, x) : \/ i \in DOMAIN s /\ Append(s, x)[i] = s[i]
                                       \/ Append(s, x)[i] = x
      BY SMTT(30)
    <3>5. \A i \in DOMAIN c[k][f] :
            c[k][f][i].frame = f /\ c[k][f][i].epochs = epochs /\ c[k][f][i].sent = epochs
      BY <2>2, <3>2, <3>3, <3>4, Zenon
    <3>6. \A q \in Players : Occurrences(Append(s, x), q, f)
            = Occurrences(s, q, f) + (IF x.player = q /\ x.frame = f /\ ~x.past THEN 1 ELSE 0)
      BY OccurrenceAppended, ZenonT(40)
    <3>7. ASSUME NEW q \in Players
          PROVE  Occurrences(c[k][f], q, f)
            = Occurrences(b[k][f], q, f) + (IF k = kind /\ f \in frames /\ q = p THEN 1 ELSE 0)
      <4>1. (x.player = q /\ x.frame = f /\ ~x.past) <=> (k = kind /\ f \in frames /\ q = p)
        BY <2>4, <3>3, Zenon
      <4> QED
        BY <2>1, <3>2, <3>6, <4>1, Zenon
    <3> QED
      BY <3>5, <3>7
  <2>5. CASE ~(k = kind /\ f \in frames)
    <3>1. c[k][f] = s
      BY <1>3, <2>1, <2>5, Zenon
    <3> QED
      <4>1. \A i \in DOMAIN c[k][f] :
              c[k][f][i].frame = f /\ c[k][f][i].epochs = epochs /\ c[k][f][i].sent = epochs
        BY <2>2, <3>1, Zenon
      <4>2. ASSUME NEW q \in Players
            PROVE  Occurrences(c[k][f], q, f)
              = Occurrences(b[k][f], q, f) + (IF k = kind /\ f \in frames /\ q = p THEN 1 ELSE 0)
        <5>1. PICK o \in Nat : o = Occurrences(s, q, f)
          BY <2>3, Zenon
        <5>2. Occurrences(c[k][f], q, f) = o /\ Occurrences(b[k][f], q, f) = o
          BY <2>1, <3>1, <5>1, Zenon
        <5>3. o = o + 0
          OBVIOUS
        <5> QED
          BY <2>5, <5>2, <5>3, Zenon
      <4> QED
        BY <4>1, <4>2, Zenon
  <2> QED
    BY <2>4, <2>5
<1>5. Holds(c, epochs)
  <2>1. \A k \in Kinds : \A f \in Frames : \A i \in DOMAIN c[k][f] :
          c[k][f][i].frame = f /\ c[k][f][i].epochs = epochs /\ c[k][f][i].sent = epochs
    BY <1>4, Zenon
  <2>2. c \in [Kinds -> [Frames -> Seq(Entries)]]
    BY <1>3, Zenon
  <2> QED
    BY <2>1, <2>2, Zenon DEF Holds
<1>6. OneMore(c, b, kind, frames, p)
  BY <1>4, Zenon DEF OneMore
<1> QED
  BY <1>1, <1>5, <1>6, Zenon

\* t has one input of p for each of the frames S.
InputsFor(t, p, S, e) ==
  /\ t \in Seq(Messages) /\ Inputs(t, e) /\ \A i \in DOMAIN t : t[i].frame \in S
  /\ \A q \in Players : \A f : Occurrences(t, q, f) = IF q = p /\ f \in S THEN 1 ELSE 0

\* What goes out at once.
LEMMA OutAtOnce ==
  ASSUME NEW n \in Nat, NEW S \in SUBSET Below(n), NEW p \in Players, NEW e \in Nat \X Nat,
         NEW t, t = [i \in 1 .. Cardinality(S) |-> Sent(Entry(p, Ascending(S)[i], e))]
  PROVE  InputsFor(t, p, S, e)
<1>1. PICK c \in Nat : c = Cardinality(S)
  BY AscendingFacts
<1>2. PICK order \in [1 .. c -> S] : order = Ascending(S)
  BY <1>1, AscendingFacts
<1>3. Increasing(order, c) /\ \A x \in S : \E i \in 1 .. c : order[i] = x
  BY <1>1, <1>2, AscendingFacts
<1>4. \A i \in 1 .. c : order[i] \in S /\ order[i] \in Nat
  BY Zenon DEF Below
<1>5. \A i \in 1 .. c : t[i] = [player |-> p, frame |-> order[i], sent |-> e, past |-> FALSE]
  BY <1>1, <1>2 DEF Sent, Entry
<1>6. DOMAIN t = 1 .. c
  BY <1>1, <1>2
<1>7. \A i \in 1 .. c : t[i] \in Messages /\ t[i].player = p /\ t[i].player # Server
                        /\ t[i].frame = order[i] /\ t[i].sent = e /\ ~t[i].past
  <2>1. p \in Players \cup {Server} /\ p # Server
    BY DEF Players, Server
  <2>2. \A g \in Nat : [player |-> p, frame |-> g, sent |-> e, past |-> FALSE] \in Messages
    BY <2>1 DEF Messages
  <2>3. \A i \in 1 .. c : t[i].player = p /\ t[i].frame = order[i] /\ t[i].sent = e /\ ~t[i].past
    <3> SUFFICES ASSUME NEW i \in 1 .. c
                 PROVE  t[i].player = p /\ t[i].frame = order[i] /\ t[i].sent = e /\ ~t[i].past
      BY Zenon
    <3>1. PICK g, r : g = order[i] /\ r = t[i]
      BY Zenon
    <3>2. r = [player |-> p, frame |-> g, sent |-> e, past |-> FALSE]
      BY <1>5, <3>1, Zenon
    <3>3. r.player = p /\ r.frame = g /\ r.sent = e /\ ~r.past
      BY <3>2
    <3> QED
      BY <3>1, <3>3, Zenon
  <2> QED
    BY <1>4, <1>5, <2>1, <2>2, <2>3, Zenon
<1>8. t \in Seq(Messages)
  <2>1. t \in [1 .. c -> Messages]
    BY <1>1, <1>6, <1>7
  <2> QED
    BY <2>1, SeqOf, Zenon
<1>9. \A i, j \in 1 .. c : order[i] = order[j] => i = j
  <2> SUFFICES ASSUME NEW i \in 1 .. c, NEW j \in 1 .. c, i # j PROVE order[i] # order[j]
    OBVIOUS
  <2>1. i < j \/ j < i
    OBVIOUS
  <2>2. order[i] < order[j] \/ order[j] < order[i]
    BY <1>3, <2>1, Zenon DEF Increasing
  <2> QED
    BY <1>4, <2>2
<1>10. ASSUME NEW q \in Players, NEW f
       PROVE  Occurrences(t, q, f) = IF q = p /\ f \in S THEN 1 ELSE 0
  <2>1. CASE q = p /\ f \in S
    <3>1. PICK k \in 1 .. c : order[k] = f
      BY <1>3, <2>1
    <3>2. k \in DOMAIN t /\ t[k].player = q /\ t[k].frame = f /\ ~t[k].past
      BY <1>6, <1>7, <2>1, <3>1, Zenon
    <3>3. \A i \in DOMAIN t : t[i].player = q /\ t[i].frame = f /\ ~t[i].past => i = k
      <4> SUFFICES ASSUME NEW i \in 1 .. c, t[i].frame = f PROVE i = k
        BY <1>6, Zenon
      <4>1. order[i] = order[k]
        BY <1>7, <3>1, Zenon
      <4> QED
        BY <1>9, <4>1
    <3>4. Occurrences(t, q, f) = 1
      BY <3>2, <3>3, OneOccurrence, ZenonT(40)
    <3> QED
      BY <2>1, <3>4, Zenon
  <2>2. CASE ~(q = p /\ f \in S)
    <3>1. \A i \in DOMAIN t : ~(t[i].player = q /\ t[i].frame = f /\ ~t[i].past)
      <4> SUFFICES ASSUME NEW i \in 1 .. c, t[i].player = q, t[i].frame = f PROVE FALSE
        BY <1>6, Zenon
      <4>1. q = p /\ f \in S
        <5>1. t[i].player = p /\ t[i].frame = order[i]
          BY <1>7, Zenon
        <5>2. order[i] \in S
          BY <1>4, Zenon
        <5> QED
          BY <5>1, <5>2, Zenon
      <4> QED
        BY <2>2, <4>1
    <3>2. Occurrences(t, q, f) = 0
      BY <3>1, NoOccurrence, Zenon
    <3> QED
      BY <2>2, <3>2, Zenon
  <2> QED
    BY <2>1, <2>2
<1> QED
  BY <1>4, <1>6, <1>7, <1>8, <1>10, Zenon DEF Inputs, InputsFor

\* Conditions as numbers, to count with.
Both(x, y) == IF x = 1 /\ y = 1 THEN 1 ELSE 0

\* accept_input_frame_cursors and the relay of the accepted frames.
LEMMA AcceptStep ==
  ASSUME RelayInv, NEW p \in Players, NEW kind \in Kinds, NEW batch \in Batches,
         Accept(p, kind, batch, epochs)
  PROVE  RelayTypeOK' /\ RestInv'
<1>1. RelayTypeOK /\ CursorsInv /\ BufferInv /\ CountInv
      /\ StreamOk(stream, start, nextRelease, epochs) /\ PlacesOk(stream, start)
  BY DEF RelayInv
<1>2. PICK taken : taken = Taken(p, batch)
  OBVIOUS
<1>3. PICK entry : entry = [f \in Frames |-> Entry(p, f, epochs)]
  BY Zenon
<1>4. PICK S : S = {f \in taken : EmittedNow(f)}
  BY Zenon
<1>5. PICK now : now = Ascending(S)
  OBVIOUS
<1>6. /\ taken # {}
      /\ nextIn' = [nextIn EXCEPT ![p] = Max(taken) + 1]
      /\ lastIn' = [lastIn EXCEPT ![p] = Max(taken)]
      /\ accepted' = [accepted EXCEPT ![p] = accepted[p] \cup taken]
      /\ buffer' = Pushed(Synchronized, kind, {f \in taken : ~EmittedNow(f)}, entry)
      /\ stream' = stream \o [i \in DOMAIN now |-> Sent(entry[now[i]])]
      /\ bufEpochs' = epochs
  <2> DEFINE tk == Taken(p, batch)
             en == [f \in Frames |->
                     [player |-> p, frame |-> f, epochs |-> epochs, sent |-> epochs, past |-> FALSE]]
             nw == Ascending({f \in tk : EmittedNow(f)})
  <2>1. /\ tk # {}
        /\ nextIn' = [nextIn EXCEPT ![p] = Max(tk) + 1]
        /\ lastIn' = [lastIn EXCEPT ![p] = Max(tk)]
        /\ accepted' = [accepted EXCEPT ![p] = @ \cup tk]
        /\ buffer' = Pushed(Synchronized, kind, {f \in tk : ~EmittedNow(f)}, en)
        /\ stream' = stream \o [i \in DOMAIN nw |-> Sent(en[nw[i]])]
        /\ bufEpochs' = epochs
    BY DEF Accept
  <2>2. tk = taken /\ en = entry /\ nw = now
    BY <1>2, <1>3, <1>4, <1>5, Zenon DEF Entry
  <2> HIDE DEF tk, en, nw
  <2> QED
    BY <2>1, <2>2, Zenon
<1>7. UNCHANGED <<status, due, epochs, sock, start, nextRelease, delay, pause, dropped>>
  BY DEF Accept, room
<1>8. PICK hi : hi = Max(taken)
  OBVIOUS
<1>9. /\ taken \in SUBSET Frames /\ (\A f \in taken : f >= nextIn[p])
      /\ hi \in taken /\ (\A f \in taken : f <= hi)
      /\ MaxFrame + 1 \in Nat /\ Frames \in SUBSET Below(MaxFrame + 1)
  BY <1>1, <1>2, <1>6, <1>8, TakenFacts
<1>10. \A f \in Frames : f \in Nat
  BY RelayAssumption DEF Frames
<1>11. start \in Nat /\ nextRelease \in Nat /\ nextIn \in [Players -> Nat] /\ start <= nextRelease
       /\ (\A q \in Players : start <= nextIn[q]) /\ accepted \in [Players -> SUBSET Frames]
       /\ (\A q \in Players \ dropped : \A f \in accepted[q] : f < nextIn[q])
       /\ epochs \in Nat \X Nat /\ lastIn \in [Players -> Nat \cup {-1}]
  BY <1>1 DEF RelayTypeOK, CursorsInv
<1>12. \A f \in taken : EmittedNow(f) <=> f < nextRelease
  <2> SUFFICES ASSUME NEW f \in taken PROVE EmittedNow(f) <=> f < nextRelease
    OBVIOUS
  <2>1. f \in Nat /\ f >= nextIn[p] /\ nextIn[p] \in Nat /\ start <= nextIn[p]
    BY <1>9, <1>10, <1>11
  <2> QED
    BY <1>11, <2>1 DEF EmittedNow
<1>13. RelayTypeOK'
  <2>1. hi \in Nat /\ nextIn' = [nextIn EXCEPT ![p] = hi + 1] /\ lastIn' = [lastIn EXCEPT ![p] = hi]
    BY <1>6, <1>8, <1>9, <1>10
  <2>2. nextIn' \in [Players -> Nat] /\ lastIn' \in [Players -> Nat \cup {-1}]
    BY <1>11, <2>1
  <2>3. \A q \in Players : IF lastIn'[q] = -1 THEN nextIn'[q] = start ELSE lastIn'[q] = nextIn'[q] - 1
    BY <1>1, <1>11, <2>1 DEF RelayTypeOK
  <2> QED
    BY <1>1, <1>6, <1>7, <2>2, <2>3, Zenon DEF RelayTypeOK
<1>14. CursorsInv'
  <2>1. hi \in Nat /\ nextIn' = [nextIn EXCEPT ![p] = hi + 1]
    BY <1>6, <1>8, <1>9, <1>10
  <2>2. nextIn[p] <= hi /\ nextIn[p] \in Nat /\ start <= nextIn[p]
    BY <1>9, <1>11
  <2>3. \A q \in Players : start <= nextIn'[q]
    BY <1>11, <2>1, <2>2
  <2>4. accepted' \in [Players -> SUBSET Frames]
    BY <1>6, <1>9, <1>11
  <2>5. ASSUME NEW q \in Players \ dropped, NEW f \in accepted'[q] PROVE f < nextIn'[q]
    <3>1. CASE q = p
      <4>1. f \in accepted[p] \/ f \in taken
        BY <1>6, <1>11, <3>1
      <4>2. f \in Nat
        BY <1>9, <1>10, <1>11, <4>1
      <4>3. f < nextIn[p] \/ f <= hi
        BY <1>9, <1>11, <3>1, <4>1
      <4>4. nextIn'[q] = hi + 1
        BY <1>11, <2>1, <3>1
      <4> QED
        BY <2>1, <2>2, <4>2, <4>3, <4>4
    <3>2. CASE q # p
      BY <1>6, <1>11, <2>1, <3>2
    <3> QED
      BY <3>1, <3>2
  <2> QED
    BY <1>7, <1>11, <2>3, <2>4, <2>5 DEF CursorsInv
<1>15. Holds(Synchronized, epochs)
  BY <1>1, SynchronizedHolds
<1>16. /\ Holds(buffer', epochs)
       /\ \A k \in Kinds : \A f \in Frames : \A q \in Players :
            Occurrences(buffer'[k][f], q, f) = Occurrences(Synchronized[k][f], q, f)
              + (IF k = kind /\ f \in {g \in taken : ~EmittedNow(g)} /\ q = p THEN 1 ELSE 0)
  <2>1. PICK W : W = {g \in taken : ~EmittedNow(g)}
    BY Zenon
  <2>2. PICK b : b = Synchronized
    OBVIOUS
  <2>3. Holds(b, epochs) /\ epochs \in Nat \X Nat
    BY <1>11, <1>15, <2>2
  <2>4. Holds(Pushed(b, kind, W, entry), epochs) /\ OneMore(Pushed(b, kind, W, entry), b, kind, W, p)
    BY <1>3, <2>3, PushedFacts, Zenon
  <2>5. buffer' = Pushed(b, kind, W, entry)
    BY <1>6, <2>1, <2>2, Zenon
  <2> QED
    BY <2>1, <2>2, <2>4, <2>5, Zenon DEF OneMore
<1>17. BufferInv' /\ Synchronized' = buffer'
  BY <1>6, <1>7, <1>16 DEF BufferInv, Synchronized
<1>18. PICK t : t = [i \in DOMAIN now |-> Sent(entry[now[i]])]
  BY Zenon
<1>19. t = [i \in 1 .. Cardinality(S) |-> Sent(Entry(p, Ascending(S)[i], epochs))]
  <2>1. S \in SUBSET Below(MaxFrame + 1) /\ S \in SUBSET Frames
    BY <1>4, <1>9
  <2>2. now \in [1 .. Cardinality(S) -> S]
    BY <1>5, <1>9, <2>1, AscendingFacts
  <2>3. DOMAIN now = 1 .. Cardinality(S) /\ \A i \in DOMAIN now : now[i] \in Frames
    BY <2>1, <2>2
  <2>4. \A i \in DOMAIN now : entry[now[i]] = Entry(p, Ascending(S)[i], epochs)
    BY <1>3, <1>5, <2>3, Zenon
  <2> QED
    BY <1>18, <2>3, <2>4, Zenon
<1>20. /\ t \in Seq(Messages) /\ Inputs(t, epochs) /\ \A i \in DOMAIN t : t[i].frame \in S
       /\ \A q \in Players : \A f : Occurrences(t, q, f) = IF q = p /\ f \in S THEN 1 ELSE 0
  <2>1. PICK y \in Nat : y = MaxFrame + 1
    BY <1>9
  <2>2. S \in SUBSET Below(y)
    BY <1>4, <1>9, <2>1
  <2>3. epochs \in Nat \X Nat
    BY <1>11
  <2>4. InputsFor(t, p, S, epochs)
    BY <1>19, <2>2, <2>3, OutAtOnce, Zenon
  <2> QED
    BY <2>4, Zenon DEF InputsFor
<1>21. \A i \in DOMAIN t : t[i].frame < nextRelease
  BY <1>4, <1>12, <1>20
<1>22. stream' = stream \o t
  BY <1>6, <1>18, Zenon
<1>23. (StreamOk(stream, start, nextRelease, epochs) /\ PlacesOk(stream, start))'
  <2>0. start \in Nat /\ nextRelease \in Nat /\ start <= nextRelease
    BY <1>11
  <2>1. StreamOk(stream \o t, start, nextRelease, epochs) /\ PlacesOk(stream \o t, start)
    BY <1>1, <2>0, <1>20, <1>21, StreamInputs, Zenon
  <2> QED
    BY <1>7, <1>22, <2>1
<1>24. CountInv'
  <2> SUFFICES ASSUME NEW q \in Players \ dropped, NEW f \in Frames
               PROVE  /\ Occurrences(stream', q, f) = IF f \in accepted'[q] /\ f < nextRelease THEN 1 ELSE 0
                      /\ Occurrences(buffer'["legacy"][f], q, f) + Occurrences(buffer'["fast"][f], q, f)
                           = IF f \in accepted'[q] /\ f >= nextRelease THEN 1 ELSE 0
    BY <1>7, <1>17, Zenon DEF CountInv
  <2>1. PICK a, l, h : /\ a = Occurrences(stream, q, f)
                       /\ l = Occurrences(Synchronized["legacy"][f], q, f)
                       /\ h = Occurrences(Synchronized["fast"][f], q, f)
    OBVIOUS
  <2>2. PICK was \in 0 .. 1, new \in 0 .. 1, out \in 0 .. 1, legacy \in 0 .. 1 :
          /\ was = 1 <=> f \in accepted[q]
          /\ new = 1 <=> q = p /\ f \in taken
          /\ out = 1 <=> f < nextRelease
          /\ legacy = 1 <=> kind = "legacy"
    <3>1. /\ \E x \in 0 .. 1 : x = 1 <=> f \in accepted[q]
          /\ \E x \in 0 .. 1 : x = 1 <=> q = p /\ f \in taken
          /\ \E x \in 0 .. 1 : x = 1 <=> f < nextRelease
          /\ \E x \in 0 .. 1 : x = 1 <=> kind = "legacy"
      <4>1. 0 \in 0 .. 1 /\ 1 \in 0 .. 1 /\ 0 # 1
        OBVIOUS
      <4> QED
        BY <4>1, Zenon
    <3> QED
      BY <3>1, Zenon
  <2>3. (out = 0 <=> f >= nextRelease) /\ (1 - out = 1 <=> f >= nextRelease)
        /\ (1 - legacy = 1 <=> kind # "legacy")
    BY <1>10, <1>11, <2>2
  <2>4. a = Both(was, out) /\ l + h = Both(was, 1 - out)
    <3>1. /\ a = IF f \in accepted[q] /\ f < nextRelease THEN 1 ELSE 0
          /\ l + h = IF f \in accepted[q] /\ f >= nextRelease THEN 1 ELSE 0
      BY <1>1, <2>1, Zenon DEF CountInv
    <3> QED
      BY <2>2, <2>3, <3>1, Zenon DEF Both
  <2>5. was + new <= 1
    <3> SUFFICES ASSUME was = 1, new = 1 PROVE FALSE
      OBVIOUS
    <3>1. f < nextIn[p] /\ f >= nextIn[p]
      BY <1>9, <1>11, <2>2
    <3> QED
      BY <1>10, <1>11, <3>1
  <2>6. l \in Nat /\ h \in Nat /\ a \in Nat
    <3>1. "legacy" \in Kinds /\ "fast" \in Kinds
      BY DEF Kinds
    <3>2. \A s \in Seq(Entries) : Occurrences(s, q, f) \in Nat
      BY HitsFinite
    <3>3. Synchronized["legacy"][f] \in Seq(Entries) /\ Synchronized["fast"][f] \in Seq(Entries)
      BY <1>15, <3>1, Zenon DEF Holds
    <3>4. Both(was, out) \in Nat
      BY DEF Both
    <3> QED
      BY <2>1, <2>4, <3>2, <3>3, <3>4
  <2>7. /\ a + Both(new, out) = Both(was + new, out)
        /\ (l + Both(legacy, Both(new, 1 - out))) + (h + Both(1 - legacy, Both(new, 1 - out)))
             = Both(was + new, 1 - out)
    BY <2>4, <2>5, <2>6 DEF Both
  <2>8. f \in accepted'[q] <=> was + new = 1
    <3>1. f \in accepted'[q] <=> (was = 1 \/ new = 1)
      BY <1>6, <1>11, <2>2
    <3>2. was + new = 1 <=> (was = 1 \/ new = 1)
      BY <2>5
    <3> QED
      BY <3>1, <3>2
  <2>9. Occurrences(stream', q, f) = a + Both(new, out)
    <3>1. Occurrences(t, q, f) = Both(new, out)
      <4>1. (q = p /\ f \in S) <=> (new = 1 /\ out = 1)
        BY <1>4, <1>12, <2>2, Zenon
      <4> QED
        BY <1>20, <4>1, Zenon DEF Both
    <3>2. /\ Len(stream) \in Nat /\ Len(t) \in Nat
          /\ Joined(stream', stream, Len(stream), t, Len(t))
      BY <1>1, <1>20, <1>22, JoinedCat, Zenon DEF StreamOk
    <3>3. Occurrences(stream', q, f) = Occurrences(stream, q, f) + Occurrences(t, q, f)
      BY <3>2, OccurrencesAdd
    <3> QED
      BY <2>1, <3>1, <3>3
  <2>10. /\ Occurrences(buffer'["legacy"][f], q, f) = l + Both(legacy, Both(new, 1 - out))
         /\ Occurrences(buffer'["fast"][f], q, f) = h + Both(1 - legacy, Both(new, 1 - out))
    <3>1. "legacy" \in Kinds /\ "fast" \in Kinds /\ (kind = "fast" <=> kind # "legacy")
      BY DEF Kinds
    <3>2. (f \in {g \in taken : ~EmittedNow(g)} /\ q = p) <=> (new = 1 /\ 1 - out = 1)
      <4>1. (f \in {g \in taken : ~EmittedNow(g)} /\ q = p) <=> (new = 1 /\ ~(f < nextRelease))
        BY <1>12, <2>2, Zenon
      <4>2. ~(f < nextRelease) <=> 1 - out = 1
        BY <2>2, <2>3, SMTT(30)
      <4> QED
        BY <4>1, <4>2
    <3>3. \A k \in Kinds : Occurrences(buffer'[k][f], q, f) = Occurrences(Synchronized[k][f], q, f)
              + (IF k = kind /\ f \in {g \in taken : ~EmittedNow(g)} /\ q = p THEN 1 ELSE 0)
      BY <1>16, Zenon
    <3>4. Both(new, 1 - out) = 1 <=> (new = 1 /\ 1 - out = 1)
      BY DEF Both
    <3>5. /\ (IF "legacy" = kind /\ f \in {g \in taken : ~EmittedNow(g)} /\ q = p THEN 1 ELSE 0)
               = Both(legacy, Both(new, 1 - out))
          /\ (IF "fast" = kind /\ f \in {g \in taken : ~EmittedNow(g)} /\ q = p THEN 1 ELSE 0)
               = Both(1 - legacy, Both(new, 1 - out))
      BY <2>2, <2>3, <3>1, <3>2, <3>4, Zenon DEF Both
    <3> QED
      BY <2>1, <3>1, <3>3, <3>5, Zenon
  <2> QED
    BY <2>2, <2>3, <2>7, <2>8, <2>9, <2>10, Zenon DEF Both
<1> QED
  BY <1>13, <1>14, <1>17, <1>23, <1>24 DEF RestInv

-----------------------------------------------------------------------------
(* A tick of the frame clock *)

\* What the release of frame o sends from the buffers b.
SentFrom(t, b, o, e) ==
  /\ t \in Seq(Messages) /\ Inputs(t, e) /\ \A i \in DOMAIN t : t[i].frame = o
  /\ \A q \in Players : \A f :
       Occurrences(t, q, f) = Occurrences(b["legacy"][o], q, f) + Occurrences(b["fast"][o], q, f)

\* drain_frame sends every buffered input of the frame once.
LEMMA Drained ==
  ASSUME NEW e \in Nat \X Nat, NEW b, Holds(b, e), NEW o \in Frames,
         NEW out, out = b["legacy"][o] \o b["fast"][o], NEW t, t = [i \in DOMAIN out |-> Sent(out[i])]
  PROVE  SentFrom(t, b, o, e)
<1>1. "legacy" \in Kinds /\ "fast" \in Kinds
  BY DEF Kinds
<1>2. PICK l \in Seq(Entries), h \in Seq(Entries) : l = b["legacy"][o] /\ h = b["fast"][o]
  BY <1>1, Zenon DEF Holds
<1>3. PICK m \in Nat, n \in Nat : m = Len(l) /\ n = Len(h)
  OBVIOUS
<1>4. out \in Seq(Entries) /\ Joined(out, l, m, h, n) /\ DOMAIN out = 1 .. (m + n)
  <2>1. out = l \o h
    BY <1>2
  <2> QED
    BY <1>3, <2>1, CatFacts DEF Joined
<1>5. \A i \in DOMAIN out : out[i] \in Entries /\ out[i].frame = o /\ out[i].sent = e
  <2>1. (\A i \in 1 .. m : l[i].frame = o /\ l[i].sent = e) /\ (\A i \in 1 .. n : h[i].frame = o /\ h[i].sent = e)
    <3>1. \A k \in Kinds : \A i \in DOMAIN b[k][o] : b[k][o][i].frame = o /\ b[k][o][i].sent = e
      BY Zenon DEF Holds
    <3>2. DOMAIN l = 1 .. m /\ DOMAIN h = 1 .. n
      BY <1>3
    <3> QED
      BY <1>1, <1>2, <3>1, <3>2, Zenon
  <2> SUFFICES ASSUME NEW i \in 1 .. (m + n) PROVE out[i] \in Entries /\ out[i].frame = o /\ out[i].sent = e
    BY <1>4, Zenon
  <2>2. out[i] \in Entries
    BY <1>4, SeqElement, Zenon
  <2>3. CASE i \in 1 .. m
    BY <1>4, <2>1, <2>2, <2>3, Zenon DEF Joined
  <2>4. CASE i \notin 1 .. m
    <3>1. i - m \in 1 .. n /\ m + (i - m) = i
      BY <2>4
    <3>2. out[i] = h[i - m]
      BY <1>4, <3>1, Zenon DEF Joined
    <3> QED
      BY <2>1, <2>2, <3>1, <3>2, Zenon
  <2> QED
    BY <2>3, <2>4, Zenon
<1>6. ASSUME NEW r \in Entries
      PROVE  /\ Sent(r) \in Messages /\ Sent(r).player # Server /\ Sent(r).player = r.player
             /\ Sent(r).frame = r.frame /\ Sent(r).sent = r.sent /\ Sent(r).past = r.past
  <2>1. /\ r.player \in Players /\ r.frame \in Nat /\ r.sent \in Nat \X Nat /\ r.past \in BOOLEAN
    BY RelayAssumption DEF Entries, Frames
  <2>2. r.player # Server
    BY <2>1 DEF Players, Server
  <2> QED
    BY <2>1, <2>2, Zenon DEF Sent, Messages
<1>7. DOMAIN t = DOMAIN out /\ \A i \in DOMAIN out : t[i] = Sent(out[i])
  BY Zenon
<1>8. \A i \in DOMAIN out :
        /\ t[i] \in Messages /\ t[i].player # Server /\ t[i].player = out[i].player
        /\ t[i].frame = out[i].frame /\ t[i].frame = o /\ t[i].sent = e /\ t[i].past = out[i].past
  <2> SUFFICES ASSUME NEW i \in DOMAIN out
               PROVE  /\ t[i] \in Messages /\ t[i].player # Server /\ t[i].player = out[i].player
                      /\ t[i].frame = out[i].frame /\ t[i].frame = o /\ t[i].sent = e
                      /\ t[i].past = out[i].past
    BY Zenon
  <2>1. PICK r \in Entries : r = out[i]
    BY <1>5, Zenon
  <2>2. t[i] = Sent(r) /\ r.frame = o /\ r.sent = e
    BY <1>5, <1>7, <2>1, Zenon
  <2> QED
    BY <1>6, <2>1, <2>2, Zenon
<1>9. t \in Seq(Messages)
  <2>1. t \in [1 .. (m + n) -> Messages]
    BY <1>4, <1>7, <1>8, Zenon
  <2>2. m + n \in Nat
    OBVIOUS
  <2> QED
    BY <2>1, <2>2, SeqOf, Zenon
<1>10. ASSUME NEW q \in Players, NEW f
       PROVE  Occurrences(t, q, f) = Occurrences(b["legacy"][o], q, f) + Occurrences(b["fast"][o], q, f)
  <2>1. Occurrences(t, q, f) = Occurrences(out, q, f)
    <3>1. DOMAIN t = DOMAIN out
      BY <1>7, Zenon
    <3>2. \A i \in DOMAIN t : t[i].player = out[i].player /\ t[i].frame = out[i].frame /\ t[i].past = out[i].past
      BY <1>8, <3>1, Zenon
    <3>3. Alike(t, out)
      BY <3>1, <3>2, Zenon DEF Alike
    <3>4. SameCounts(t, out)
      BY <3>3, SameOccurrences, Zenon
    <3> QED
      BY <3>4, Zenon DEF SameCounts
  <2>2. Occurrences(out, q, f) = Occurrences(l, q, f) + Occurrences(h, q, f)
    BY <1>4, OccurrencesAdd
  <2> QED
    BY <1>2, <2>1, <2>2, Zenon
<1> QED
  BY <1>7, <1>8, <1>9, <1>10, Zenon DEF Inputs, SentFrom

\* A drained frame is empty afterwards.
EmptyAt(c, b, o) ==
  \A k \in Kinds : \A f \in Frames : c[k][f] = IF f = o THEN << >> ELSE b[k][f]

\* drain_frame leaves nothing of the frame behind.
LEMMA Emptied ==
  ASSUME NEW e, NEW b, Holds(b, e), NEW o \in Frames,
         NEW c, c = [k \in Kinds |-> [b[k] EXCEPT ![o] = << >>]]
  PROVE  Holds(c, e) /\ EmptyAt(c, b, o)
<1>1. b \in [Kinds -> [Frames -> Seq(Entries)]]
  BY DEF Holds
<1>2. \A k \in Kinds : \A f \in Frames : c[k][f] = IF f = o THEN << >> ELSE b[k][f]
  BY <1>1
<1>3. << >> \in Seq(Entries) /\ DOMAIN << >> = {}
  OBVIOUS
<1>4. c \in [Kinds -> [Frames -> Seq(Entries)]]
  BY <1>1, <1>3
<1>5. ASSUME NEW k \in Kinds, NEW f \in Frames, NEW i \in DOMAIN c[k][f]
      PROVE  c[k][f][i].frame = f /\ c[k][f][i].epochs = e /\ c[k][f][i].sent = e
  <2>1. c[k][f] = b[k][f]
    BY <1>2, <1>3, SMTT(30)
  <2>2. \A j \in DOMAIN b[k][f] : b[k][f][j].frame = f /\ b[k][f][j].epochs = e /\ b[k][f][j].sent = e
    BY Zenon DEF Holds
  <2> QED
    BY <2>1, <2>2
<1>6. Holds(c, e)
  BY <1>4, <1>5, Zenon DEF Holds
<1> QED
  BY <1>2, <1>6, Zenon DEF EmptyAt

\* emit_next_server_frame releases the next frame with its input, or none.
LEMMA TickStep ==
  ASSUME RelayInv, nextRelease <= MaxFrame, FrameClockTick
  PROVE  RelayTypeOK' /\ RestInv' /\ nextRelease' \in {nextRelease, nextRelease + 1}
<1>1. RelayTypeOK /\ CursorsInv /\ BufferInv /\ CountInv
      /\ StreamOk(stream, start, nextRelease, epochs) /\ PlacesOk(stream, start)
  BY DEF RelayInv
<1>2. /\ status' = "Playing" /\ bufEpochs' = epochs
      /\ UNCHANGED <<due, epochs, sock, start, nextIn, lastIn, delay, pause, accepted, dropped>>
  BY DEF FrameClockTick
<1>3. /\ start \in Nat /\ nextRelease \in Nat /\ start <= nextRelease /\ epochs \in Nat \X Nat
      /\ nextRelease \in Frames
  BY <1>1, RelayAssumption, SMTT(30) DEF RelayTypeOK, CursorsInv, Frames
<1>4. \A f \in Frames : f \in Nat
  BY RelayAssumption DEF Frames
<1>5. Holds(Synchronized, epochs)
  BY <1>1, SynchronizedHolds
<1>6. CASE nextRelease' = nextRelease /\ stream' = stream /\ buffer' = Synchronized
  <2>1. RelayTypeOK'
    BY <1>1, <1>2, <1>3, <1>6 DEF RelayTypeOK, InPlay
  <2>2. CursorsInv'
    BY <1>1, <1>2, <1>6 DEF CursorsInv
  <2>3. BufferInv' /\ Synchronized' = Synchronized
    BY <1>2, <1>5, <1>6 DEF BufferInv, Synchronized
  <2>4. CountInv'
    BY <1>1, <1>2, <1>6, <2>3, Zenon DEF CountInv
  <2> QED
    BY <1>1, <1>2, <1>6, <2>1, <2>2, <2>3, <2>4 DEF RestInv
<1>7. ASSUME NEW b, b = Synchronized,
             NEW out, out = LegacyReady(b, nextRelease) \o FastReady(b, nextRelease),
             stream' = (stream \o [i \in DOMAIN out |-> Sent(out[i])]) \o <<ServerEntry(nextRelease)>>,
             buffer' = [k \in Kinds |-> [b[k] EXCEPT ![nextRelease] = << >>]],
             nextRelease' = nextRelease + 1
      PROVE  RelayTypeOK' /\ RestInv'
  <2>1. Holds(b, epochs)
    BY <1>5, <1>7
  <2>2. out = b["legacy"][nextRelease] \o b["fast"][nextRelease]
    BY <1>3, <1>7, <2>1, ReadyIsAll, Zenon
  <2>3. PICK t : t = [i \in DOMAIN out |-> Sent(out[i])]
    BY Zenon
  <2>4. /\ t \in Seq(Messages) /\ Inputs(t, epochs) /\ (\A i \in DOMAIN t : t[i].frame = nextRelease)
        /\ \A q \in Players : \A f : Occurrences(t, q, f)
             = Occurrences(b["legacy"][nextRelease], q, f) + Occurrences(b["fast"][nextRelease], q, f)
    <3>1. nextRelease \in Frames /\ epochs \in Nat \X Nat
      BY <1>3
    <3>2. SentFrom(t, b, nextRelease, epochs)
      BY <2>1, <2>2, <2>3, <3>1, Drained, Zenon
    <3> QED
      BY <3>2, Zenon DEF SentFrom
  <2>5. /\ Holds(buffer', epochs)
        /\ \A k \in Kinds : \A f \in Frames :
             buffer'[k][f] = IF f = nextRelease THEN << >> ELSE b[k][f]
    <3>1. PICK c : c = buffer' /\ c = [k \in Kinds |-> [b[k] EXCEPT ![nextRelease] = << >>]]
      BY <1>7, Zenon
    <3>2. nextRelease \in Frames
      BY <1>3
    <3>3. Holds(c, epochs) /\ EmptyAt(c, b, nextRelease)
      BY <2>1, <3>1, <3>2, Emptied, Zenon
    <3> QED
      BY <3>1, <3>3, Zenon DEF EmptyAt
  <2>6. PICK x \in Messages : x = ServerEntry(nextRelease)
    BY <1>3, Zenon DEF Messages, ServerEntry
  <2>7. x.player = Server /\ x.frame = nextRelease /\ x.sent = epochs
    BY <2>6 DEF ServerEntry
  <2>8. stream' = (stream \o t) \o <<x>>
    BY <1>7, <2>3, <2>6, Zenon
  <2>9. StreamOk(stream', start, nextRelease + 1, epochs) /\ PlacesOk(stream', start)
    <3>1. StreamOk((stream \o t) \o <<x>>, start, nextRelease + 1, epochs) /\ PlacesOk((stream \o t) \o <<x>>, start)
      BY <1>1, <1>3, <2>4, <2>7, StreamRelease
    <3> QED
      BY <2>8, <3>1
  <2>10. RelayTypeOK'
    <3>1. nextRelease' \in Nat
      BY <1>3, <1>7
    <3>2. status' \in InPlay \cup {"Setup"}
      BY <1>2, Zenon DEF InPlay
    <3> QED
      BY <1>1, <1>2, <3>1, <3>2, Zenon DEF RelayTypeOK
  <2>11. CursorsInv'
    <3>1. start <= nextRelease'
      BY <1>3, <1>7
    <3> QED
      BY <1>1, <1>2, <3>1, Zenon DEF CursorsInv
  <2>12. BufferInv' /\ Synchronized' = buffer'
    BY <1>2, <2>5 DEF BufferInv, Synchronized
  <2>13. CountInv'
    <3> SUFFICES ASSUME NEW q \in Players \ dropped, NEW f \in Frames
                 PROVE  /\ Occurrences(stream', q, f)
                             = IF f \in accepted[q] /\ f < nextRelease + 1 THEN 1 ELSE 0
                        /\ Occurrences(buffer'["legacy"][f], q, f) + Occurrences(buffer'["fast"][f], q, f)
                             = IF f \in accepted[q] /\ f >= nextRelease + 1 THEN 1 ELSE 0
      <4>1. nextRelease' = nextRelease + 1 /\ dropped' = dropped /\ accepted' = accepted
        BY <1>2, <1>7, Zenon
      <4> QED
        BY <2>12, <4>1, Zenon DEF CountInv
    <3>1. "legacy" \in Kinds /\ "fast" \in Kinds
      BY DEF Kinds
    <3>2. PICK l, h, a, d : /\ l = Occurrences(b["legacy"][f], q, f) /\ h = Occurrences(b["fast"][f], q, f)
                            /\ a = Occurrences(stream, q, f) /\ d = Occurrences(t, q, f)
      OBVIOUS
    <3>3. /\ a = IF f \in accepted[q] /\ f < nextRelease THEN 1 ELSE 0
          /\ l + h = IF f \in accepted[q] /\ f >= nextRelease THEN 1 ELSE 0
      BY <1>1, <1>7, <3>2, Zenon DEF CountInv
    <3>4. Occurrences(stream', q, f) = a + d
      <4>1. PICK u : u = stream \o t
        BY Zenon
      <4>2. /\ u \in Seq(Messages) /\ Len(stream) \in Nat /\ Len(t) \in Nat
            /\ Joined(u, stream, Len(stream), t, Len(t))
        BY <1>1, <2>4, <4>1, JoinedCat, Zenon DEF StreamOk
      <4>3. Occurrences(u, q, f) = a + d
        BY <3>2, <4>2, OccurrencesAdd
      <4>4. stream' = Append(u, x)
        BY <2>8, <4>1, <4>2
      <4>5. Occurrences(Append(u, x), q, f)
              = Occurrences(u, q, f) + (IF x.player = q /\ x.frame = f /\ ~x.past THEN 1 ELSE 0)
        BY <4>2, OccurrenceAppended, ZenonT(40)
      <4>6. x.player # q
        BY <2>7 DEF Players, Server
      <4>7. Occurrences(u, q, f) \in Nat
        <5>1. DOMAIN u = 1 .. Len(u) /\ Len(u) \in Nat
          BY <4>2
        <5> QED
          BY <5>1, HitsFinite
      <4> QED
        BY <4>3, <4>4, <4>5, <4>6, <4>7
    <3>5. CASE f = nextRelease
      <4>1. d = l + h
        BY <2>4, <3>2, <3>5
      <4>2. Occurrences(<< >>, q, f) = 0
        BY NoOccurrence
      <4>3. buffer'["legacy"][f] = << >> /\ buffer'["fast"][f] = << >>
        BY <2>5, <3>1, <3>5
      <4>4. a = 0 /\ d = IF f \in accepted[q] THEN 1 ELSE 0
        BY <1>3, <3>3, <3>5, <4>1
      <4> QED
        BY <1>3, <3>4, <3>5, <4>2, <4>3, <4>4
    <3>6. CASE f # nextRelease
      <4>1. d = 0
        <5>1. \A i \in DOMAIN t : ~(t[i].player = q /\ t[i].frame = f /\ ~t[i].past)
          BY <2>4, <3>6, Zenon
        <5> QED
          BY <3>2, <5>1, NoOccurrence
      <4>2. buffer'["legacy"][f] = b["legacy"][f] /\ buffer'["fast"][f] = b["fast"][f]
        BY <2>5, <3>1, <3>6
      <4>3. (f < nextRelease + 1 <=> f < nextRelease) /\ (f >= nextRelease + 1 <=> f >= nextRelease)
        BY <1>3, <1>4, <3>6
      <4>4. a + d = a
        <5>1. a = 0 \/ a = 1
          BY <3>3, Zenon
        <5>2. 0 + 0 = 0 /\ 1 + 0 = 1
          OBVIOUS
        <5> QED
          BY <4>1, <5>1, <5>2, Zenon
      <4> QED
        BY <3>2, <3>3, <3>4, <4>2, <4>3, <4>4, Zenon
    <3> QED
      BY <3>5, <3>6
  <2> QED
    BY <1>2, <1>7, <2>9, <2>10, <2>11, <2>12, <2>13, Zenon DEF RestInv
<1>8. CASE nextRelease' = nextRelease + 1 /\ \E b \in {Synchronized} :
           \E out \in {LegacyReady(b, nextRelease) \o FastReady(b, nextRelease)} :
             /\ stream' = (stream \o [i \in DOMAIN out |-> Sent(out[i])]) \o <<ServerEntry(nextRelease)>>
             /\ buffer' = [k \in Kinds |-> [b[k] EXCEPT ![nextRelease] = << >>]]
  BY <1>7, <1>8, ZenonT(40)
<1>9. \/ nextRelease' = nextRelease /\ stream' = stream /\ buffer' = Synchronized
      \/ nextRelease' = nextRelease + 1 /\ \E b \in {Synchronized} :
           \E out \in {LegacyReady(b, nextRelease) \o FastReady(b, nextRelease)} :
             /\ stream' = (stream \o [i \in DOMAIN out |-> Sent(out[i])]) \o <<ServerEntry(nextRelease)>>
             /\ buffer' = [k \in Kinds |-> [b[k] EXCEPT ![nextRelease] = << >>]]
  BY Zenon DEF FrameClockTick, Opens
<1> QED
  BY <1>6, <1>8, <1>9

-----------------------------------------------------------------------------
(* Every step *)

\* The fields of the room a step of the room may change, the cursors staying.
LEMMA TypeOfQuietStep ==
  ASSUME RelayTypeOK, UNCHANGED <<epochs, bufEpochs, start, nextRelease, nextIn, lastIn>>,
         status' \in InPlay \cup {"Setup"}, due' \in {"none", "set", "due"},
         sock' \in [Players -> {"gone", "control", "input"}], delay' \in Delays,
         pause' \in [at : Nat \cup {-1}, holders : SUBSET Players, acked : SUBSET Players]
  PROVE  RelayTypeOK'
  BY DEF RelayTypeOK

\* reset_sync_state_to keeps the types.
LEMMA TypeOfReset ==
  ASSUME RelayTypeOK, NEW g \in Nat, ResetSync(g), epochs' \in Nat \X Nat,
         status' \in InPlay \cup {"Setup"}, sock' \in [Players -> {"gone", "control", "input"}]
  PROVE  RelayTypeOK'
<1>1. /\ start' = g /\ nextRelease' = g /\ nextIn' = [p \in Players |-> g]
      /\ lastIn' = [p \in Players |-> -1] /\ pause' = NoPause /\ due' = "none"
      /\ delay' = delay /\ bufEpochs' = bufEpochs
  BY DEF ResetSync
<1> QED
  BY <1>1 DEF RelayTypeOK, NoPause

\* The steps of the frame clock as FrameRelease sees them: nothing, the next
\* frame, or a restart.
Shape ==
  \/ start' = start /\ syncs' = syncs /\ nextRelease' \in {nextRelease, nextRelease + 1}
  \/ start' \in Nat /\ syncs' = syncs + 1 /\ nextRelease' = start'

QuietVars == <<epochs, bufEpochs, start, nextRelease, nextIn, lastIn, accepted, dropped,
               buffer, stream, syncs>>

\* A step that leaves the relay alone keeps the whole invariant.
LEMMA QuietInv ==
  ASSUME RelayInv, UNCHANGED QuietVars,
         status' \in InPlay \cup {"Setup"}, due' \in {"none", "set", "due"},
         sock' \in [Players -> {"gone", "control", "input"}], delay' \in Delays,
         pause' \in [at : Nat \cup {-1}, holders : SUBSET Players, acked : SUBSET Players]
  PROVE  RelayInv' /\ Shape
<1>1. /\ epochs' = epochs /\ bufEpochs' = bufEpochs /\ start' = start /\ nextRelease' = nextRelease
      /\ nextIn' = nextIn /\ lastIn' = lastIn /\ accepted' = accepted /\ dropped' = dropped
      /\ buffer' = buffer /\ stream' = stream /\ syncs' = syncs
  BY DEF QuietVars
<1>2. RelayTypeOK'
  BY <1>1, TypeOfQuietStep DEF RelayInv
<1>3. RestInv'
  BY <1>1, QuietStep
<1>4. Shape
  BY <1>1 DEF Shape
<1> QED
  BY <1>2, <1>3, <1>4, Zenon DEF RelayInv, RestInv

\* A restart keeps the whole invariant.
LEMMA ResetInv ==
  ASSUME RelayInv, NEW g \in Nat, ResetSync(g), epochs' \in Nat \X Nat,
         status' \in InPlay \cup {"Setup"}, sock' \in [Players -> {"gone", "control", "input"}]
  PROVE  RelayInv' /\ Shape
<1>1. RelayTypeOK'
  BY TypeOfReset DEF RelayInv
<1>2. RestInv'
  BY ResetStep
<1>3. Shape
  BY DEF Shape, ResetSync
<1> QED
  BY <1>1, <1>2, <1>3, Zenon DEF RelayInv, RestInv

\* Requests of a coordinated pause.
LEMMA PauseSteps ==
  ASSUME RelayInv, NEW p \in Players, NEW f \in Frames,
         RequestPause(p, f) \/ PauseReached(p) \/ RequestResume(p)
  PROVE  RelayInv' /\ Shape
<1>1. /\ status \in InPlay \cup {"Setup"} /\ due \in {"none", "set", "due"}
      /\ sock \in [Players -> {"gone", "control", "input"}] /\ delay \in Delays
      /\ pause \in [at : Nat \cup {-1}, holders : SUBSET Players, acked : SUBSET Players]
      /\ start \in Nat /\ nextRelease \in Nat
  BY DEF RelayInv, RelayTypeOK
<1>2. PauseUnchanged
  BY DEF RequestPause, PauseReached, RequestResume
<1>3. UNCHANGED QuietVars /\ due' = due /\ sock' = sock /\ delay' = delay
  BY <1>2 DEF PauseUnchanged, QuietVars, cursors
<1>4. /\ status' \in InPlay \cup {"Setup"}
      /\ pause' \in [at : Nat \cup {-1}, holders : SUBSET Players, acked : SUBSET Players]
  <2>1. CASE RequestPause(p, f)
    <3>1. f \in Nat /\ Lead \in Nat /\ RoomFrame \in Nat
      BY <1>1, RelayAssumption DEF Frames, RoomFrame
    <3>2. status' = status
      BY <2>1 DEF RequestPause
    <3>3. pause' = IF pause = NoPause
                   THEN [at |-> (IF f > RoomFrame THEN f ELSE RoomFrame) + Lead, holders |-> {p}, acked |-> {}]
                   ELSE [pause EXCEPT !.holders = @ \cup {p}]
      BY <2>1 DEF RequestPause
    <3> QED
      BY <1>1, <3>1, <3>2, <3>3
  <2>2. CASE PauseReached(p)
    <3>1. /\ pause' = NoPause \/ pause' = [pause EXCEPT !.acked = pause.acked \cup {p}]
          /\ status' \in {status, "Playing", "Paused"}
      BY <2>2 DEF PauseReached
    <3> QED
      BY <1>1, <3>1 DEF NoPause, InPlay
  <2>3. CASE RequestResume(p)
    <3>1. /\ pause' = NoPause \/ pause' = [pause EXCEPT !.holders = pause.holders \ {p}]
          /\ status' \in {status, "Playing"}
      BY <2>3 DEF RequestResume
    <3> QED
      BY <1>1, <3>1 DEF NoPause, InPlay
  <2> QED
    BY <2>1, <2>2, <2>3
<1> QED
  BY <1>1, <1>3, <1>4, QuietInv

\* The sockets come and go and the room starts, the stream going on.
LEMMA RoomSteps ==
  ASSUME RelayInv, NEW p \in Players, NEW d \in Delays,
         \/ HostReattaches \/ AttachInputSocket(p) \/ CompatibilityAgain
         \/ StartNow(d) \/ ScheduleStart \/ StartTimeComes
  PROVE  RelayInv' /\ Shape
<1>1. /\ status \in InPlay \cup {"Setup"} /\ due \in {"none", "set", "due"}
      /\ sock \in [Players -> {"gone", "control", "input"}] /\ delay \in Delays
      /\ pause \in [at : Nat \cup {-1}, holders : SUBSET Players, acked : SUBSET Players]
  BY DEF RelayInv, RelayTypeOK
<1>2. UNCHANGED QuietVars
  BY DEF HostReattaches, AttachInputSocket, CompatibilityAgain, StartNow, ScheduleStart,
         StartTimeComes, QuietVars, cursors, relay
<1>3. status' \in InPlay \cup {"Setup"} /\ due' \in {"none", "set", "due"} /\ delay' \in Delays
      /\ pause' = pause
  BY <1>1 DEF HostReattaches, AttachInputSocket, CompatibilityAgain, StartNow, ScheduleStart,
         StartTimeComes, InPlay
<1>4. sock' \in [Players -> {"gone", "control", "input"}]
  BY <1>1 DEF HostReattaches, AttachInputSocket, CompatibilityAgain, StartNow, ScheduleStart,
         StartTimeComes
<1> QED
  BY <1>1, <1>2, <1>3, <1>4, QuietInv

\* A lost input socket before play forgets the cursors of its player.
LEMMA DropSteps ==
  ASSUME RelayInv, NEW p \in Players, DropInputSocket(p)
  PROVE  RelayInv' /\ Shape
<1>1. /\ sock' = [sock EXCEPT ![p] = "control"]
      /\ nextIn' = [nextIn EXCEPT ![p] = start] /\ lastIn' = [lastIn EXCEPT ![p] = -1]
      /\ dropped' = dropped \cup {p}
      /\ UNCHANGED <<status, due, epochs, start, nextRelease, accepted, delay, pause,
                     buffer, bufEpochs, stream, syncs>>
  BY DEF DropInputSocket, LastAfterDrop
<1>2. RelayTypeOK'
  BY <1>1 DEF RelayInv, RelayTypeOK
<1>3. CursorsInv'
  <2>1. /\ start \in Nat /\ nextIn \in [Players -> Nat] /\ start <= nextRelease
        /\ accepted \in [Players -> SUBSET Frames] /\ (\A q \in Players : start <= nextIn[q])
        /\ \A q \in Players \ dropped : \A f \in accepted[q] : f < nextIn[q]
    BY DEF RelayInv, RelayTypeOK, CursorsInv
  <2>2. \A q \in Players : start <= nextIn'[q]
    BY <1>1, <2>1
  <2>3. \A q \in Players \ dropped' : q \in Players \ dropped /\ nextIn'[q] = nextIn[q]
    BY <1>1, <2>1
  <2> QED
    BY <1>1, <2>1, <2>2, <2>3 DEF CursorsInv
<1>4. BufferInv'
  BY <1>1 DEF RelayInv, BufferInv
<1>5. CountInv'
  <2>1. Synchronized' = Synchronized
    BY <1>1 DEF Synchronized
  <2>2. Players \ dropped' \subseteq Players \ dropped
    BY <1>1
  <2>3. CountInv
    BY DEF RelayInv
  <2> QED
    BY <1>1, <2>1, <2>2, <2>3, Zenon DEF CountInv
<1>6. (StreamOk(stream, start, nextRelease, epochs) /\ PlacesOk(stream, start))'
  BY <1>1 DEF RelayInv
<1>7. Shape
  BY <1>1 DEF Shape
<1> QED
  BY <1>2, <1>3, <1>4, <1>5, <1>6, <1>7 DEF RelayInv

\* Whatever restarts the frame stream.
LEMMA RestartSteps ==
  ASSUME RelayInv, NEW p \in Players, NEW f \in Frames,
         LosePlayer(p) \/ LoseInHandoff(p) \/ ReturnPlayer(p) \/ HashResync(f)
  PROVE  RelayInv' /\ Shape
<1>1. /\ status \in InPlay \cup {"Setup"} /\ epochs \in Nat \X Nat
      /\ sock \in [Players -> {"gone", "control", "input"}]
  BY DEF RelayInv, RelayTypeOK
<1>2. 0 \in Nat /\ f \in Nat
  BY RelayAssumption DEF Frames
<1>3. ResetSync(0) \/ ResetSync(f)
  BY DEF LosePlayer, LoseInHandoff, ReturnPlayer, HashResync
<1>4. epochs' \in Nat \X Nat
  BY <1>1 DEF LosePlayer, LoseInHandoff, ReturnPlayer, HashResync, NextEpochs
<1>5. status' \in InPlay \cup {"Setup"}
  BY <1>1 DEF LosePlayer, LoseInHandoff, ReturnPlayer, HashResync
<1>6. sock' \in [Players -> {"gone", "control", "input"}]
  BY <1>1 DEF LosePlayer, LoseInHandoff, ReturnPlayer, HashResync
<1> QED
  BY <1>2, <1>3, <1>4, <1>5, <1>6, ResetInv

\* Every step keeps the invariant, and is nothing, a release or a restart.
LEMMA RelayStep ==
  RelayInv /\ [Next]_vars => RelayInv' /\ Shape
<1> SUFFICES ASSUME RelayInv, [Next]_vars PROVE RelayInv' /\ Shape
  OBVIOUS
<1>1. ASSUME NEW p \in Players, NEW b \in Batches, NEW s, NEW kind \in Kinds,
             EpochsMatch(s), Accept(p, kind, b, s)
      PROVE  RelayInv' /\ Shape
  <2>1. Accept(p, kind, b, epochs)
    BY <1>1 DEF EpochsMatch
  <2>2. RelayTypeOK' /\ RestInv'
    BY <2>1, AcceptStep
  <2>3. Shape
    BY <1>1 DEF Accept, Shape, room
  <2> QED
    BY <2>2, <2>3, Zenon DEF RelayInv, RestInv
<1>2. CASE \E p \in Players, b \in Batches, s \in (1..epochs[1]) \X (1..epochs[2]) :
             RelayInputFrameBatch(p, b, s) \/ RelayFastInputBatch(p, b, s)
  <2>1. "legacy" \in Kinds /\ "fast" \in Kinds
    BY DEF Kinds
  <2> QED
    BY <1>1, <1>2, <2>1, Zenon DEF RelayInputFrameBatch, RelayFastInputBatch
<1>3. CASE nextRelease <= MaxFrame /\ FrameClockTick
  <2>1. RelayTypeOK' /\ RestInv' /\ nextRelease' \in {nextRelease, nextRelease + 1}
    BY <1>3, TickStep
  <2>2. start' = start /\ syncs' = syncs
    BY <1>3 DEF FrameClockTick
  <2> QED
    BY <2>1, <2>2, Zenon DEF RelayInv, RestInv, Shape
<1>4. CASE \E p \in Players, f \in Frames : RequestPause(p, f)
  BY <1>4, PauseSteps, Zenon
<1>5. CASE \E p \in Players : PauseReached(p) \/ RequestResume(p)
  <2>1. 0 \in Frames
    BY RelayAssumption DEF Frames
  <2> QED
    BY <1>5, <2>1, PauseSteps, Zenon
<1>6. CASE \E p \in Players : LosePlayer(p) \/ LoseInHandoff(p) \/ ReturnPlayer(p)
  <2>1. 0 \in Frames
    BY RelayAssumption DEF Frames
  <2> QED
    BY <1>6, <2>1, RestartSteps, Zenon
<1>7. CASE \E p \in Players : DropInputSocket(p)
  BY <1>7, DropSteps, Zenon
<1>8. CASE \/ \E p \in Players : AttachInputSocket(p)
           \/ HostReattaches \/ CompatibilityAgain \/ ScheduleStart \/ StartTimeComes
           \/ \E d \in Delays : StartNow(d)
  <2>1. (\E d \in Delays : TRUE) /\ 1 \in Players
    BY RelayAssumption, Zenon DEF Players
  <2> QED
    BY <1>8, <2>1, RoomSteps, Zenon
<1>9. CASE \E f \in Frames : HashResync(f)
  <2>1. 1 \in Players
    BY DEF Players
  <2> QED
    BY <1>9, <2>1, RestartSteps, Zenon
<1>10. CASE UNCHANGED vars
  <2>1. UNCHANGED QuietVars /\ UNCHANGED <<status, due, sock, delay, pause>>
    BY <1>10 DEF vars, QuietVars
  <2> QED
    BY <2>1, QuietInv DEF RelayInv, RelayTypeOK
<1> QED
  BY <1>2, <1>3, <1>4, <1>5, <1>6, <1>7, <1>8, <1>9, <1>10, Zenon DEF Next

-----------------------------------------------------------------------------
(* The theorems *)

\* The inductive invariant holds for every number of frames and every budget.
THEOREM RelayInvariant == Spec => []RelayInv
<1>1. RelayInv /\ [Next]_vars => RelayInv'
  BY RelayStep
<1> QED
  BY <1>1, RelayInitially, PTL DEF Spec

\* What relay_accepted_input_frame and the frame clock send and hold back: every
\* input a room takes waits in exactly one buffer or has been sent exactly once.
THEOREM TakenInputIsRelayedOnce == Spec => []ExactlyOnce
<1>1. RelayInv => ExactlyOnce
  BY Zenon DEF RelayInv, CountInv, ExactlyOnce
<1> QED
  BY <1>1, RelayInvariant, PTL

\* Nothing is sent for other epochs than the room's, or ahead of the frame clock.
THEOREM StreamIsInPlace == Spec => []InPlace
<1>1. \A n : ServersUpTo(n) = ServersIn(stream, n)
  BY Zenon DEF ServersUpTo, ServersIn, IsServer
<1>2. RelayInv => InPlace
  <2> SUFFICES ASSUME RelayInv, NEW i \in DOMAIN stream
               PROVE  /\ stream[i].sent = epochs
                      /\ \/ IsServer(stream[i])
                         \/ stream[i].frame < start + Cardinality(ServersUpTo(i - 1))
                         \/ /\ stream[i].frame = start + Cardinality(ServersUpTo(i - 1))
                            /\ i < Len(stream)
                            /\ stream[i + 1].frame = start + Cardinality(ServersUpTo(i - 1))
    BY Zenon DEF InPlace
  <2>1. ServersUpTo(i - 1) = ServersIn(stream, i - 1)
    BY <1>1
  <2> QED
    BY <2>1, Zenon DEF RelayInv, StreamOk, PlacesOk, IsServer
<1> QED
  BY <1>2, RelayInvariant, PTL

\* The frames a room releases are those of FrameRelease, which every restart of
\* the stream begins again.
THEOREM RelayReleasesInOrder == Spec => ReleasesInOrder
<1>1. ServerFrames = FramesIn(stream) /\ ServerFrames' = FramesIn(stream')
  BY Zenon DEF ServerFrames, FramesIn, ServersUpTo, ServersIn, IsServer
<1>2. Init => Abstract!Init
  <2> SUFFICES ASSUME Init PROVE Abstract!Init
    OBVIOUS
  <2>1. start = 0 /\ syncs = 0 /\ nextRelease = 0
    BY DEF Init
  <2>2. ServerFrames = [n \in 1 .. (nextRelease - start) |-> start + n - 1]
    BY <1>1, RelayInitially DEF RelayInv, StreamOk
  <2>3. ServerFrames = << >>
    BY <2>1, <2>2
  <2> QED
    BY <2>1, <2>3 DEF Abstract!Init
<1>3. RelayInv /\ [Next]_vars => [Abstract!Next]_(Abstract!vars)
  <2> SUFFICES ASSUME RelayInv, [Next]_vars PROVE [Abstract!Next]_(Abstract!vars)
    OBVIOUS
  <2>1. RelayInv' /\ Shape
    BY RelayStep
  <2>2. PICK log, new : log = ServerFrames /\ new = ServerFrames'
    OBVIOUS
  <2>3. /\ log = [n \in 1 .. (nextRelease - start) |-> start + n - 1]
        /\ new = [n \in 1 .. (nextRelease' - start') |-> start' + n - 1]
    BY <1>1, <2>1, <2>2 DEF RelayInv, StreamOk
  <2>4. start \in Nat /\ nextRelease \in Nat /\ start <= nextRelease
    BY DEF RelayInv, RelayTypeOK, CursorsInv
  <2>5. CASE start' = start /\ syncs' = syncs /\ nextRelease' = nextRelease
    <3>1. new = log
      BY <2>3, <2>5
    <3> QED
      BY <2>2, <2>5, <3>1 DEF Abstract!vars
  <2>6. CASE start' = start /\ syncs' = syncs /\ nextRelease' = nextRelease + 1
    <3>1. PICK c \in Nat : c = nextRelease - start
      BY <2>4
    <3>2. log = [n \in 1 .. c |-> start + n - 1] /\ new = [n \in 1 .. (c + 1) |-> start + n - 1]
      <4>1. nextRelease' - start' = c + 1
        BY <2>4, <2>6, <3>1
      <4> QED
        BY <2>3, <2>6, <3>1, <4>1
    <3>3. log \in Seq(Nat) /\ Len(log) = c
      BY <2>4, <3>2
    <3>4. (IF log = << >> THEN start ELSE log[Len(log)] + 1) = start + c
      <4>1. CASE c = 0
        BY <2>4, <3>2, <3>3, <4>1
      <4>2. CASE c # 0
        <5>1. c \in 1 .. c /\ log[c] = start + c - 1 /\ log # << >>
          BY <3>2, <3>3, <4>2
        <5> QED
          BY <2>4, <3>3, <5>1
      <4> QED
        BY <4>1, <4>2
    <3>5. new = Append(log, start + c)
      <4>1. Append(log, start + c) = [n \in 1 .. (c + 1) |-> IF n = c + 1 THEN start + c ELSE log[n]]
        BY <3>3
      <4> QED
        BY <2>4, <3>2, <4>1
    <3> QED
      BY <2>2, <2>6, <3>4, <3>5 DEF Abstract!Next, Abstract!Release
  <2>7. CASE start' \in Nat /\ syncs' = syncs + 1 /\ nextRelease' = start'
    <3>0. PICK g \in Nat : g = start' /\ g = nextRelease'
      BY <2>7, Zenon
    <3>1. new = << >>
      <4>0. g - g = 0
        OBVIOUS
      <4>1. new = [n \in 1 .. 0 |-> g + n - 1]
        BY <2>3, <3>0, <4>0, Zenon
      <4> QED
        BY <4>1
    <3> QED
      BY <2>2, <2>7, <3>1 DEF Abstract!Next, Abstract!NewEpoch
  <2> QED
    BY <2>1, <2>5, <2>6, <2>7 DEF Shape
<1> QED
  BY <1>2, <1>3, RelayInvariant, PTL DEF Spec, ReleasesInOrder, Abstract!Spec
=============================================================================
