----------------------------- MODULE WebProofs ------------------------------
(***************************************************************************)
(* What a web service lets out: what a nested serializer shows of a        *)
(* response, and how many calls of a limited endpoint go through.          *)
(***************************************************************************)
EXTENDS Projection, RateLimiter, FiniteSetTheorems, WellFoundedInduction, TLAPS

(***************************************************************************)
(* DescentKeepsMeaning for any query, policy, endpoint and nesting of      *)
(* blocks.  A path is a sequence of segments; what follows is about the    *)
(* paths that lead to others.                                              *)
(***************************************************************************)

LEMMA PrefixMeans ==
  ASSUME NEW S, NEW s \in Seq(S), NEW t \in Seq(S)
  PROVE  Leads(s, t) <=> Len(s) <= Len(t) /\ \A i \in 1..Len(s) : s[i] = t[i]
<1>1. ASSUME Len(s) <= Len(t)
      PROVE  SubSeq(t, 1, Len(s)) = [i \in 1..Len(s) |-> t[i]]
  <2>1. Len(s) \in Nat /\ Len(t) \in Nat
    OBVIOUS
  <2>. QED  BY <1>1, <2>1 DEF SubSeq
<1>2. [i \in 1..Len(s) |-> s[i]] = [i \in 1..Len(s) |-> t[i]] <=> \A i \in 1..Len(s) : s[i] = t[i]
  <2>1. ASSUME [i \in 1..Len(s) |-> s[i]] = [i \in 1..Len(s) |-> t[i]], NEW i \in 1..Len(s)
        PROVE  s[i] = t[i]
    <3>1. [j \in 1..Len(s) |-> s[j]][i] = [j \in 1..Len(s) |-> t[j]][i]
      BY <2>1, Zenon
    <3>. QED  BY <3>1, Zenon
  <2>. QED  BY <2>1, Zenon
<1>3. s = [i \in 1..Len(s) |-> s[i]]
  OBVIOUS
<1>. QED  BY <1>1, <1>2, <1>3, Zenon DEF Leads

LEMMA PrefixOfItself ==
  ASSUME NEW S, NEW s \in Seq(S)
  PROVE  Leads(s, s)
BY PrefixMeans

LEMMA PrefixTransitive ==
  ASSUME NEW S, NEW s \in Seq(S), NEW t \in Seq(S), NEW u \in Seq(S), Leads(s, t), Leads(t, u)
  PROVE  Leads(s, u)
<1>1. Len(s) <= Len(t) /\ \A i \in 1..Len(s) : s[i] = t[i]
  BY PrefixMeans
<1>2. Len(t) <= Len(u) /\ \A i \in 1..Len(t) : t[i] = u[i]
  BY PrefixMeans
<1>3. Len(s) <= Len(u) /\ \A i \in 1..Len(s) : s[i] = u[i]
  BY <1>1, <1>2
<1>. QED  BY <1>3, PrefixMeans, Zenon

LEMMA PrefixesCompare ==
  ASSUME NEW S, NEW s \in Seq(S), NEW t \in Seq(S), NEW u \in Seq(S), Leads(s, u), Leads(t, u)
  PROVE  Leads(s, t) \/ Leads(t, s)
<1>1. Len(s) <= Len(u) /\ \A i \in 1..Len(s) : s[i] = u[i]
  BY PrefixMeans
<1>2. Len(t) <= Len(u) /\ \A i \in 1..Len(t) : t[i] = u[i]
  BY PrefixMeans
<1>3. CASE Len(s) <= Len(t)
  <2>1. \A i \in 1..Len(s) : s[i] = t[i]
    BY <1>1, <1>2, <1>3
  <2>. QED  BY <2>1, <1>3, PrefixMeans, Zenon
<1>4. CASE Len(t) <= Len(s)
  <2>1. \A i \in 1..Len(t) : t[i] = s[i]
    BY <1>1, <1>2, <1>4
  <2>. QED  BY <2>1, <1>4, PrefixMeans, Zenon
<1>. QED  BY <1>3, <1>4

LEMMA PrefixOfNothing ==
  ASSUME NEW S, NEW s \in Seq(S), Leads(s, <<>>)
  PROVE  s = <<>>
<1>1. <<>> \in Seq(S) /\ Len(<<>>) = 0
  OBVIOUS
<1>2. Len(s) <= 0
  BY <1>1, PrefixMeans, Zenon
<1>. QED  BY <1>2

LEMMA JoinedAt ==
  ASSUME NEW S, NEW s \in Seq(S), NEW t \in Seq(S)
  PROVE  /\ s \o t \in Seq(S) /\ Len(s \o t) = Len(s) + Len(t) /\ Len(s) \in Nat /\ Len(t) \in Nat
         /\ \A i \in 1..Len(s) : (s \o t)[i] = s[i]
         /\ \A i \in 1..Len(t) : (s \o t)[i + Len(s)] = t[i]
         /\ \A i \in 1..(Len(s) + Len(t)) : i \in 1..Len(s) \/ (i - Len(s) \in 1..Len(t) /\ (i - Len(s)) + Len(s) = i)
<1>1. s \o t \in Seq(S) /\ Len(s \o t) = Len(s) + Len(t) /\ Len(s) \in Nat /\ Len(t) \in Nat
  OBVIOUS
<1>2. \A i \in 1..Len(s) : (s \o t)[i] = s[i]
  OBVIOUS
<1>3. \A i \in 1..Len(t) : (s \o t)[i + Len(s)] = t[i]
  BY <1>1
<1>4. \A i \in 1..(Len(s) + Len(t)) : i \in 1..Len(s) \/ (i - Len(s) \in 1..Len(t) /\ (i - Len(s)) + Len(s) = i)
  BY <1>1
<1>. QED  BY <1>1, <1>2, <1>3, <1>4, Zenon

LEMMA SameSequence ==
  ASSUME NEW S, NEW s \in Seq(S), NEW t \in Seq(S), Len(s) = Len(t), \A i \in 1..Len(s) : s[i] = t[i]
  PROVE  s = t
OBVIOUS

LEMMA PrefixOfJoined ==
  ASSUME NEW S, NEW s \in Seq(S), NEW t \in Seq(S)
  PROVE  s \o t \in Seq(S) /\ Leads(s, s \o t)
<1>1. s \o t \in Seq(S) /\ Len(s) <= Len(s \o t) /\ \A i \in 1..Len(s) : s[i] = (s \o t)[i]
  OBVIOUS
<1>. QED  BY <1>1, PrefixMeans, Zenon

LEMMA PrefixSplits ==
  ASSUME NEW S, NEW s \in Seq(S), NEW t \in Seq(S), Leads(s, t)
  PROVE  /\ RemovePrefix(t, s) \in Seq(S) /\ t = s \o RemovePrefix(t, s)
         /\ s # t => RemovePrefix(t, s) # <<>>
<1>1. Len(s) <= Len(t) /\ \A i \in 1..Len(s) : s[i] = t[i]
  BY PrefixMeans
<1>2. Len(s) \in Nat /\ Len(t) \in Nat /\ Len(t) - Len(s) \in Nat
  BY <1>1
<1>3. PICK r : r = RemovePrefix(t, s)
  BY Zenon
<1>4. r = [i \in 1..(Len(t) - Len(s)) |-> t[i + Len(s)]]
  <2>1. r = [i \in 1..(Len(t) - (Len(s) + 1) + 1) |-> t[i + (Len(s) + 1) - 1]]
    BY <1>2, <1>3 DEF RemovePrefix, SubSeq
  <2>. QED  BY <1>2, <2>1
<1>5. r \in Seq(S) /\ Len(r) = Len(t) - Len(s) /\ \A i \in 1..Len(r) : r[i] = t[i + Len(s)]
  BY <1>1, <1>2, <1>4
<1>6. t = s \o r
  <2>1. s \o r \in Seq(S) /\ Len(s \o r) = Len(t)
    BY <1>2, <1>5
  <2>2. ASSUME NEW i \in 1..Len(t) PROVE (s \o r)[i] = t[i]
    <3>1. CASE i \in 1..Len(s)
      BY <1>1, <1>5, <3>1, JoinedAt
    <3>2. CASE i - Len(s) \in 1..Len(r)
      <4>1. PICK k \in 1..Len(r) : k = i - Len(s)
        BY <3>2, Zenon
      <4>2. i = k + Len(s)
        BY <1>2, <4>1
      <4>. QED  BY <1>5, <4>2, JoinedAt
    <3>. QED  BY <1>2, <1>5, <3>1, <3>2
  <2>3. \A i \in 1..Len(s \o r) : (s \o r)[i] = t[i]
    BY <2>1, <2>2, Zenon
  <2>. HIDE DEF RemovePrefix
  <2>. QED  BY <2>1, <2>3, SameSequence, Zenon
<1>7. s # t => r # <<>>
  <2>1. r = <<>> => s \o r = s
    OBVIOUS
  <2>. QED  BY <2>1, <1>6, Zenon
<1>. QED  BY <1>3, <1>5, <1>6, <1>7, Zenon

LEMMA JoinedApart ==
  ASSUME NEW S, NEW s \in Seq(S), NEW t \in Seq(S), t # <<>>
  PROVE  RemovePrefix(s \o t, s) = t /\ s \o t # s /\ s \o t # <<>>
<1>1. Len(s) \in Nat /\ Len(t) \in Nat /\ Len(t) # 0 /\ Len(s \o t) = Len(s) + Len(t)
  OBVIOUS
<1>2. PICK j : j = s \o t
  BY Zenon
<1>3. Len(j) = Len(s) + Len(t) /\ j \in Seq(S) /\ \A i \in 1..Len(t) : j[i + Len(s)] = t[i]
  BY <1>1, <1>2
<1>4. RemovePrefix(j, s) = [i \in 1..(Len(j) - (Len(s) + 1) + 1) |-> j[i + (Len(s) + 1) - 1]]
  BY <1>1, <1>3 DEF RemovePrefix, SubSeq
<1>5. RemovePrefix(j, s) = [i \in 1..Len(t) |-> t[i]]
  BY <1>1, <1>3, <1>4
<1>6. RemovePrefix(j, s) = t
  BY <1>5
<1>7. Len(s \o t) # Len(s) /\ Len(s \o t) # 0
  BY <1>1
<1>. QED  BY <1>2, <1>6, <1>7

LEMMA JoinedThrice ==
  ASSUME NEW S, NEW s \in Seq(S), NEW t \in Seq(S), NEW u \in Seq(S)
  PROVE  (s \o t) \o u = s \o (t \o u)
OBVIOUS

LEMMA PrefixAfter ==
  ASSUME NEW S, NEW s \in Seq(S), NEW t \in Seq(S), NEW u \in Seq(S)
  PROVE  Leads(s \o t, s \o u) <=> Leads(t, u)
<1>1. s \o t \in Seq(S) /\ s \o u \in Seq(S)
  OBVIOUS
<1>2. Len(s \o t) <= Len(s \o u) <=> Len(t) <= Len(u)
  OBVIOUS
<1>3. ASSUME \A i \in 1..Len(s \o t) : (s \o t)[i] = (s \o u)[i], Len(t) <= Len(u), NEW i \in 1..Len(t)
      PROVE  t[i] = u[i]
  <2>1. i + Len(s) \in 1..Len(s \o t) /\ i \in 1..Len(u)
    BY <1>3
  <2>2. (s \o t)[i + Len(s)] = t[i] /\ (s \o u)[i + Len(s)] = u[i]
    BY <2>1, JoinedAt
  <2>3. (s \o t)[i + Len(s)] = (s \o u)[i + Len(s)]
    BY <1>3, <2>1, Zenon
  <2>. QED  BY <2>2, <2>3, Zenon
<1>4. ASSUME \A i \in 1..Len(t) : t[i] = u[i], Len(t) <= Len(u), NEW i \in 1..Len(s \o t)
      PROVE  (s \o t)[i] = (s \o u)[i]
  <2>1. CASE i \in 1..Len(s)
    BY <2>1, JoinedAt
  <2>2. CASE i - Len(s) \in 1..Len(t)
    <3>1. PICK k \in 1..Len(t) : k = i - Len(s)
      BY <2>2, Zenon
    <3>2. i = k + Len(s) /\ k \in 1..Len(u)
      BY <1>4, <3>1
    <3>3. (s \o t)[k + Len(s)] = t[k] /\ (s \o u)[k + Len(s)] = u[k]
      BY <3>2, JoinedAt
    <3>. QED  BY <1>4, <3>2, <3>3, Zenon
  <2>. QED  BY <2>1, <2>2, JoinedAt, Zenon
<1>5. Leads(s \o t, s \o u) <=>
        Len(s \o t) <= Len(s \o u) /\ \A i \in 1..Len(s \o t) : (s \o t)[i] = (s \o u)[i]
  <2>1. PICK x \in Seq(S), y \in Seq(S) : x = s \o t /\ y = s \o u
    BY <1>1, Zenon
  <2>2. Leads(x, y) <=> Len(x) <= Len(y) /\ \A i \in 1..Len(x) : x[i] = y[i]
    BY PrefixMeans
  <2>. QED  BY <2>1, <2>2, Zenon
<1>6. Leads(t, u) <=> Len(t) <= Len(u) /\ \A i \in 1..Len(t) : t[i] = u[i]
  BY PrefixMeans
<1>. QED  BY <1>2, <1>3, <1>4, <1>5, <1>6, Zenon

-----------------------------------------------------------------------------
(* The segments of a normalized path are the ones the code keeps.          *)

Path == Seq(Segment)

LEMMA LeastNatural ==
  ASSUME NEW S \in SUBSET Nat, S # {}
  PROVE  \E m \in S : \A k \in S : m <= k
<1>. DEFINE R == OpToRel(<, Nat)
<1>1. IsWellFoundedOn(R, Nat)
  BY NatLessThanWellFounded, Zenon
<1>2. PICK m \in S : \A y \in S : ~(<<y, m>> \in R)
  <2>. HIDE DEF R
  <2>. QED  BY <1>1, WFMin, Zenon
<1>3. \A y \in S : <<y, m>> \in R <=> y < m
  BY Zenon DEF OpToRel
<1>. HIDE DEF R
<1>4. \A y \in S : ~(y < m) /\ y \in Nat
  BY <1>2, <1>3, Zenon
<1>5. \A y \in S : m <= y
  BY <1>4
<1>. QED  BY <1>5, Zenon

FilterStep(s, S, f, n) ==
    IF n = 0 THEN <<>> ELSE IF s[n] \in S THEN Append(f[n - 1], s[n]) ELSE f[n - 1]

\* The recursive definition of Filtered has a solution.
LEMMA FilterExists ==
  ASSUME NEW T, NEW s \in Seq(T), NEW S
  PROVE  \E f : f = [n \in 0..Len(s) |-> FilterStep(s, S, f, n)]
<1>. DEFINE bad == {n \in 0..Len(s) : ~\E f : f = [k \in 0..n |-> FilterStep(s, S, f, k)]}
<1>0. Len(s) \in Nat
  OBVIOUS
<1>1. bad = {}
  <2>. SUFFICES ASSUME bad # {} PROVE FALSE
    BY Zenon
  <2>1. PICK m \in bad : \A k \in bad : m <= k
    <3>1. bad \in SUBSET Nat
      BY <1>0
    <3>. HIDE DEF bad
    <3>. QED  BY <3>1, LeastNatural, Zenon
  <2>2. m \in 0..Len(s) /\ m \in Nat
    BY <1>0
  <2>3. ~\E f : f = [k \in 0..m |-> FilterStep(s, S, f, k)]
    BY <2>1, Zenon
  <2>4. m # 0
    <3>. SUFFICES ASSUME m = 0 PROVE FALSE
      BY Zenon
    <3>. DEFINE f == [k \in 0..m |-> <<>>]
    <3>1. f = [k \in 0..m |-> FilterStep(s, S, f, k)]
      <4>1. \A k \in 0..m : k = 0
        OBVIOUS
      <4>2. \A k \in 0..m : FilterStep(s, S, f, k) = <<>>
        BY <4>1, Zenon DEF FilterStep
      <4>. QED  BY <4>2, Zenon
    <3>. HIDE DEF f
    <3>. QED  BY <2>3, <3>1, Zenon
  <2>5. PICK g : g = [k \in 0..(m - 1) |-> FilterStep(s, S, g, k)]
    <3>1. m - 1 \in 0..Len(s) /\ ~(m <= m - 1)
      BY <1>0, <2>2, <2>4
    <3>2. m - 1 \notin bad
      BY <2>1, <3>1, Zenon
    <3>. QED  BY <3>1, <3>2, Zenon
  <2>. DEFINE f == [k \in 0..m |-> IF k = m THEN FilterStep(s, S, g, m) ELSE g[k]]
  <2>6. \A k \in 0..m : f[k] = FilterStep(s, S, f, k)
    <3>. SUFFICES ASSUME NEW k \in 0..m PROVE f[k] = FilterStep(s, S, f, k)
      BY Zenon
    <3>0. k \in Nat
      BY <2>2
    <3>1. k # 0 => f[k - 1] = g[k - 1]
      BY <2>2, <3>0
    <3>. HIDE DEF f
    <3>2. FilterStep(s, S, f, k) = FilterStep(s, S, g, k)
      <4>1. CASE k = 0
        BY <4>1, Zenon DEF FilterStep
      <4>2. CASE k # 0
        BY <3>1, <4>2, Zenon DEF FilterStep
      <4>. QED  BY <4>1, <4>2, Zenon
    <3>. USE DEF f
    <3>3. k # m => g[k] = FilterStep(s, S, g, k)
      <4>1. k # m => k \in 0..(m - 1)
        BY <2>2, <3>0
      <4>. QED  BY <2>5, <4>1, Zenon
    <3>. QED  BY <3>2, <3>3, Zenon
  <2>7. f = [k \in 0..m |-> FilterStep(s, S, f, k)]
    <3>. DEFINE h == [k \in 0..m |-> FilterStep(s, S, f, k)]
    <3>1. DOMAIN f = 0..m /\ \A k \in 0..m : f[k] = h[k]
      BY <2>6, Zenon
    <3>. QED  BY <2>6, Zenon
  <2>. HIDE DEF f
  <2>. QED  BY <2>3, <2>7, Zenon
<1>. QED  BY <1>0, <1>1

LEMMA AppendedElements ==
  ASSUME NEW T, NEW u \in Seq(T), NEW x \in T
  PROVE  Append(u, x) \in Seq(T) /\ Elements(Append(u, x)) = Elements(u) \cup {x}
<1>1. /\ Append(u, x) \in Seq(T) /\ DOMAIN Append(u, x) = DOMAIN u \cup {Len(u) + 1}
      /\ \A i \in DOMAIN u : Append(u, x)[i] = u[i]
      /\ Append(u, x)[Len(u) + 1] = x
  OBVIOUS
<1>. QED  BY <1>1, Zenon DEF Elements

LEMMA FilteredMeans ==
  ASSUME NEW T, NEW s \in Seq(T), NEW S
  PROVE  Filtered(s, S) \in Seq(T) /\ Elements(Filtered(s, S)) = Elements(s) \cap S
<1>. DEFINE f == CHOOSE f : f = [n \in 0..Len(s) |-> FilterStep(s, S, f, n)]
            good(n) == f[n] \in Seq(T) /\ Elements(f[n]) = {s[i] : i \in 1..n} \cap S
            bad == {n \in 0..Len(s) : ~good(n)}
<1>0. Len(s) \in Nat /\ DOMAIN s = 1..Len(s)
  OBVIOUS
<1>1. Filtered(s, S) = f[Len(s)]
  BY Zenon DEF Filtered, FilterStep
<1>2. \A n \in 0..Len(s) : f[n] = FilterStep(s, S, f, n)
  <2>1. f = [n \in 0..Len(s) |-> FilterStep(s, S, f, n)]
    BY FilterExists, Zenon
  <2>. HIDE DEF f
  <2>. QED  BY <2>1, Zenon
<1>. HIDE DEF f
<1>3. bad = {}
  <2>. SUFFICES ASSUME bad # {} PROVE FALSE
    BY Zenon
  <2>1. PICK m \in bad : \A k \in bad : m <= k
    <3>1. bad \in SUBSET Nat
      BY <1>0
    <3>. HIDE DEF bad
    <3>. QED  BY <3>1, LeastNatural, Zenon
  <2>2. m \in 0..Len(s) /\ m \in Nat
    BY <1>0
  <2>3. f[m] = FilterStep(s, S, f, m) /\ ~good(m)
    BY <1>2, <2>1, <2>2, Zenon
  <2>. HIDE DEF bad
  <2>4. CASE m = 0
    <3>1. f[m] = <<>>
      BY <2>3, <2>4, Zenon DEF FilterStep
    <3>2. <<>> \in Seq(T) /\ DOMAIN <<>> = {} /\ 1..m = {}
      BY <2>4
    <3>3. Elements(<<>>) = {} /\ {s[i] : i \in 1..m} = {}
      BY <3>2, Zenon DEF Elements
    <3>. QED  BY <2>3, <3>1, <3>2, <3>3, Zenon
  <2>5. CASE m # 0
    <3>1. m - 1 \in 0..Len(s) /\ ~(m <= m - 1) /\ m \in 1..Len(s) /\ 1..m = (1..(m - 1)) \cup {m}
      BY <1>0, <2>2, <2>5
    <3>2. good(m - 1)
      BY <2>1, <3>1, Zenon DEF bad
    <3>3. {s[i] : i \in 1..m} = {s[i] : i \in 1..(m - 1)} \cup {s[m]} /\ s[m] \in T
      <4>1. s[m] \in T
        BY <3>1
      <4>. QED  BY <3>1, <4>1, Zenon
    <3>4. CASE s[m] \in S
      <4>1. f[m] = Append(f[m - 1], s[m])
        BY <2>3, <2>5, <3>4, Zenon DEF FilterStep
      <4>2. f[m] \in Seq(T) /\ Elements(f[m]) = Elements(f[m - 1]) \cup {s[m]}
        <5>. DEFINE u == f[m - 1]
                    x == s[m]
        <5>1. u \in Seq(T) /\ x \in T /\ f[m] = Append(u, x)
          BY <3>2, <3>3, <4>1, Zenon
        <5>. HIDE DEF u, x
        <5>2. Append(u, x) \in Seq(T) /\ Elements(Append(u, x)) = Elements(u) \cup {x}
          BY <5>1, AppendedElements, Zenon
        <5>. QED  BY <5>1, <5>2, Zenon DEF u, x
      <4>3. \A v : v \in Elements(f[m]) <=> v \in {s[i] : i \in 1..m} /\ v \in S
        <5>1. \A v : v \in {s[i] : i \in 1..m} <=> v \in {s[i] : i \in 1..(m - 1)} \/ v = s[m]
          BY <3>3, Zenon
        <5>2. \A v : v \in Elements(f[m]) <=> v \in Elements(f[m - 1]) \/ v = s[m]
          BY <4>2, Zenon
        <5>3. \A v : v \in Elements(f[m - 1]) <=> v \in {s[i] : i \in 1..(m - 1)} /\ v \in S
          BY <3>2, Zenon
        <5>. QED  BY <3>4, <5>1, <5>2, <5>3, Zenon
      <4>4. Elements(f[m]) = {s[i] : i \in 1..m} \cap S
        BY <4>3, Zenon
      <4>. QED  BY <2>3, <4>2, <4>4, Zenon
    <3>5. CASE s[m] \notin S
      <4>1. f[m] = f[m - 1]
        BY <2>3, <2>5, <3>5, Zenon DEF FilterStep
      <4>. QED  BY <2>3, <3>2, <3>3, <3>5, <4>1, Zenon
    <3>. QED  BY <3>4, <3>5, Zenon
  <2>. QED  BY <2>4, <2>5, Zenon
<1>4. Len(s) \in 0..Len(s)
  BY <1>0
<1>5. good(Len(s))
  BY <1>3, <1>4, Zenon
<1>. QED  BY <1>0, <1>1, <1>5, Zenon DEF Elements

LEMMA NormalizedPath ==
  ASSUME NEW raw \in RawPath
  PROVE  NormalizePath(raw) \in Path
<1>1. [i \in DOMAIN raw |-> Folded[raw[i]]] \in Seq(Segment)
  <2>1. /\ Len(raw) \in Nat /\ DOMAIN raw = 1..Len(raw) /\ \A i \in DOMAIN raw : raw[i] \in DOMAIN Folded
    BY DEF RawPath
  <2>2. \A i \in DOMAIN raw : Folded[raw[i]] \in Segment
    BY <2>1, Zenon DEF Segment
  <2>. QED  BY <2>1, <2>2
<1>. QED  BY <1>1, FilteredMeans, Zenon DEF NormalizePath, Path

-----------------------------------------------------------------------------
(* Sets of paths, seen from a block. *)

LEMMA PathsJoined ==
  ASSUME NEW a \in Path, NEW x \in ResponsePath
  PROVE  x \in Path /\ x # <<>> /\ a \o x \in ResponsePath /\ a \o x \in Path /\ Leads(a, a \o x)
<1>1. x \in Path /\ x # <<>>
  BY Zenon DEF Path, ResponsePath
<1>2. a \o x \in Path /\ Leads(a, a \o x)
  BY <1>1, PrefixOfJoined, Zenon DEF Path
<1>3. a \o x # <<>>
  BY <1>1, JoinedApart, Zenon DEF Path
<1>. QED  BY <1>1, <1>2, <1>3, Zenon DEF Path, ResponsePath

LEMMA BelowMeans ==
  ASSUME NEW Q \in SUBSET ResponsePath, NEW a \in Path, NEW x
  PROVE  x \in Below(Q, a) <=> x \in ResponsePath /\ a \o x \in Q
<1>1. ASSUME x \in Below(Q, a) PROVE x \in ResponsePath /\ a \o x \in Q
  <2>1. PICK p \in Q : p # a /\ Leads(a, p) /\ x = RemovePrefix(p, a)
    BY <1>1, Zenon DEF Below, IsSameOrDescendant
  <2>2. p \in Path
    BY Zenon DEF Path, ResponsePath
  <2>3. RemovePrefix(p, a) \in Path /\ p = a \o RemovePrefix(p, a) /\ RemovePrefix(p, a) # <<>>
    BY <2>1, <2>2, PrefixSplits, Zenon DEF Path
  <2>. QED  BY <2>1, <2>3, Zenon DEF Path, ResponsePath
<1>2. ASSUME x \in ResponsePath, a \o x \in Q PROVE x \in Below(Q, a)
  <2>1. x \in Path /\ x # <<>> /\ Leads(a, a \o x)
    BY <1>2, PathsJoined, Zenon
  <2>2. RemovePrefix(a \o x, a) = x /\ a \o x # a
    BY <2>1, JoinedApart, Zenon DEF Path
  <2>3. a \o x \in {q \in Q : q # a /\ IsSameOrDescendant(q, a)}
    BY <1>2, <2>1, <2>2, Zenon DEF IsSameOrDescendant
  <2>. QED  BY <2>2, <2>3, Zenon DEF Below
<1>. QED  BY <1>1, <1>2, Zenon

LEMMA BelowJoined ==
  ASSUME NEW Q \in SUBSET ResponsePath, NEW S \in SUBSET ResponsePath, NEW a \in Path, NEW p \in ResponsePath,
         \A x \in S : a \o x \in Q
  PROVE  \A x \in Below(S, p) : x \in ResponsePath /\ (a \o p) \o x \in Q
<1>. SUFFICES ASSUME NEW x \in Below(S, p) PROVE x \in ResponsePath /\ (a \o p) \o x \in Q
  BY Zenon
<1>1. p \in Path
  BY Zenon DEF Path, ResponsePath
<1>2. x \in ResponsePath /\ p \o x \in S
  BY <1>1, BelowMeans, Zenon
<1>3. x \in Path
  BY <1>2, Zenon DEF Path, ResponsePath
<1>4. (a \o p) \o x = a \o (p \o x)
  BY <1>1, <1>3, JoinedThrice DEF Path
<1>. QED  BY <1>2, <1>4, Zenon

LEMMA BelowBelow ==
  ASSUME NEW Q \in SUBSET ResponsePath, NEW S \in SUBSET ResponsePath, NEW a \in Path, NEW p \in ResponsePath,
         Below(Q, a) \subseteq S
  PROVE  Below(Q, a \o p) \subseteq Below(S, p)
<1>. SUFFICES ASSUME NEW x \in Below(Q, a \o p) PROVE x \in Below(S, p)
  BY Zenon
<1>1. p \in Path /\ a \o p \in Path
  BY PathsJoined, Zenon
<1>2. x \in ResponsePath /\ (a \o p) \o x \in Q
  BY <1>1, BelowMeans, Zenon
<1>3. x \in Path
  BY <1>2, Zenon DEF Path, ResponsePath
<1>4. (a \o p) \o x = a \o (p \o x)
  BY <1>1, <1>3, JoinedThrice DEF Path
<1>5. p \o x \in ResponsePath
  BY <1>1, <1>2, PathsJoined, Zenon
<1>6. p \o x \in S
  BY <1>2, <1>4, <1>5, BelowMeans, Zenon
<1>. QED  BY <1>1, <1>2, <1>6, BelowMeans, Zenon

LEMMA AboveOrBelow ==
  ASSUME NEW Q \in SUBSET ResponsePath, NEW S \in SUBSET ResponsePath, NEW a \in Path, NEW p \in ResponsePath,
         Below(Q, a) \subseteq S, AnyAbove(Q, a \o p)
  PROVE  AnyAbove(Q, a) \/ AnyAbove(S, p)
<1>1. p \in Path /\ a \o p \in Path /\ Leads(a, a \o p)
  BY PathsJoined, Zenon
<1>2. PICK q \in Q : Leads(q, a \o p)
  BY Zenon DEF AnyAbove, IsSameOrDescendant
<1>3. q \in Path
  BY Zenon DEF Path, ResponsePath
<1>4. CASE Leads(q, a)
  BY <1>4, Zenon DEF AnyAbove, IsSameOrDescendant
<1>5. CASE Leads(a, q) /\ q # a
  <2>1. PICK y \in Path : y # <<>> /\ q = a \o y
    BY <1>3, <1>5, PrefixSplits, Zenon DEF Path
  <2>2. Leads(y, p)
    BY <1>1, <1>2, <2>1, PrefixAfter, Zenon DEF Path
  <2>3. y \in ResponsePath
    BY <2>1, Zenon DEF Path, ResponsePath
  <2>4. y \in S
    BY <2>1, <2>3, BelowMeans, Zenon
  <2>. QED  BY <2>2, <2>4, Zenon DEF AnyAbove, IsSameOrDescendant
<1>6. Leads(a, a)
  BY PrefixOfItself, Zenon DEF Path
<1>7. Leads(q, a) \/ Leads(a, q)
  BY <1>1, <1>2, <1>3, PrefixesCompare, Zenon DEF Path
<1>. QED  BY <1>4, <1>5, <1>6, <1>7, Zenon

LEMMA AboveJoined ==
  ASSUME NEW Q \in SUBSET ResponsePath, NEW S \in SUBSET ResponsePath, NEW a \in Path, NEW p \in ResponsePath,
         \A x \in S : a \o x \in Q, AnyAbove(S, p)
  PROVE  AnyAbove(Q, a \o p)
<1>1. PICK x \in S : Leads(x, p)
  BY Zenon DEF AnyAbove, IsSameOrDescendant
<1>2. x \in Path /\ p \in Path
  BY Zenon DEF Path, ResponsePath
<1>3. Leads(a \o x, a \o p)
  BY <1>1, <1>2, PrefixAfter, Zenon DEF Path
<1>. QED  BY <1>3, Zenon DEF AnyAbove, IsSameOrDescendant

LEMMA AboveFurther ==
  ASSUME NEW Q \in SUBSET ResponsePath, NEW a \in Path, NEW p \in ResponsePath, AnyAbove(Q, a)
  PROVE  AnyAbove(Q, a \o p)
<1>1. p \in Path /\ a \o p \in Path /\ Leads(a, a \o p)
  BY PathsJoined, Zenon
<1>2. PICK q \in Q : Leads(q, a)
  BY Zenon DEF AnyAbove, IsSameOrDescendant
<1>3. q \in Path
  BY Zenon DEF Path, ResponsePath
<1>4. Leads(q, a \o p)
  BY <1>1, <1>2, <1>3, PrefixTransitive, Zenon DEF Path
<1>. QED  BY <1>4, Zenon DEF AnyAbove, IsSameOrDescendant

LEMMA AboveOneSegment ==
  ASSUME NEW S \in SUBSET ResponsePath, NEW p \in ResponsePath, Len(p) = 1, AnyAbove(S, p)
  PROVE  p \in S
<1>1. PICK x \in S : Leads(x, p)
  BY Zenon DEF AnyAbove, IsSameOrDescendant
<1>2. x \in Path /\ p \in Path /\ x # <<>>
  BY Zenon DEF Path, ResponsePath
<1>3. Len(x) <= Len(p) /\ \A i \in 1..Len(x) : x[i] = p[i]
  BY <1>1, <1>2, PrefixMeans DEF Path
<1>4. Len(x) = 1
  BY <1>2, <1>3 DEF Path
<1>5. x = p
  BY <1>2, <1>3, <1>4, SameSequence, Zenon DEF Path
<1>. QED  BY <1>5, Zenon

LEMMA RelatedUpwards ==
  ASSUME NEW E \in SUBSET ResponsePath, NEW q \in Path, NEW w \in Path, Leads(q, w), AnyRelated(E, w)
  PROVE  AnyRelated(E, q)
<1>1. PICK e \in E : Leads(e, w) \/ Leads(w, e)
  BY Zenon DEF AnyRelated, PathsRelated, IsSameOrDescendant
<1>2. e \in Path
  BY Zenon DEF Path, ResponsePath
<1>3. Leads(e, q) \/ Leads(q, e)
  <2>1. CASE Leads(e, w)
    BY <1>2, <2>1, PrefixesCompare, Zenon DEF Path
  <2>2. CASE Leads(w, e)
    BY <1>2, <2>2, PrefixTransitive, Zenon DEF Path
  <2>. QED  BY <1>1, <2>1, <2>2, Zenon
<1>. QED  BY <1>3, Zenon DEF AnyRelated, PathsRelated, IsSameOrDescendant

-----------------------------------------------------------------------------
(* What a nested serializer holds of the query and of the policy.          *)

Selections == [fields : SUBSET ResponsePath, include : SUBSET ResponsePath, exclude : SUBSET ResponsePath,
               restricted : BOOLEAN]
Views == [allowed : SUBSET ResponsePath, denied : SUBSET ResponsePath, all : BOOLEAN]

ProjectionTypeOK ==
    /\ query \in Selections /\ spec \in Selections /\ policy \in Views /\ view \in Views
    /\ endpoint \in SUBSET ResponsePath /\ at \in Path /\ stepwise \in BOOLEAN
    /\ phase = "arriving" => at = <<>>

OfEndpoint(paths) == {p \in paths : AnyRelated(endpoint, p)}

ExcludesAgree ==
    /\ \A x \in spec.exclude : at \o x \in query.exclude
    /\ Below(OfEndpoint(query.exclude), at) \subseteq spec.exclude
    /\ ~AnyAbove(OfEndpoint(query.exclude), at)

FieldsAgree ==
    /\ query.restricted /\ ~spec.restricted => AnyAbove(query.fields, at)
    /\ spec.restricted =>
         /\ query.restricted
         /\ \A f \in spec.fields : at \o f \in query.fields
         /\ Below(OfEndpoint(query.fields), at) \subseteq spec.fields
         /\ stepwise => ~AnyAbove(OfEndpoint(query.fields), at)

\* A block that was entered before stays among the paths that include names.
Repeats(path) == \E i, j \in DOMAIN path : i < j /\ path[i] = path[j]
Inside(p) == \E i \in DOMAIN at : at[i] = p[1]
IncludesAgree ==
    /\ \A i \in spec.include : at \o i \in query.include \/ Inside(i) \/ Repeats(at)
    /\ Below(OfEndpoint(query.include), at) \subseteq spec.include

ViewAgrees ==
    /\ view.all = policy.all
    /\ \A a \in view.allowed : at \o a \in policy.allowed \/ AnyAbove(policy.allowed, at)
    /\ \A d \in view.denied : at \o d \in policy.denied
    /\ Below(policy.denied, at) \subseteq view.denied
    /\ ~AnyAbove(policy.denied, at)

ProjectionInv == ProjectionTypeOK /\ ExcludesAgree /\ FieldsAgree /\ IncludesAgree /\ ViewAgrees

LEMMA NothingJoined ==
  ASSUME NEW x \in Path
  PROVE  <<>> \in Path /\ <<>> \o x = x
BY DEF Path

(* At the root every path is seen as it is, and none lies above.           *)
LEMMA BelowRoot ==
  ASSUME NEW Q \in SUBSET ResponsePath
  PROVE  Below(Q, <<>>) = Q /\ ~AnyAbove(Q, <<>>) /\ \A x \in Q : <<>> \o x = x
<1>1. \A x \in Q : x \in Path /\ x # <<>>
  BY Zenon DEF Path, ResponsePath
<1>2. <<>> \in Path
  BY DEF Path
<1>3. \A x \in ResponsePath : <<>> \o x = x
  BY NothingJoined, Zenon DEF Path, ResponsePath
<1>4. \A x : x \in Below(Q, <<>>) <=> x \in ResponsePath /\ <<>> \o x \in Q
  BY <1>2, BelowMeans, Zenon
<1>5. Below(Q, <<>>) = Q
  <2>1. \A x : x \in Below(Q, <<>>) <=> x \in Q
    BY <1>3, <1>4, Zenon
  <2>. QED  BY <2>1, Zenon
<1>6. ~AnyAbove(Q, <<>>)
  <2>. SUFFICES ASSUME NEW q \in Q, Leads(q, <<>>) PROVE FALSE
    BY Zenon DEF AnyAbove, IsSameOrDescendant
  <2>. QED  BY <1>1, PrefixOfNothing, Zenon DEF Path
<1>. QED  BY <1>3, <1>5, <1>6, Zenon

LEMMA NormalizedPaths ==
  ASSUME NEW raws \in SUBSET RawPath
  PROVE  NormalizePaths(raws) \in SUBSET ResponsePath
<1>1. \A raw \in raws : NormalizePath(raw) \in Path
  BY NormalizedPath, Zenon
<1>. QED  BY <1>1, Zenon DEF NormalizePaths, Path, ResponsePath

LEMMA ProjectionStart == ProjectionInit => ProjectionInv
<1>. SUFFICES ASSUME ProjectionInit PROVE ProjectionInv
  BY Zenon
<1>1. /\ query = NoQuery /\ endpoint = {} /\ spec = NoQuery /\ policy = NoView /\ view = NoView
      /\ at = <<>> /\ stepwise = TRUE /\ phase = "arriving"
  BY Zenon DEF ProjectionInit
<1>2. /\ query.fields = {} /\ query.include = {} /\ query.exclude = {} /\ query.restricted = FALSE
      /\ spec.fields = {} /\ spec.include = {} /\ spec.exclude = {} /\ spec.restricted = FALSE
      /\ policy.allowed = {} /\ policy.denied = {} /\ policy.all = FALSE
      /\ view.allowed = {} /\ view.denied = {} /\ view.all = FALSE
  BY <1>1, Zenon DEF NoQuery, NoView
<1>3. ProjectionTypeOK
  <2>1. NoQuery \in Selections /\ NoView \in Views
    BY Zenon DEF NoQuery, NoView, Selections, Views
  <2>2. <<>> \in Path
    BY DEF Path
  <2>. QED  BY <1>1, <2>1, <2>2, Zenon DEF ProjectionTypeOK
<1>4. Below({}, at) = {} /\ OfEndpoint({}) = {} /\ ~AnyAbove({}, at)
  BY Zenon DEF Below, OfEndpoint, AnyAbove
<1>. QED  BY <1>2, <1>3, <1>4, Zenon DEF ProjectionInv, ExcludesAgree, FieldsAgree, IncludesAgree, ViewAgrees

LEMMA WithProjectionStep ==
  ASSUME ProjectionInv, NEW given \in Requests, NEW allowed \in Endpoints,
         WithProjection(given[1], allowed, given[2])
  PROVE  ProjectionInv'
<1>1. PICK q, p : /\ q = given[1] /\ p = given[2] /\ p \in Views
                  /\ q \in [fields : SUBSET RawPath, include : SUBSET RawPath, exclude : SUBSET RawPath, restricted : BOOLEAN]
  BY ProjectionAssumption, Zenon DEF Views
<1>2. /\ phase = "arriving" /\ phase' = "handling" /\ query' = FromQueryParams(q) /\ endpoint' = allowed
      /\ spec' = RestrictTo(query', allowed) /\ policy' = p /\ view' = p /\ UNCHANGED <<at, stepwise>>
  BY <1>1, Zenon DEF WithProjection
<1>3. at' = <<>> /\ at' \in Path /\ stepwise' \in BOOLEAN
  BY <1>2, Zenon DEF ProjectionInv, ProjectionTypeOK
<1>4. query' \in Selections
  <2>1. q.fields \in SUBSET RawPath /\ q.include \in SUBSET RawPath /\ q.exclude \in SUBSET RawPath /\ q.restricted \in BOOLEAN
    BY <1>1, Zenon
  <2>2. /\ NormalizePaths(q.fields) \in SUBSET ResponsePath /\ NormalizePaths(q.include) \in SUBSET ResponsePath
        /\ NormalizePaths(q.exclude) \in SUBSET ResponsePath
    BY <2>1, NormalizedPaths, Zenon
  <2>. QED  BY <1>2, <2>1, <2>2, Zenon DEF FromQueryParams, Selections
<1>. DEFINE keep(paths) == {x \in paths : AnyRelated(allowed, x)}
<1>5. PICK F \in SUBSET ResponsePath, I \in SUBSET ResponsePath, X \in SUBSET ResponsePath, b \in BOOLEAN :
        query'.fields = F /\ query'.include = I /\ query'.exclude = X /\ query'.restricted = b
  BY <1>4, Zenon DEF Selections
<1>6. spec' = [fields |-> keep(F), include |-> keep(I), exclude |-> keep(X), restricted |-> b]
  BY <1>2, <1>5, Zenon DEF RestrictTo
<1>7. /\ keep(F) \in SUBSET F /\ keep(I) \in SUBSET I /\ keep(X) \in SUBSET X
      /\ keep(F) \in SUBSET ResponsePath /\ keep(I) \in SUBSET ResponsePath /\ keep(X) \in SUBSET ResponsePath
  BY Zenon
<1>8. OfEndpoint(query.fields)' = keep(F) /\ OfEndpoint(query.include)' = keep(I) /\ OfEndpoint(query.exclude)' = keep(X)
  BY <1>2, <1>5, Zenon DEF OfEndpoint
<1>. HIDE DEF keep
<1>9. ProjectionTypeOK'
  <2>1. spec' \in Selections
    BY <1>6, <1>7, Zenon DEF Selections
  <2>2. endpoint' \in SUBSET ResponsePath
    BY <1>2, ProjectionAssumption, Zenon
  <2>. QED  BY <1>1, <1>2, <1>3, <1>4, <2>1, <2>2, Zenon DEF ProjectionTypeOK
<1>10. /\ Below(keep(F), <<>>) = keep(F) /\ ~AnyAbove(keep(F), <<>>)
       /\ Below(keep(I), <<>>) = keep(I)
       /\ Below(keep(X), <<>>) = keep(X) /\ ~AnyAbove(keep(X), <<>>)
       /\ \A x \in keep(F) : <<>> \o x = x
       /\ \A x \in keep(I) : <<>> \o x = x
       /\ \A x \in keep(X) : <<>> \o x = x
  BY <1>7, BelowRoot, Zenon
<1>0. spec'.fields = keep(F) /\ spec'.include = keep(I) /\ spec'.exclude = keep(X) /\ spec'.restricted = b
  BY <1>6, Zenon
<1>11. ExcludesAgree'
  BY <1>3, <1>5, <1>0, <1>7, <1>8, <1>10, Zenon DEF ExcludesAgree
<1>12. FieldsAgree'
  BY <1>3, <1>5, <1>0, <1>7, <1>8, <1>10, Zenon DEF FieldsAgree
<1>13. IncludesAgree'
  BY <1>3, <1>5, <1>0, <1>7, <1>8, <1>10, Zenon DEF IncludesAgree
<1>14. ViewAgrees'
  <2>1. p.allowed \in SUBSET ResponsePath /\ p.denied \in SUBSET ResponsePath
    BY <1>1, Zenon DEF Views
  <2>2. /\ Below(p.denied, <<>>) = p.denied /\ ~AnyAbove(p.denied, <<>>)
        /\ \A x \in p.denied : <<>> \o x = x
        /\ \A x \in p.allowed : <<>> \o x = x
    BY <2>1, BelowRoot, Zenon
  <2>. QED  BY <1>2, <1>3, <2>2, Zenon DEF ViewAgrees
<1>. QED  BY <1>9, <1>11, <1>12, <1>13, <1>14, Zenon DEF ProjectionInv

(* A handler withholds paths from the spec and the query alike.            *)
LEMMA WithholdStep ==
  ASSUME ProjectionInv, NEW path \in Leaves, Withhold({path})
  PROVE  ProjectionInv'
<1>1. PICK N : N = NormalizePaths({path})
  BY Zenon
<1>2. N \in SUBSET ResponsePath
  <2>1. {path} \in SUBSET RawPath
    BY ProjectionAssumption, Zenon
  <2>. QED  BY <1>1, <2>1, NormalizedPaths, Zenon
<1>3. /\ phase = "handling" /\ at = <<>>
      /\ spec' = [spec EXCEPT !.exclude = @ \cup N] /\ query' = [query EXCEPT !.exclude = @ \cup N]
      /\ UNCHANGED <<endpoint, policy, view, at, stepwise, phase>>
  BY <1>1, Zenon DEF Withhold, Excluding
<1>4. query \in Selections /\ spec \in Selections
  BY Zenon DEF ProjectionInv, ProjectionTypeOK
<1>5. /\ query' \in Selections /\ query'.exclude = query.exclude \cup N /\ query'.fields = query.fields
      /\ query'.include = query.include /\ query'.restricted = query.restricted
  BY <1>2, <1>3, <1>4, Zenon DEF Selections
<1>6. /\ spec' \in Selections /\ spec'.exclude = spec.exclude \cup N /\ spec'.fields = spec.fields
      /\ spec'.include = spec.include /\ spec'.restricted = spec.restricted
  BY <1>2, <1>3, <1>4, Zenon DEF Selections
<1>7. ProjectionTypeOK'
  BY <1>3, <1>5, <1>6, Zenon DEF ProjectionInv, ProjectionTypeOK
<1>8. PICK Q \in SUBSET ResponsePath : Q = OfEndpoint(query.exclude) /\ Q \in SUBSET query.exclude
  <2>1. query.exclude \in SUBSET ResponsePath
    BY <1>4, Zenon DEF Selections
  <2>2. OfEndpoint(query.exclude) \in SUBSET query.exclude
    BY Zenon DEF OfEndpoint
  <2>. QED  BY <2>1, <2>2, Zenon
<1>9. PICK R \in SUBSET ResponsePath : R = OfEndpoint(query.exclude)' /\ R \in SUBSET (Q \cup N)
  <2>1. OfEndpoint(query.exclude)' \in SUBSET (Q \cup N)
    BY <1>3, <1>5, <1>8, Zenon DEF OfEndpoint
  <2>. QED  BY <1>2, <2>1, Zenon
<1>10. ExcludesAgree'
  <2>1. Below(Q, <<>>) = Q /\ Below(R, <<>>) = R /\ ~AnyAbove(R, <<>>) /\ \A x \in N : <<>> \o x = x
    BY <1>2, BelowRoot, Zenon
  <2>2. Q \subseteq spec.exclude
    BY <1>3, <1>8, <2>1, Zenon DEF ProjectionInv, ExcludesAgree
  <2>3. R \subseteq spec'.exclude
    BY <1>6, <1>9, <2>2, Zenon
  <2>4. \A x \in spec'.exclude : at' \o x \in query'.exclude
    BY <1>3, <1>5, <1>6, <2>1, Zenon DEF ProjectionInv, ExcludesAgree
  <2>. QED  BY <1>3, <1>9, <2>1, <2>3, <2>4, Zenon DEF ExcludesAgree
<1>11. FieldsAgree' /\ IncludesAgree' /\ ViewAgrees'
  <2>1. FieldsAgree'
    BY <1>3, <1>5, <1>6, Zenon DEF ProjectionInv, FieldsAgree, OfEndpoint
  <2>2. IncludesAgree'
    BY <1>3, <1>5, <1>6, Zenon DEF ProjectionInv, IncludesAgree, OfEndpoint, Inside
  <2>3. ViewAgrees'
    BY <1>3, Zenon DEF ProjectionInv, ViewAgrees
  <2>. QED  BY <2>1, <2>2, <2>3, Zenon
<1>. QED  BY <1>7, <1>10, <1>11, Zenon DEF ProjectionInv

(* What a descent does to each part of the spec and of the policy.         *)
LEMMA DescendParts ==
  ASSUME ProjectionInv, NEW prefix \in Blocks, Descend(prefix)
  PROVE  /\ prefix \in ResponsePath /\ prefix \in Path /\ at' = at \o prefix /\ at' \in Path
         /\ UNCHANGED <<query, endpoint, policy, phase>> /\ stepwise' = (stepwise /\ Len(prefix) = 1)
         /\ phase = "handling"
         /\ ~AnyAbove(spec.exclude, prefix) /\ ~AnyAbove(view.denied, prefix)
         /\ spec'.exclude = Below(spec.exclude, prefix)
         /\ spec'.include = Below(spec.include, prefix) \cup (spec.include \cap {prefix})
         /\ spec'.restricted = (spec.restricted /\ prefix \notin spec.fields)
         /\ spec.restricted => spec'.fields = Below(spec.fields, prefix)
         /\ view'.denied = Below(view.denied, prefix)
         /\ view'.allowed = Below(view.allowed, prefix) \cup (view.allowed \cap {prefix})
         /\ view'.all = view.all
         /\ spec' \in Selections /\ view' \in Views
<1>. USE DEF ProjectionInv, ProjectionTypeOK
<1>1. prefix \in ResponsePath /\ prefix \in Path
  BY ProjectionAssumption, Zenon DEF Path, ResponsePath
<1>2. at' = at \o prefix /\ at' \in Path
  BY <1>1, PathsJoined, Zenon DEF Descend
<1>3. /\ phase = "handling" /\ Needs(spec, prefix) /\ CanView(view, prefix)
      /\ spec' = Child(spec, prefix) /\ view' = PolicyChild(view, prefix)
      /\ UNCHANGED <<query, endpoint, policy, phase>> /\ stepwise' = (stepwise /\ Len(prefix) = 1)
  BY Zenon DEF Descend
<1>4. ~AnyAbove(spec.exclude, prefix) /\ ~AnyAbove(view.denied, prefix)
  BY <1>3, Zenon DEF Needs, CanView, ExcludesPath
<1>5. prefix \notin spec.exclude /\ prefix \notin view.denied
  <2>1. Leads(prefix, prefix)
    BY <1>1, PrefixOfItself, Zenon DEF Path
  <2>. QED  BY <1>4, <2>1, Zenon DEF AnyAbove, IsSameOrDescendant
<1>6. /\ Trim(spec.exclude, prefix) = Below(spec.exclude, prefix)
      /\ Trim(view.denied, prefix) = Below(view.denied, prefix)
      /\ Trim(spec.include, prefix) = Below(spec.include, prefix) \cup (spec.include \cap {prefix})
      /\ Trim(view.allowed, prefix) = Below(view.allowed, prefix) \cup (view.allowed \cap {prefix})
  <2>1. spec.exclude \cap {prefix} = {} /\ view.denied \cap {prefix} = {}
    BY <1>5, Zenon
  <2>2. \A S : S \cup {} = S
    BY Zenon
  <2>. QED  BY <2>1, <2>2, Zenon DEF Trim
<1>7. /\ spec \in Selections /\ spec.fields \in SUBSET ResponsePath /\ spec.include \in SUBSET ResponsePath
      /\ spec.exclude \in SUBSET ResponsePath /\ spec.restricted \in BOOLEAN
  BY Zenon DEF Selections
<1>8. /\ view \in Views /\ view.allowed \in SUBSET ResponsePath /\ view.denied \in SUBSET ResponsePath /\ view.all \in BOOLEAN
  BY Zenon DEF Views
<1>9. \A S \in SUBSET ResponsePath : Below(S, prefix) \in SUBSET ResponsePath
  <2>. SUFFICES ASSUME NEW S \in SUBSET ResponsePath, NEW x \in Below(S, prefix) PROVE x \in ResponsePath
    BY Zenon
  <2>. QED  BY <1>1, BelowMeans, Zenon
<1>10. PICK F, I, X : /\ F = Below(spec.fields, prefix) /\ X = Below(spec.exclude, prefix)
                      /\ I = Below(spec.include, prefix) \cup (spec.include \cap {prefix})
                      /\ F \in SUBSET ResponsePath /\ I \in SUBSET ResponsePath /\ X \in SUBSET ResponsePath
  <2>1. spec.include \cap {prefix} \in SUBSET ResponsePath
    BY <1>7, Zenon
  <2>2. \A S, T \in SUBSET ResponsePath : S \cup T \in SUBSET ResponsePath
    BY Zenon
  <2>3. /\ Below(spec.fields, prefix) \in SUBSET ResponsePath /\ Below(spec.exclude, prefix) \in SUBSET ResponsePath
        /\ Below(spec.include, prefix) \in SUBSET ResponsePath
    BY <1>7, <1>9, Zenon
  <2>4. Below(spec.include, prefix) \cup (spec.include \cap {prefix}) \in SUBSET ResponsePath
    BY <2>1, <2>2, <2>3, Zenon
  <2>. QED  BY <2>3, <2>4, Zenon
<1>11. /\ spec'.exclude = X /\ spec'.include = I
       /\ spec'.restricted = (spec.restricted /\ prefix \notin spec.fields)
       /\ spec.restricted => spec'.fields = F
       /\ spec' \in Selections
  <2>1. CASE ~spec.restricted /\ spec.include = {} /\ spec.exclude = {}
    <3>1. Below({}, prefix) = {}
      BY Zenon DEF Below
    <3>2. X = {} /\ I = {}
      BY <1>10, <2>1, <3>1, Zenon
    <3>3. spec' = spec
      BY <1>3, <2>1, Zenon DEF Child
    <3>. QED  BY <1>7, <2>1, <3>2, <3>3, Zenon
  <2>2. CASE ~(~spec.restricted /\ spec.include = {} /\ spec.exclude = {})
    <3>1. spec' = [fields |-> F, include |-> I, exclude |-> X, restricted |-> spec.restricted /\ prefix \notin spec.fields]
      BY <1>3, <1>6, <1>10, <2>2, Zenon DEF Child
    <3>. QED  BY <1>10, <3>1, Zenon DEF Selections
  <2>. QED  BY <2>1, <2>2, Zenon
<1>12. PICK A, D : /\ D = Below(view.denied, prefix) /\ A = Below(view.allowed, prefix) \cup (view.allowed \cap {prefix})
                   /\ D \in SUBSET ResponsePath /\ A \in SUBSET ResponsePath
  BY <1>8, <1>9, Zenon
<1>13. view' = [allowed |-> A, denied |-> D, all |-> view.all]
  <2>1. (view.all /\ CanView(view, prefix)) = view.all
    BY <1>3, <1>8, Zenon
  <2>. QED  BY <1>3, <1>6, <1>12, <2>1, Zenon DEF PolicyChild
<1>14. view'.allowed = A /\ view'.denied = D /\ view'.all = view.all /\ view' \in Views
  BY <1>8, <1>12, <1>13, Zenon DEF Views
<1>. QED  BY <1>1, <1>2, <1>3, <1>4, <1>10, <1>11, <1>12, <1>14, Zenon

LEMMA DescendExcludes ==
  ASSUME ProjectionInv, NEW prefix \in Blocks, Descend(prefix)
  PROVE  ExcludesAgree'
<1>1. PICK a \in Path, Q \in SUBSET ResponsePath, K \in SUBSET ResponsePath, X \in SUBSET ResponsePath :
        a = at /\ Q = query.exclude /\ K = OfEndpoint(query.exclude) /\ X = spec.exclude
  <2>1. OfEndpoint(query.exclude) \in SUBSET query.exclude
    BY Zenon DEF OfEndpoint
  <2>2. at \in Path /\ query.exclude \in SUBSET ResponsePath /\ spec.exclude \in SUBSET ResponsePath
    BY Zenon DEF ProjectionInv, ProjectionTypeOK, Selections
  <2>3. \A K, Q : K \in SUBSET Q /\ Q \in SUBSET ResponsePath => K \in SUBSET ResponsePath
    BY Zenon
  <2>. QED  BY <2>1, <2>2, <2>3, Zenon
<1>2. /\ prefix \in ResponsePath /\ at' = a \o prefix /\ query' = query /\ endpoint' = endpoint
      /\ ~AnyAbove(X, prefix) /\ spec'.exclude = Below(X, prefix)
  BY <1>1, DescendParts, Zenon
<1>3. (\A x \in X : a \o x \in Q) /\ Below(K, a) \subseteq X /\ ~AnyAbove(K, a)
  BY <1>1, Zenon DEF ProjectionInv, ExcludesAgree
<1>4. OfEndpoint(query.exclude)' = K
  BY <1>1, <1>2, Zenon DEF OfEndpoint
<1>5. K \in SUBSET ResponsePath
  BY Zenon
<1>6. \A x \in Below(X, prefix) : (a \o prefix) \o x \in Q
  BY <1>2, <1>3, BelowJoined, Zenon
<1>7. Below(K, a \o prefix) \subseteq Below(X, prefix)
  BY <1>2, <1>3, <1>5, BelowBelow, Zenon
<1>8. ~AnyAbove(K, a \o prefix)
  BY <1>2, <1>3, <1>5, AboveOrBelow, Zenon
<1>. QED  BY <1>1, <1>2, <1>4, <1>6, <1>7, <1>8, Zenon DEF ExcludesAgree

LEMMA DescendFields ==
  ASSUME ProjectionInv, NEW prefix \in Blocks, Descend(prefix)
  PROVE  FieldsAgree'
<1>1. PICK a \in Path, Q \in SUBSET ResponsePath, K \in SUBSET ResponsePath, F \in SUBSET ResponsePath :
        a = at /\ Q = query.fields /\ K = OfEndpoint(query.fields) /\ F = spec.fields
  <2>1. OfEndpoint(query.fields) \in SUBSET query.fields
    BY Zenon DEF OfEndpoint
  <2>2. at \in Path /\ query.fields \in SUBSET ResponsePath /\ spec.fields \in SUBSET ResponsePath
    BY Zenon DEF ProjectionInv, ProjectionTypeOK, Selections
  <2>3. \A K, Q : K \in SUBSET Q /\ Q \in SUBSET ResponsePath => K \in SUBSET ResponsePath
    BY Zenon
  <2>. QED  BY <2>1, <2>2, <2>3, Zenon
<1>2. /\ prefix \in ResponsePath /\ at' = a \o prefix /\ query' = query /\ endpoint' = endpoint
      /\ stepwise' = (stepwise /\ Len(prefix) = 1)
      /\ spec'.restricted = (spec.restricted /\ prefix \notin F)
      /\ spec.restricted => spec'.fields = Below(F, prefix)
  BY <1>1, DescendParts, Zenon
<1>3. OfEndpoint(query.fields)' = K
  BY <1>1, <1>2, Zenon DEF OfEndpoint
<1>4. K \in SUBSET ResponsePath
  BY Zenon
<1>5. FieldsAgree
  BY Zenon DEF ProjectionInv
<1>6. ASSUME query'.restricted, ~spec'.restricted PROVE AnyAbove(Q, a \o prefix)
  <2>1. CASE ~spec.restricted
    <3>1. AnyAbove(Q, a)
      BY <1>1, <1>2, <1>5, <1>6, <2>1, Zenon DEF FieldsAgree
    <3>. QED  BY <1>2, <3>1, AboveFurther, Zenon
  <2>2. CASE spec.restricted
    <3>1. prefix \in F
      BY <1>2, <1>6, <2>2, Zenon
    <3>2. a \o prefix \in Q
      BY <1>1, <1>5, <2>2, <3>1, Zenon DEF FieldsAgree
    <3>3. Leads(a \o prefix, a \o prefix)
      BY <1>2, PathsJoined, PrefixOfItself, Zenon DEF Path
    <3>. QED  BY <3>2, <3>3, Zenon DEF AnyAbove, IsSameOrDescendant
  <2>. QED  BY <2>1, <2>2, Zenon
<1>7. ASSUME spec'.restricted
      PROVE  /\ query'.restricted /\ \A f \in spec'.fields : (a \o prefix) \o f \in Q
             /\ Below(K, a \o prefix) \subseteq spec'.fields
             /\ stepwise' => ~AnyAbove(K, a \o prefix)
  <2>1. spec.restricted /\ prefix \notin F /\ spec'.fields = Below(F, prefix)
    BY <1>2, <1>7, Zenon
  <2>2. /\ query.restricted /\ \A f \in F : a \o f \in Q
        /\ Below(K, a) \subseteq F
        /\ stepwise => ~AnyAbove(K, a)
    BY <1>1, <1>5, <2>1, Zenon DEF FieldsAgree
  <2>3. \A f \in Below(F, prefix) : (a \o prefix) \o f \in Q
    BY <1>2, <2>2, BelowJoined, Zenon
  <2>4. Below(K, a \o prefix) \subseteq Below(F, prefix)
    BY <1>2, <1>4, <2>2, BelowBelow, Zenon
  <2>5. ASSUME stepwise' PROVE ~AnyAbove(K, a \o prefix)
    <3>1. stepwise /\ Len(prefix) = 1
      BY <1>2, <2>5, Zenon
    <3>2. ~AnyAbove(F, prefix)
      BY <1>2, <2>1, <3>1, AboveOneSegment, Zenon
    <3>. QED  BY <1>2, <1>4, <2>2, <3>1, <3>2, AboveOrBelow, Zenon
  <2>. QED  BY <1>2, <2>1, <2>2, <2>3, <2>4, <2>5, Zenon
<1>. QED  BY <1>1, <1>2, <1>3, <1>6, <1>7, Zenon DEF FieldsAgree

(* A path of include that child() kept names a block entered before.       *)
LEMMA DescendIncludes ==
  ASSUME ProjectionInv, NEW prefix \in Blocks, Descend(prefix)
  PROVE  IncludesAgree'
<1>1. PICK a \in Path, Q \in SUBSET ResponsePath, K \in SUBSET ResponsePath, I \in SUBSET ResponsePath :
        a = at /\ Q = query.include /\ K = OfEndpoint(query.include) /\ I = spec.include
  <2>1. OfEndpoint(query.include) \in SUBSET query.include
    BY Zenon DEF OfEndpoint
  <2>2. at \in Path /\ query.include \in SUBSET ResponsePath /\ spec.include \in SUBSET ResponsePath
    BY Zenon DEF ProjectionInv, ProjectionTypeOK, Selections
  <2>3. \A K, Q : K \in SUBSET Q /\ Q \in SUBSET ResponsePath => K \in SUBSET ResponsePath
    BY Zenon
  <2>. QED  BY <2>1, <2>2, <2>3, Zenon
<1>2. /\ prefix \in ResponsePath /\ prefix \in Path /\ at' = a \o prefix /\ query' = query /\ endpoint' = endpoint
      /\ spec'.include = Below(I, prefix) \cup (I \cap {prefix})
  BY <1>1, DescendParts, Zenon
<1>3. OfEndpoint(query.include)' = K
  BY <1>1, <1>2, Zenon DEF OfEndpoint
<1>4. K \in SUBSET ResponsePath
  BY Zenon
<1>5. (\A i \in I : a \o i \in Q \/ (\E n \in DOMAIN a : a[n] = i[1]) \/ Repeats(a)) /\ Below(K, a) \subseteq I
  BY <1>1, Zenon DEF ProjectionInv, IncludesAgree, Inside
<1>6. Below(K, a \o prefix) \subseteq Below(I, prefix)
  BY <1>2, <1>4, <1>5, BelowBelow, Zenon
<1>7. PICK b \in Path : b = a \o prefix
  BY <1>2, PathsJoined, Zenon
<1>8. /\ Len(a) \in Nat /\ Len(prefix) \in Nat \ {0} /\ DOMAIN a = 1..Len(a) /\ DOMAIN b = 1..(Len(a) + Len(prefix))
      /\ \A n \in 1..Len(a) : b[n] = a[n] /\ n \in DOMAIN b
      /\ Len(a) + 1 \in DOMAIN b /\ b[Len(a) + 1] = prefix[1]
  <2>1. prefix # <<>>
    BY <1>2, Zenon DEF ResponsePath
  <2>. QED  BY <1>2, <1>7, <2>1 DEF Path
<1>9. ASSUME Repeats(a) PROVE Repeats(b)
  <2>1. PICK i, j \in DOMAIN a : i < j /\ a[i] = a[j]
    BY <1>9, Zenon DEF Repeats
  <2>2. i \in DOMAIN b /\ j \in DOMAIN b /\ b[i] = b[j]
    BY <1>8, <2>1, Zenon
  <2>. QED  BY <2>1, <2>2, Zenon DEF Repeats
<1>10. ASSUME NEW n \in DOMAIN a, a[n] = prefix[1] PROVE Repeats(b)
  <2>1. n < Len(a) + 1 /\ n \in DOMAIN b /\ b[n] = b[Len(a) + 1]
    BY <1>8, <1>10
  <2>. QED  BY <1>8, <2>1, Zenon DEF Repeats
<1>11. ASSUME NEW i \in Below(I, prefix) PROVE b \o i \in Q \/ Repeats(b)
  <2>1. i \in ResponsePath /\ prefix \o i \in I
    BY <1>2, BelowMeans, Zenon
  <2>2. PICK j \in I : j = prefix \o i
    BY <2>1, Zenon
  <2>3. b \o i = a \o j
    BY <1>2, <1>7, <2>1, <2>2, JoinedThrice DEF Path, ResponsePath
  <2>4. j[1] = prefix[1]
    BY <1>2, <1>8, <2>1, <2>2 DEF Path, ResponsePath
  <2>5. CASE a \o j \in Q
    BY <2>3, <2>5, Zenon
  <2>6. CASE \E n \in DOMAIN a : a[n] = j[1]
    BY <1>10, <2>4, <2>6, Zenon
  <2>7. CASE Repeats(a)
    BY <1>9, <2>7, Zenon
  <2>. QED  BY <1>5, <2>5, <2>6, <2>7, Zenon
<1>12. \E n \in DOMAIN b : b[n] = prefix[1]
  BY <1>8, Zenon
<1>13. \A i \in spec'.include : b \o i \in Q \/ (\E n \in DOMAIN b : b[n] = i[1]) \/ Repeats(b)
  BY <1>2, <1>11, <1>12, Zenon
<1>14. Below(K, b) \subseteq spec'.include
  BY <1>2, <1>6, <1>7, Zenon
<1>. QED  BY <1>1, <1>2, <1>3, <1>7, <1>13, <1>14, Zenon DEF IncludesAgree, Inside

LEMMA DescendView ==
  ASSUME ProjectionInv, NEW prefix \in Blocks, Descend(prefix)
  PROVE  ViewAgrees'
<1>1. PICK a \in Path, QA \in SUBSET ResponsePath, QD \in SUBSET ResponsePath, A \in SUBSET ResponsePath,
           D \in SUBSET ResponsePath :
        a = at /\ QA = policy.allowed /\ QD = policy.denied /\ A = view.allowed /\ D = view.denied
  <2>1. /\ at \in Path /\ policy.allowed \in SUBSET ResponsePath /\ policy.denied \in SUBSET ResponsePath
        /\ view.allowed \in SUBSET ResponsePath /\ view.denied \in SUBSET ResponsePath
    BY Zenon DEF ProjectionInv, ProjectionTypeOK, Views
  <2>. QED  BY <2>1, Zenon
<1>2. /\ prefix \in ResponsePath /\ at' = a \o prefix /\ policy' = policy /\ ~AnyAbove(D, prefix)
      /\ view'.denied = Below(D, prefix) /\ view'.allowed = Below(A, prefix) \cup (A \cap {prefix})
      /\ view'.all = view.all
  BY <1>1, DescendParts, Zenon
<1>3. /\ view.all = policy.all /\ \A x \in A : a \o x \in QA \/ AnyAbove(QA, a)
      /\ \A d \in D : a \o d \in QD
      /\ Below(QD, a) \subseteq D /\ ~AnyAbove(QD, a)
  BY <1>1, Zenon DEF ProjectionInv, ViewAgrees
<1>4. \A d \in Below(D, prefix) : (a \o prefix) \o d \in QD
  BY <1>2, <1>3, BelowJoined, Zenon
<1>5. Below(QD, a \o prefix) \subseteq Below(D, prefix)
  BY <1>2, <1>3, BelowBelow, Zenon
<1>6. ~AnyAbove(QD, a \o prefix)
  BY <1>2, <1>3, AboveOrBelow, Zenon
<1>7. AnyAbove(QA, a) => AnyAbove(QA, a \o prefix)
  BY <1>2, AboveFurther, Zenon
<1>8. ASSUME NEW x \in Below(A, prefix) PROVE (a \o prefix) \o x \in QA \/ AnyAbove(QA, a \o prefix)
  <2>1. CASE AnyAbove(QA, a)
    BY <1>7, <2>1, Zenon
  <2>2. CASE ~AnyAbove(QA, a)
    <3>1. \A y \in A : a \o y \in QA
      BY <1>3, <2>2, Zenon
    <3>. QED  BY <1>2, <3>1, BelowJoined, Zenon
  <2>. QED  BY <2>1, <2>2, Zenon
<1>9. ASSUME prefix \in A PROVE AnyAbove(QA, a \o prefix)
  <2>1. CASE AnyAbove(QA, a)
    BY <1>7, <2>1, Zenon
  <2>2. CASE a \o prefix \in QA
    <3>1. Leads(a \o prefix, a \o prefix)
      BY <1>2, PathsJoined, PrefixOfItself, Zenon DEF Path
    <3>. QED  BY <2>2, <3>1, Zenon DEF AnyAbove, IsSameOrDescendant
  <2>. QED  BY <1>3, <1>9, <2>1, <2>2, Zenon
<1>10. \A x \in view'.allowed : (a \o prefix) \o x \in QA \/ AnyAbove(QA, a \o prefix)
  BY <1>2, <1>8, <1>9, Zenon
<1>. QED  BY <1>1, <1>2, <1>3, <1>4, <1>5, <1>6, <1>10, Zenon DEF ViewAgrees

LEMMA ProjectionSteps == ProjectionInv /\ [ProjectionNext]_projectionVars => ProjectionInv'
<1>. SUFFICES ASSUME ProjectionInv, [ProjectionNext]_projectionVars PROVE ProjectionInv'
  BY Zenon
<1>1. CASE UNCHANGED projectionVars
  <2>1. UNCHANGED <<query, endpoint, policy, spec, view, at, stepwise, phase>>
    BY <1>1, Zenon DEF projectionVars
  <2>2. ProjectionTypeOK' /\ ExcludesAgree' /\ FieldsAgree'
    BY <2>1, Zenon DEF ProjectionInv, ProjectionTypeOK, ExcludesAgree, FieldsAgree, OfEndpoint
  <2>3. IncludesAgree' /\ ViewAgrees'
    BY <2>1, Zenon DEF ProjectionInv, IncludesAgree, ViewAgrees, OfEndpoint, Inside
  <2>. QED  BY <2>2, <2>3, Zenon DEF ProjectionInv
<1>2. ASSUME NEW given \in Requests, NEW allowed \in Endpoints, WithProjection(given[1], allowed, given[2])
      PROVE  ProjectionInv'
  BY <1>2, WithProjectionStep, Zenon
<1>3. ASSUME NEW path \in Leaves, Withhold({path}) PROVE ProjectionInv'
  BY <1>3, WithholdStep, Zenon
<1>4. ASSUME NEW prefix \in Blocks, Descend(prefix) PROVE ProjectionInv'
  <2>1. ProjectionTypeOK'
    <3>1. /\ at' \in Path /\ UNCHANGED <<query, endpoint, policy, phase>> /\ stepwise' \in BOOLEAN
          /\ phase = "handling" /\ spec' \in Selections /\ view' \in Views
      BY <1>4, DescendParts, Zenon
    <3>. QED  BY <3>1, Zenon DEF ProjectionInv, ProjectionTypeOK
  <2>. QED  BY <1>4, <2>1, DescendExcludes, DescendFields, DescendIncludes, DescendView, Zenon DEF ProjectionInv
<1>. QED  BY <1>1, <1>2, <1>3, <1>4, Zenon DEF ProjectionNext

(* What a nested serializer shows was selected by the client.              *)
LEMMA ShownWasSelected ==
  ASSUME ProjectionInv, NEW path \in Leaves, AnyRelated(endpoint, at \o path), ~Namesake(path), Has(spec, path)
  PROVE  Selected(at \o path)
<1>0. path \in ResponsePath /\ path \in Path /\ path # <<>>
  BY ProjectionAssumption, Zenon DEF Path, ResponsePath
<1>1. /\ at \in Path /\ query.exclude \in SUBSET ResponsePath /\ spec.exclude \in SUBSET ResponsePath
      /\ query.fields \in SUBSET ResponsePath /\ endpoint \in SUBSET ResponsePath
  BY Zenon DEF ProjectionInv, ProjectionTypeOK, Selections
<1>2. at \o path \in Path
  BY <1>0, <1>1, PathsJoined, Zenon
<1>3. ~ExcludesPath(query, at \o path)
  <2>. SUFFICES ASSUME AnyAbove(query.exclude, at \o path) PROVE FALSE
    BY Zenon DEF ExcludesPath
  <2>1. PICK x \in query.exclude : Leads(x, at \o path)
    BY Zenon DEF AnyAbove, IsSameOrDescendant
  <2>2. x \in Path
    BY <1>1, Zenon DEF Path, ResponsePath
  <2>3. AnyRelated(endpoint, x)
    BY <1>1, <1>2, <2>1, <2>2, RelatedUpwards, Zenon
  <2>4. AnyAbove(OfEndpoint(query.exclude), at \o path)
    BY <2>1, <2>3, Zenon DEF OfEndpoint, AnyAbove, IsSameOrDescendant
  <2>5. OfEndpoint(query.exclude) \in SUBSET ResponsePath
    BY <1>1, Zenon DEF OfEndpoint
  <2>6. Below(OfEndpoint(query.exclude), at) \subseteq spec.exclude /\ ~AnyAbove(OfEndpoint(query.exclude), at)
    BY Zenon DEF ProjectionInv, ExcludesAgree
  <2>7. AnyAbove(spec.exclude, path)
    BY <1>0, <1>1, <2>4, <2>5, <2>6, AboveOrBelow, Zenon
  <2>. QED  BY <2>7, Zenon DEF Has, ExcludesPath
<1>4. ASSUME query.restricted PROVE AnyAbove(query.fields, at \o path) \/ at \o path \in query.include
  <2>1. CASE ~spec.restricted
    <3>1. AnyAbove(query.fields, at)
      BY <1>4, <2>1, Zenon DEF ProjectionInv, FieldsAgree
    <3>. QED  BY <1>0, <1>1, <3>1, AboveFurther, Zenon
  <2>2. CASE spec.restricted /\ path \in spec.fields
    <3>1. at \o path \in query.fields
      BY <2>2, Zenon DEF ProjectionInv, FieldsAgree
    <3>2. Leads(at \o path, at \o path)
      BY <1>2, PrefixOfItself, Zenon DEF Path
    <3>. QED  BY <3>1, <3>2, Zenon DEF AnyAbove, IsSameOrDescendant
  <2>3. CASE path \in spec.include
    <3>1. ~Repeats(at) /\ ~Inside(path)
      <4>1. PICK a \in Path : a = at
        BY <1>1, Zenon
      <4>2. /\ Len(a) \in Nat /\ DOMAIN a = 1..Len(a) /\ (a \o path)[Len(a) + 1] = path[1]
            /\ \A n \in 1..Len(a) : (a \o path)[n] = a[n] /\ n < Len(a) + 1
        BY <1>0 DEF Path
      <4>3. \A i, j \in DOMAIN a \cup {Len(a) + 1} : ~(i < j /\ (a \o path)[i] = (a \o path)[j])
        BY <4>1, Zenon DEF Namesake
      <4>4. ~Repeats(a)
        <5>. SUFFICES ASSUME NEW i \in DOMAIN a, NEW j \in DOMAIN a, i < j, a[i] = a[j] PROVE FALSE
          BY Zenon DEF Repeats
        <5>1. (a \o path)[i] = (a \o path)[j]
          BY <4>2, Zenon
        <5>. QED  BY <4>3, <5>1, Zenon
      <4>5. ~\E i \in DOMAIN a : a[i] = path[1]
        <5>. SUFFICES ASSUME NEW i \in DOMAIN a, a[i] = path[1] PROVE FALSE
          BY Zenon
        <5>1. (a \o path)[i] = (a \o path)[Len(a) + 1] /\ i < Len(a) + 1
          BY <4>2, Zenon
        <5>. QED  BY <4>3, <5>1, Zenon
      <4>. QED  BY <4>1, <4>4, <4>5, Zenon DEF Inside
    <3>. QED  BY <2>3, <3>1, Zenon DEF ProjectionInv, IncludesAgree
  <2>. QED  BY <2>1, <2>2, <2>3, Zenon DEF Has
<1>. QED  BY <1>3, <1>4, Zenon DEF Selected

(* A field of its own that was selected is shown when every descent went   *)
(* one segment down.                                                       *)
LEMMA SelectedIsShown ==
  ASSUME ProjectionInv, NEW path \in Leaves, AnyRelated(endpoint, at \o path), stepwise, Len(path) = 1,
         Selected(at \o path)
  PROVE  Has(spec, path)
<1>0. path \in ResponsePath /\ path \in Path /\ path # <<>>
  BY ProjectionAssumption, Zenon DEF Path, ResponsePath
<1>1. /\ at \in Path /\ query.exclude \in SUBSET ResponsePath /\ spec.exclude \in SUBSET ResponsePath
      /\ query.fields \in SUBSET ResponsePath /\ endpoint \in SUBSET ResponsePath
      /\ spec.fields \in SUBSET ResponsePath /\ query.include \in SUBSET ResponsePath
  BY Zenon DEF ProjectionInv, ProjectionTypeOK, Selections
<1>2. at \o path \in Path
  BY <1>0, <1>1, PathsJoined, Zenon
<1>3. ~ExcludesPath(spec, path)
  <2>. SUFFICES ASSUME AnyAbove(spec.exclude, path) PROVE FALSE
    BY Zenon DEF ExcludesPath
  <2>1. \A x \in spec.exclude : at \o x \in query.exclude
    BY Zenon DEF ProjectionInv, ExcludesAgree
  <2>2. AnyAbove(query.exclude, at \o path)
    BY <1>0, <1>1, <2>1, AboveJoined, Zenon
  <2>. QED  BY <2>2, Zenon DEF Selected, ExcludesPath
<1>4. ASSUME spec.restricted PROVE path \in spec.fields \cup spec.include
  <2>1. /\ query.restricted /\ ~AnyAbove(OfEndpoint(query.fields), at)
        /\ Below(OfEndpoint(query.fields), at) \subseteq spec.fields
    BY <1>4, Zenon DEF ProjectionInv, FieldsAgree
  <2>2. CASE AnyAbove(query.fields, at \o path)
    <3>1. PICK f \in query.fields : Leads(f, at \o path)
      BY <2>2, Zenon DEF AnyAbove, IsSameOrDescendant
    <3>2. f \in Path
      BY <1>1, Zenon DEF Path, ResponsePath
    <3>3. AnyRelated(endpoint, f)
      BY <1>1, <1>2, <3>1, <3>2, RelatedUpwards, Zenon
    <3>4. AnyAbove(OfEndpoint(query.fields), at \o path)
      BY <3>1, <3>3, Zenon DEF OfEndpoint, AnyAbove, IsSameOrDescendant
    <3>5. OfEndpoint(query.fields) \in SUBSET ResponsePath
      BY <1>1, Zenon DEF OfEndpoint
    <3>6. AnyAbove(spec.fields, path)
      BY <1>0, <1>1, <2>1, <3>4, <3>5, AboveOrBelow, Zenon
    <3>7. path \in spec.fields
      BY <1>0, <1>1, <3>6, AboveOneSegment, Zenon
    <3>. QED  BY <3>7, Zenon
  <2>3. CASE at \o path \in query.include
    <3>1. at \o path \in OfEndpoint(query.include) /\ OfEndpoint(query.include) \in SUBSET ResponsePath
      BY <1>1, <2>3, Zenon DEF OfEndpoint
    <3>2. path \in Below(OfEndpoint(query.include), at)
      BY <1>0, <1>1, <3>1, BelowMeans, Zenon
    <3>. QED  BY <3>2, Zenon DEF ProjectionInv, IncludesAgree
  <2>. QED  BY <2>1, <2>2, <2>3, Zenon DEF Selected
<1>. QED  BY <1>0, <1>3, <1>4, Zenon DEF Has

LEMMA ViewOfTheCaller ==
  ASSUME ProjectionInv, NEW path \in Leaves
  PROVE  /\ CanView(view, path) => CanView(policy, at \o path)
         /\ policy.all => CanView(view, path) = CanView(policy, at \o path)
<1>0. path \in ResponsePath /\ path \in Path /\ path # <<>>
  BY ProjectionAssumption, Zenon DEF Path, ResponsePath
<1>1. /\ at \in Path /\ policy.allowed \in SUBSET ResponsePath /\ policy.denied \in SUBSET ResponsePath
      /\ view.allowed \in SUBSET ResponsePath /\ view.denied \in SUBSET ResponsePath
      /\ view.all \in BOOLEAN /\ policy.all \in BOOLEAN
  BY Zenon DEF ProjectionInv, ProjectionTypeOK, Views
<1>2. at \o path \in Path /\ at \o path # <<>>
  BY <1>0, <1>1, PathsJoined, Zenon DEF ResponsePath
<1>3. /\ view.all = policy.all
      /\ \A a \in view.allowed : at \o a \in policy.allowed \/ AnyAbove(policy.allowed, at)
      /\ \A d \in view.denied : at \o d \in policy.denied
      /\ Below(policy.denied, at) \subseteq view.denied /\ ~AnyAbove(policy.denied, at)
  BY Zenon DEF ProjectionInv, ViewAgrees
<1>4. AnyAbove(policy.denied, at \o path) => AnyAbove(view.denied, path)
  BY <1>0, <1>1, <1>3, AboveOrBelow, Zenon
<1>5. AnyAbove(view.denied, path) => AnyAbove(policy.denied, at \o path)
  BY <1>0, <1>1, <1>3, AboveJoined, Zenon
<1>6. AnyRelated(view.allowed, path) => AnyRelated(policy.allowed, at \o path)
  <2>. SUFFICES ASSUME AnyRelated(view.allowed, path) PROVE AnyRelated(policy.allowed, at \o path)
    BY Zenon
  <2>1. PICK a \in view.allowed : Leads(a, path) \/ Leads(path, a)
    BY Zenon DEF AnyRelated, PathsRelated, IsSameOrDescendant
  <2>2. a \in Path
    BY <1>1, Zenon DEF Path, ResponsePath
  <2>3. CASE at \o a \in policy.allowed
    <3>1. (Leads(at \o a, at \o path) <=> Leads(a, path)) /\ (Leads(at \o path, at \o a) <=> Leads(path, a))
      BY <1>0, <1>1, <2>2, PrefixAfter, Zenon DEF Path
    <3>. QED  BY <2>1, <2>3, <3>1, Zenon DEF AnyRelated, PathsRelated, IsSameOrDescendant
  <2>4. CASE AnyAbove(policy.allowed, at)
    <3>1. AnyAbove(policy.allowed, at \o path)
      BY <1>0, <1>1, <2>4, AboveFurther, Zenon
    <3>. QED  BY <3>1, Zenon DEF AnyAbove, AnyRelated, PathsRelated
  <2>. QED  BY <1>3, <2>3, <2>4, Zenon
<1>7. CanView(view, path) => CanView(policy, at \o path)
  BY <1>2, <1>3, <1>4, <1>6, Zenon DEF CanView
<1>8. policy.all => (CanView(policy, at \o path) => CanView(view, path))
  BY <1>0, <1>3, <1>5, Zenon DEF CanView
<1>9. CanView(view, path) \in BOOLEAN /\ CanView(policy, at \o path) \in BOOLEAN
  BY Zenon DEF CanView
<1>. QED  BY <1>7, <1>8, <1>9, Zenon

(* projection.py: the answers of a serializer at any depth are those of    *)
(* the root, for any query, endpoint, policy and nesting of blocks.        *)
THEOREM AlwaysDescentKeepsMeaning == ResponseSpec => []DescentKeepsMeaning
<1>1. ProjectionInv => DescentKeepsMeaning
  <2>. SUFFICES ASSUME ProjectionInv, NEW path \in Leaves
                PROVE  /\ Has(spec, path) => Needs(spec, path)
                       /\ at # <<>> /\ AnyRelated(endpoint, at \o path) /\ ~Namesake(path) =>
                            /\ Has(spec, path) => Selected(at \o path)
                            /\ stepwise /\ Len(path) = 1 /\ Selected(at \o path) => Has(spec, path)
                       /\ CanView(view, path) => CanView(policy, at \o path)
                       /\ policy.all => CanView(view, path) = CanView(policy, at \o path)
    BY Zenon DEF DescentKeepsMeaning
  <2>1. Has(spec, path) => Needs(spec, path)
    <3>1. Leads(path, path)
      BY ProjectionAssumption, PrefixOfItself, Zenon DEF ResponsePath
    <3>. QED  BY <3>1, Zenon DEF Has, Needs, PathsRelated, IsSameOrDescendant
  <2>. QED  BY <2>1, ShownWasSelected, SelectedIsShown, ViewOfTheCaller, Zenon
<1>. QED  BY <1>1, ProjectionStart, ProjectionSteps, PTL DEF ResponseSpec

(***************************************************************************)
(* LimitKept for any number of calls, processes, subjects and evictions.   *)
(* The calls a counter lets through are followed from one second to the    *)
(* next, against the window it has open.                                   *)
(***************************************************************************)

(* What a counter lets through.  An open window that began s lets at most  *)
(* limit calls through after s, and s comes no sooner than a window after  *)
(* the one before it, unless that was evicted.                             *)

Since(S, x) == {a \in S : x <= a.at}
Span(S, t) == {a \in S : t <= a.at /\ a.at < t + Ttl}

\* Of a counter with the limit L and the allowance b, L and L more for every
\* eviction: the calls A it counted, S of them let through, and a window w.
WindowOk(S, A, w, L, b, now) ==
    /\ w.count \in Nat /\ w.expires \in Nat /\ w.expires - Ttl <= now
    /\ Cardinality(Since(S, w.expires - Ttl)) <= b - L + w.count
    /\ Cardinality(Since(S, w.expires - Ttl)) <= b
    /\ Cardinality(Since(S, w.expires - 2 * Ttl)) <= b + w.count
    /\ Cardinality(Since(S, w.expires - 2 * Ttl)) <= b + L
    /\ Cardinality(Since(A, w.expires - Ttl)) >= w.count

CounterOk(S, A, O, L, b, now) ==
    /\ \A w \in O : WindowOk(S, A, w, L, b, now)
    /\ O = {} => /\ Cardinality(Since(S, now - Ttl)) <= b
                 /\ Cardinality(Since(S, now)) <= b - L
    /\ \A t \in Int : Cardinality(Span(S, t)) <= b + L

\* A window lasts at least a second.
LEMMA TtlPositive == Ttl \in Nat /\ Ttl >= 1
  BY LimiterAssumption DEF Ttl

\* Cardinalities of a part, and of a part with one more call.
LEMMA SmallerSet ==
  ASSUME NEW S, IsFiniteSet(S), NEW T, T \subseteq S
  PROVE  IsFiniteSet(T) /\ Cardinality(T) \in Nat /\ Cardinality(S) \in Nat /\ Cardinality(T) <= Cardinality(S)
<1>1. IsFiniteSet(T) /\ Cardinality(T) <= Cardinality(S)
  BY FS_Subset, Zenon
<1>. QED  BY <1>1, FS_CardinalityType, Zenon

LEMMA OneMore ==
  ASSUME NEW S, IsFiniteSet(S), NEW a, NEW T, T \subseteq S \cup {a}
  PROVE  IsFiniteSet(T) /\ Cardinality(T) \in Nat /\ Cardinality(S) \in Nat /\ Cardinality(T) <= Cardinality(S) + 1
<1>1. IsFiniteSet(S \cup {a}) /\ Cardinality(S \cup {a}) = IF a \in S THEN Cardinality(S) ELSE Cardinality(S) + 1
  BY FS_AddElement, Zenon
<1>2. Cardinality(S) \in Nat
  BY FS_CardinalityType, Zenon
<1>3. IsFiniteSet(T) /\ Cardinality(T) \in Nat /\ Cardinality(T) <= Cardinality(S \cup {a})
  BY <1>1, SmallerSet, Zenon
<1>. QED  BY <1>1, <1>2, <1>3

\* Fewer calls let through, more counted, a larger allowance.
LEMMA WindowStays ==
  ASSUME NEW S, IsFiniteSet(S), NEW S2, S2 \subseteq S, NEW A2, IsFiniteSet(A2), NEW A, A \subseteq A2,
         NEW L \in Nat, NEW b \in Nat, NEW b2 \in Nat, b <= b2, NEW now \in Nat, NEW later \in Nat, now <= later,
         NEW w, WindowOk(S, A, w, L, b, now)
  PROVE  WindowOk(S2, A2, w, L, b2, later)
<1>. DEFINE s == w.expires - Ttl
            r == w.expires - 2 * Ttl
<1>1. \A x : Since(S2, x) \subseteq Since(S, x) /\ Since(A, x) \subseteq Since(A2, x)
  BY Zenon DEF Since
<1>2. \A x : IsFiniteSet(Since(S, x)) /\ IsFiniteSet(Since(A2, x))
  <2>1. \A x : Since(S, x) \subseteq S /\ Since(A2, x) \subseteq A2
    BY Zenon DEF Since
  <2>. QED  BY <2>1, SmallerSet, Zenon
<1>3. \A x : /\ Cardinality(Since(S2, x)) \in Nat /\ Cardinality(Since(S, x)) \in Nat
             /\ Cardinality(Since(S2, x)) <= Cardinality(Since(S, x))
  BY <1>1, <1>2, SmallerSet, Zenon
<1>4. \A x : /\ Cardinality(Since(A, x)) \in Nat /\ Cardinality(Since(A2, x)) \in Nat
             /\ Cardinality(Since(A, x)) <= Cardinality(Since(A2, x))
  BY <1>1, <1>2, SmallerSet, Zenon
<1>5. /\ w.count \in Nat /\ w.expires \in Nat /\ s <= now
      /\ Cardinality(Since(S, s)) <= b - L + w.count /\ Cardinality(Since(S, s)) <= b
      /\ Cardinality(Since(S, r)) <= b + w.count /\ Cardinality(Since(S, r)) <= b + L
      /\ Cardinality(Since(A, s)) >= w.count
  BY Zenon DEF WindowOk
<1>6. s \in Int
  BY <1>5, TtlPositive
<1>. HIDE DEF s, r
<1>7. s <= later
  BY <1>5, <1>6
<1>8. /\ Cardinality(Since(S2, s)) <= b2 - L + w.count /\ Cardinality(Since(S2, s)) <= b2
      /\ Cardinality(Since(S2, r)) <= b2 + w.count /\ Cardinality(Since(S2, r)) <= b2 + L
  <2>1. /\ Cardinality(Since(S2, s)) \in Nat /\ Cardinality(Since(S, s)) \in Nat
        /\ Cardinality(Since(S2, r)) \in Nat /\ Cardinality(Since(S, r)) \in Nat
        /\ Cardinality(Since(S2, s)) <= Cardinality(Since(S, s)) /\ Cardinality(Since(S2, r)) <= Cardinality(Since(S, r))
    BY <1>3, Zenon
  <2>. QED  BY <1>5, <2>1
<1>9. Cardinality(Since(A2, s)) >= w.count
  <2>1. /\ Cardinality(Since(A, s)) \in Nat /\ Cardinality(Since(A2, s)) \in Nat
        /\ Cardinality(Since(A, s)) <= Cardinality(Since(A2, s))
    BY <1>4, Zenon
  <2>. QED  BY <1>5, <2>1
<1>. QED  BY <1>5, <1>7, <1>8, <1>9, Zenon DEF WindowOk, s, r

\* Of finitely many calls finitely many are recent.
LEMMA Finite ==
  ASSUME NEW S, IsFiniteSet(S)
  PROVE  /\ \A x : Cardinality(Since(S, x)) \in Nat /\ IsFiniteSet(Since(S, x))
         /\ \A t : Cardinality(Span(S, t)) \in Nat /\ IsFiniteSet(Span(S, t))
<1>1. \A x : Since(S, x) \subseteq S
  BY Zenon DEF Since
<1>2. \A t : Span(S, t) \subseteq S
  BY Zenon DEF Span
<1>. QED  BY <1>1, <1>2, SmallerSet, Zenon

\* Fewer calls let through and fewer windows: each of those that go adds to
\* the allowance.
LEMMA CounterKeeps ==
  ASSUME NEW S, IsFiniteSet(S), NEW S2, S2 \subseteq S, \A a \in S : a.at \in Nat,
         NEW A2, IsFiniteSet(A2), NEW A, A \subseteq A2,
         NEW L \in Nat, NEW b \in Nat, NEW b2 \in Nat, b <= b2, NEW now \in Nat,
         NEW O, NEW O2, O2 \subseteq O, O2 = {} /\ O # {} => b + L <= b2,
         CounterOk(S, A, O, L, b, now)
  PROVE  CounterOk(S2, A2, O2, L, b2, now)
<1>1. \A w \in O2 : WindowOk(S2, A2, w, L, b2, now)
  <2>1. \A w \in O2 : WindowOk(S, A, w, L, b, now)
    BY Zenon DEF CounterOk
  <2>2. now <= now
    OBVIOUS
  <2>. QED  BY <2>1, <2>2, WindowStays, Zenon
<1>2. ASSUME O2 = {}
      PROVE  Cardinality(Since(S2, now - Ttl)) <= b2 /\ Cardinality(Since(S2, now)) <= b2 - L
  <2>1. CASE O = {}
    <3>1. Since(S2, now - Ttl) \subseteq Since(S, now - Ttl) /\ Since(S2, now) \subseteq Since(S, now)
      BY Zenon DEF Since
    <3>2. Cardinality(Since(S, now - Ttl)) <= b /\ Cardinality(Since(S, now)) <= b - L
      BY <2>1, Zenon DEF CounterOk
    <3>3. /\ Cardinality(Since(S2, now - Ttl)) <= Cardinality(Since(S, now - Ttl))
          /\ Cardinality(Since(S2, now)) <= Cardinality(Since(S, now))
          /\ Cardinality(Since(S2, now - Ttl)) \in Nat /\ Cardinality(Since(S, now - Ttl)) \in Nat
          /\ Cardinality(Since(S2, now)) \in Nat /\ Cardinality(Since(S, now)) \in Nat
      BY <3>1, Finite, SmallerSet, Zenon
    <3>. QED  BY <3>2, <3>3
  <2>2. CASE O # {}
    <3>1. PICK w \in O : WindowOk(S, A, w, L, b, now)
      BY <2>2, Zenon DEF CounterOk
    <3>2. /\ w.expires \in Nat /\ w.expires - Ttl <= now
          /\ Cardinality(Since(S, w.expires - Ttl)) <= b /\ Cardinality(Since(S, w.expires - 2 * Ttl)) <= b + L
      BY <3>1, Zenon DEF WindowOk
    <3>3. w.expires - 2 * Ttl <= now - Ttl
      BY <3>2, TtlPositive
    <3>4. Since(S2, now - Ttl) \subseteq Since(S, w.expires - 2 * Ttl) /\ Since(S2, now) \subseteq Since(S, w.expires - Ttl)
      BY <3>2, <3>3, TtlPositive DEF Since
    <3>5. /\ Cardinality(Since(S2, now - Ttl)) <= Cardinality(Since(S, w.expires - 2 * Ttl))
          /\ Cardinality(Since(S2, now)) <= Cardinality(Since(S, w.expires - Ttl))
          /\ Cardinality(Since(S2, now - Ttl)) \in Nat /\ Cardinality(Since(S, w.expires - 2 * Ttl)) \in Nat
          /\ Cardinality(Since(S2, now)) \in Nat /\ Cardinality(Since(S, w.expires - Ttl)) \in Nat
      BY <3>4, Finite, SmallerSet, Zenon
    <3>6. b + L <= b2
      BY <1>2, <2>2, Zenon
    <3>. QED  BY <3>2, <3>5, <3>6
  <2>. QED  BY <2>1, <2>2, Zenon
<1>3. ASSUME NEW t \in Int PROVE Cardinality(Span(S2, t)) <= b2 + L
  <2>1. Span(S2, t) \subseteq Span(S, t)
    BY Zenon DEF Span
  <2>2. Cardinality(Span(S, t)) <= b + L
    BY Zenon DEF CounterOk
  <2>3. /\ Cardinality(Span(S2, t)) <= Cardinality(Span(S, t))
        /\ Cardinality(Span(S2, t)) \in Nat /\ Cardinality(Span(S, t)) \in Nat
    BY <2>1, Finite, SmallerSet, Zenon
  <2>. QED  BY <2>2, <2>3
<1>. QED  BY <1>1, <1>2, <1>3, Zenon DEF CounterOk

\* A second goes by: windows expire.
LEMMA CounterWaits ==
  ASSUME NEW S, IsFiniteSet(S), NEW now \in Nat, \A a \in S : a.at \in Nat /\ a.at <= now,
         NEW A, IsFiniteSet(A), NEW L \in Nat, NEW b \in Nat, L <= b, NEW O,
         CounterOk(S, A, O, L, b, now), NEW O2, O2 = {w \in O : w.expires > now + 1}
  PROVE  CounterOk(S, A, O2, L, b, now + 1)
<1>1. \A w \in O2 : WindowOk(S, A, w, L, b, now + 1)
  <2>1. now + 1 \in Nat /\ now <= now + 1 /\ b <= b
    OBVIOUS
  <2>2. \A w \in O2 : WindowOk(S, A, w, L, b, now)
    BY Zenon DEF CounterOk
  <2>. QED  BY <2>1, <2>2, WindowStays, Zenon
<1>2. ASSUME O2 = {}
      PROVE  Cardinality(Since(S, (now + 1) - Ttl)) <= b /\ Cardinality(Since(S, now + 1)) <= b - L
  <2>1. Since(S, now + 1) = {}
    BY DEF Since
  <2>2. Cardinality(Since(S, now + 1)) <= b - L
    <3>1. Cardinality(Since(S, now + 1)) = 0
      BY <2>1, FS_EmptySet, Zenon
    <3>. QED  BY <3>1
  <2>3. PICK x \in Int : x <= (now + 1) - Ttl /\ Cardinality(Since(S, x)) <= b
    <3>1. CASE O = {}
      <4>1. now - Ttl \in Int /\ now - Ttl <= (now + 1) - Ttl
        BY TtlPositive
      <4>2. Cardinality(Since(S, now - Ttl)) <= b
        BY <3>1, Zenon DEF CounterOk
      <4>. QED  BY <4>1, <4>2, Zenon
    <3>2. CASE O # {}
      <4>1. PICK w \in O : WindowOk(S, A, w, L, b, now)
        BY <3>2, Zenon DEF CounterOk
      <4>2. w.expires \in Nat /\ Cardinality(Since(S, w.expires - Ttl)) <= b
        BY <4>1, Zenon DEF WindowOk
      <4>3. ~(w.expires > now + 1)
        BY <1>2, Zenon
      <4>4. w.expires - Ttl \in Int /\ w.expires - Ttl <= (now + 1) - Ttl
        BY <4>2, <4>3, TtlPositive
      <4>. QED  BY <4>2, <4>4, Zenon
    <3>. QED  BY <3>1, <3>2, Zenon
  <2>4. Since(S, (now + 1) - Ttl) \subseteq Since(S, x)
    BY <2>3, TtlPositive DEF Since
  <2>5. /\ Cardinality(Since(S, (now + 1) - Ttl)) <= Cardinality(Since(S, x))
        /\ Cardinality(Since(S, (now + 1) - Ttl)) \in Nat /\ Cardinality(Since(S, x)) \in Nat
    BY <2>4, Finite, SmallerSet, Zenon
  <2>6. Cardinality(Since(S, (now + 1) - Ttl)) <= b
    BY <2>3, <2>5
  <2>. QED  BY <2>2, <2>6, Zenon
<1>3. \A t \in Int : Cardinality(Span(S, t)) <= b + L
  BY Zenon DEF CounterOk
<1>. QED  BY <1>1, <1>2, <1>3, Zenon DEF CounterOk

\* A call is counted in a window that satisfies the bounds then.
LEMMA CounterCounts ==
  ASSUME NEW S, IsFiniteSet(S), NEW now \in Nat, \A a \in S : a.at \in Nat, NEW S2, NEW x,
         S2 \subseteq S \cup {x}, x.at = now, NEW A2, NEW L \in Nat, NEW b \in Nat,
         \A t \in Int : Cardinality(Span(S, t)) <= b + L,
         NEW w, WindowOk(S2, A2, w, L, b, now)
  PROVE  CounterOk(S2, A2, {w}, L, b, now)
<1>1. /\ w.expires \in Nat /\ w.expires - Ttl <= now
      /\ Cardinality(Since(S2, w.expires - 2 * Ttl)) <= b + L
  BY Zenon DEF WindowOk
<1>2. IsFiniteSet(S2)
  BY OneMore, Zenon
<1>3. \A a \in S2 : a.at \in Nat
  BY Zenon
<1>4. ASSUME NEW t \in Int PROVE Cardinality(Span(S2, t)) <= b + L
  <2>1. CASE now - Ttl < t
    <3>1. w.expires - 2 * Ttl <= t
      BY <1>1, <2>1, TtlPositive
    <3>2. Span(S2, t) \subseteq Since(S2, w.expires - 2 * Ttl)
      BY <1>1, <1>3, <3>1, TtlPositive DEF Span, Since
    <3>3. /\ Cardinality(Span(S2, t)) <= Cardinality(Since(S2, w.expires - 2 * Ttl))
          /\ Cardinality(Span(S2, t)) \in Nat /\ Cardinality(Since(S2, w.expires - 2 * Ttl)) \in Nat
      BY <1>2, <3>2, Finite, SmallerSet, Zenon
    <3>. QED  BY <1>1, <3>3
  <2>2. CASE ~(now - Ttl < t)
    <3>1. ~(x.at < t + Ttl)
      BY <2>2, TtlPositive
    <3>2. Span(S2, t) \subseteq Span(S, t)
      BY <3>1, Zenon DEF Span
    <3>3. /\ Cardinality(Span(S2, t)) <= Cardinality(Span(S, t))
          /\ Cardinality(Span(S2, t)) \in Nat /\ Cardinality(Span(S, t)) \in Nat
      BY <3>2, Finite, SmallerSet, Zenon
    <3>4. Cardinality(Span(S, t)) <= b + L
      BY Zenon
    <3>. QED  BY <3>3, <3>4
  <2>. QED  BY <2>1, <2>2, Zenon
<1>5. {w} # {}
  BY Zenon
<1>6. \A u \in {w} : WindowOk(S2, A2, u, L, b, now)
  BY Zenon
<1>. QED  BY <1>4, <1>5, <1>6, Zenon DEF CounterOk

LEMMA SinceOneMore ==
  ASSUME NEW S, IsFiniteSet(S), NEW S2, NEW x, S2 \subseteq S \cup {x}, NEW y
  PROVE  /\ Cardinality(Since(S2, y)) \in Nat /\ Cardinality(Since(S, y)) \in Nat
         /\ Cardinality(Since(S2, y)) <= Cardinality(Since(S, y)) + 1
         /\ S2 \subseteq S => Cardinality(Since(S2, y)) <= Cardinality(Since(S, y))
<1>1. Since(S2, y) \subseteq Since(S, y) \cup {x}
  BY Zenon DEF Since
<1>2. S2 \subseteq S => Since(S2, y) \subseteq Since(S, y)
  BY Zenon DEF Since
<1>. QED  BY <1>1, <1>2, Finite, SmallerSet, OneMore, Zenon

LEMMA SinceCounted ==
  ASSUME NEW A, IsFiniteSet(A), NEW x, x \notin A, NEW y, y <= x.at
  PROVE  Cardinality(Since(A \cup {x}, y)) = Cardinality(Since(A, y)) + 1
<1>1. Since(A \cup {x}, y) = Since(A, y) \cup {x} /\ x \notin Since(A, y)
  BY Zenon DEF Since
<1>. QED  BY <1>1, Finite, FS_AddElement, Zenon

\* A call is counted in the open window, and let through below the limit.
LEMMA CounterJoins ==
  ASSUME NEW S, IsFiniteSet(S), NEW now \in Nat, \A a \in S : a.at \in Nat, NEW A, IsFiniteSet(A),
         NEW L \in Nat, NEW b \in Nat, NEW O, CounterOk(S, A, O, L, b, now), NEW w \in O,
         NEW S2, NEW x, S2 \subseteq S \cup {x}, x.at = now, x \notin A, S2 \subseteq S \/ w.count < L,
         NEW w2, w2.count = w.count + 1, w2.expires = w.expires
  PROVE  CounterOk(S2, A \cup {x}, {w2}, L, b, now)
<1>. DEFINE s == w.expires - Ttl
            r == w.expires - 2 * Ttl
<1>1. WindowOk(S, A, w, L, b, now) /\ \A t \in Int : Cardinality(Span(S, t)) <= b + L
  BY Zenon DEF CounterOk
<1>2. /\ w.count \in Nat /\ w.expires \in Nat /\ s <= now
      /\ Cardinality(Since(S, s)) <= b - L + w.count /\ Cardinality(Since(S, s)) <= b
      /\ Cardinality(Since(S, r)) <= b + w.count /\ Cardinality(Since(S, r)) <= b + L
      /\ Cardinality(Since(A, s)) >= w.count
  BY <1>1, Zenon DEF WindowOk
<1>3. /\ Cardinality(Since(S2, s)) \in Nat /\ Cardinality(Since(S, s)) \in Nat
      /\ Cardinality(Since(S2, r)) \in Nat /\ Cardinality(Since(S, r)) \in Nat
      /\ Cardinality(Since(S2, s)) <= Cardinality(Since(S, s)) + 1
      /\ Cardinality(Since(S2, r)) <= Cardinality(Since(S, r)) + 1
      /\ S2 \subseteq S => Cardinality(Since(S2, s)) <= Cardinality(Since(S, s))
      /\ S2 \subseteq S => Cardinality(Since(S2, r)) <= Cardinality(Since(S, r))
  BY SinceOneMore, Zenon
<1>4. Cardinality(Since(A \cup {x}, s)) = Cardinality(Since(A, s)) + 1 /\ Cardinality(Since(A, s)) \in Nat
  BY <1>2, SinceCounted, Finite, Zenon
<1>. HIDE DEF s, r
<1>5. /\ w2.count \in Nat /\ w2.expires \in Nat
      /\ Cardinality(Since(S2, s)) <= b - L + w2.count /\ Cardinality(Since(S2, s)) <= b
      /\ Cardinality(Since(S2, r)) <= b + w2.count /\ Cardinality(Since(S2, r)) <= b + L
      /\ Cardinality(Since(A \cup {x}, s)) >= w2.count
  <2>1. CASE S2 \subseteq S
    BY <1>2, <1>3, <1>4, <2>1
  <2>2. CASE w.count < L
    BY <1>2, <1>3, <1>4, <2>2
  <2>. QED  BY <2>1, <2>2, Zenon
<1>6. WindowOk(S2, A \cup {x}, w2, L, b, now)
  BY <1>2, <1>5, Zenon DEF WindowOk, s, r
<1>. QED  BY <1>1, <1>6, CounterCounts, Zenon

\* No window is open: a call opens one.
LEMMA CounterOpens ==
  ASSUME NEW S, IsFiniteSet(S), NEW now \in Nat, \A a \in S : a.at \in Nat, NEW A, IsFiniteSet(A),
         NEW L \in Nat, L >= 1, NEW b \in Nat, CounterOk(S, A, {}, L, b, now),
         NEW S2, NEW x, S2 \subseteq S \cup {x}, x.at = now, x \notin A,
         NEW w, w.count = 1, w.expires = now + Ttl
  PROVE  CounterOk(S2, A \cup {x}, {w}, L, b, now)
<1>1. /\ Cardinality(Since(S, now - Ttl)) <= b /\ Cardinality(Since(S, now)) <= b - L
      /\ \A t \in Int : Cardinality(Span(S, t)) <= b + L
  BY Zenon DEF CounterOk
<1>2. w.expires - Ttl = now /\ w.expires - 2 * Ttl = now - Ttl /\ w.expires \in Nat
  BY TtlPositive
<1>3. /\ Cardinality(Since(S2, now)) \in Nat /\ Cardinality(Since(S, now)) \in Nat
      /\ Cardinality(Since(S2, now - Ttl)) \in Nat /\ Cardinality(Since(S, now - Ttl)) \in Nat
      /\ Cardinality(Since(S2, now)) <= Cardinality(Since(S, now)) + 1
      /\ Cardinality(Since(S2, now - Ttl)) <= Cardinality(Since(S, now - Ttl)) + 1
  BY SinceOneMore, Zenon
<1>4. now <= now
  OBVIOUS
<1>5. Cardinality(Since(A \cup {x}, now)) = Cardinality(Since(A, now)) + 1 /\ Cardinality(Since(A, now)) \in Nat
  BY <1>4, SinceCounted, Finite, ZenonT(40)
<1>6. /\ w.count \in Nat /\ Cardinality(Since(S2, now)) <= b - L + w.count /\ Cardinality(Since(S2, now)) <= b
      /\ Cardinality(Since(S2, now - Ttl)) <= b + w.count /\ Cardinality(Since(S2, now - Ttl)) <= b + L
      /\ Cardinality(Since(A \cup {x}, now)) >= w.count
  BY <1>1, <1>3, <1>5
<1>7. WindowOk(S2, A \cup {x}, w, L, b, now)
  BY <1>2, <1>4, <1>6, Zenon DEF WindowOk
<1>. QED  BY <1>1, <1>7, CounterCounts, Zenon

-----------------------------------------------------------------------------
(* The counters and the calls.                                             *)

Counters == {Redis} \cup LimiterProcs
Stamps == [req : LimitedCalls, by : Counters, key : Keys, at : Nat]
Windows == [key : Keys, count : Nat, expires : Nat]
CallRecords ==
    [st : {"idle", "eval", "reply", "served", "refused", "failed"}, proc : LimiterProcs \cup {"none"},
     key : Keys \cup {"none"}, by : Counters \cup {"none"}, at : Nat, value : Nat]

LimiterTypeOK ==
    /\ limiter \in LimiterConfigs
    /\ limiterClock \in Nat
    /\ windows \in [Keys -> [count : Nat, expires : Nat]]
    /\ entries \in [LimiterProcs -> Seq(Windows)]
    /\ reqs \in [LimitedCalls -> CallRecords]
    /\ counted \in SUBSET Stamps /\ IsFiniteSet(counted)
    /\ \A a \in counted : a.at <= limiterClock
    /\ evicted \in [LimiterProcs -> [Keys -> Nat]]

\* A call that was let through, or will be when it reads the answer of Redis.
Passed(a) ==
    \/ reqs[a.req].st = "served" /\ reqs[a.req].by = a.by
    \/ a.by = Redis /\ reqs[a.req].st = "reply" /\ reqs[a.req].value <= limiter.limit

CountedBy(c, k) == {a \in counted : a.by = c /\ a.key = k}
Through(c, k) == {a \in CountedBy(c, k) : Passed(a)}
Open(c, k) ==
    IF c = Redis THEN {w \in {windows[k]} : w.count > 0 /\ w.expires > limiterClock}
    ELSE {e \in Elements(entries[c]) : e.key = k /\ e.expires > limiterClock}
Allowance(c, k) == limiter.limit * (1 + IF c = Redis THEN 0 ELSE evicted[c][k])

CountersOk ==
    limiter.limit > 0 =>
        \A c \in Counters, k \in Keys :
            CounterOk(Through(c, k), CountedBy(c, k), Open(c, k), limiter.limit, Allowance(c, k), limiterClock)

\* The other calls that a counter counted within the last window.
Recent(q, c, k, n) == {a \in InSpan(c, k, n - Ttl + 1) : a.req # q}
Others(q, c) == Recent(q, c, reqs[q].key, reqs[q].at)

CallOk(q) ==
    /\ reqs[q].st \in {"idle", "eval"} => \A a \in counted : a.req # q
    /\ reqs[q].st = "reply" =>
         /\ \A a \in counted : a.req = q => a.by = Redis
         /\ Cardinality(Others(q, Redis)) >= reqs[q].value - 1
    /\ reqs[q].st \in {"eval", "reply"} =>
         limiter.limit > 0 /\ reqs[q].proc \in LimiterProcs /\ reqs[q].key \in Keys
    /\ reqs[q].st = "refused" => Cardinality(Others(q, reqs[q].by)) >= limiter.limit

LimiterInv == LimiterTypeOK /\ CountersOk /\ \A q \in LimitedCalls : CallOk(q)

-----------------------------------------------------------------------------
(* What a call of the local limiter does.                                  *)

\* The open window of the key is full: only expired windows go.
LocalRefused(q, r, r2) ==
    /\ reqs' = [reqs EXCEPT ![q] = r2]
    /\ r2.st = "refused" /\ r2.by = r.proc /\ r2.key = r.key /\ r2.at = limiterClock
    /\ counted' = counted /\ evicted' = evicted
    /\ entries' \in [LimiterProcs -> Seq(Windows)]
    /\ \A c \in LimiterProcs : {e \in Elements(entries'[c]) : e.expires > limiterClock}
                                 = {e \in Elements(entries[c]) : e.expires > limiterClock}
    /\ \E w \in Open(r.proc, r.key) : w.count >= limiter.limit

\* The call is counted in the window w2: what is not held any more was evicted.
WindowsHeld(r, w2) == {e \in Elements(entries[r.proc]) : e.expires > limiterClock /\ e.key # r.key} \cup {w2}
LocalCounted(q, r, r2, w2) ==
    /\ reqs' = [reqs EXCEPT ![q] = r2]
    /\ r2.st = "served" /\ r2.by = r.proc
    /\ Count(q, r.proc, r.key)
    /\ entries' \in [LimiterProcs -> Seq(Windows)] /\ evicted' \in [LimiterProcs -> [Keys -> Nat]]
    /\ \A c \in LimiterProcs \ {r.proc} : entries'[c] = entries[c] /\ evicted'[c] = evicted[c]
    /\ \A k \in Keys : evicted'[r.proc][k] \in {evicted[r.proc][k], evicted[r.proc][k] + 1}
    /\ w2.key = r.key
    /\ \/ \E w \in Open(r.proc, r.key) :
            w.count < limiter.limit /\ w2.count = w.count + 1 /\ w2.expires = w.expires
       \/ Open(r.proc, r.key) = {} /\ w2.count = 1 /\ w2.expires = limiterClock + Ttl
    /\ Elements(entries'[r.proc]) \subseteq WindowsHeld(r, w2)
    /\ \A e \in WindowsHeld(r, w2) : e \notin Elements(entries'[r.proc]) =>
         evicted'[r.proc][e.key] = evicted[r.proc][e.key] + 1

\* _LocalWindowLimiter.enforce refuses or counts, and evicts the oldest.
LEMMA LocalMeans ==
  ASSUME LimiterTypeOK, NEW q \in LimitedCalls, NEW r \in CallRecords, r.proc \in LimiterProcs, r.key \in Keys,
         limiter.limit > 0, LocalEnforce(q, r)
  PROVE  \E r2 \in CallRecords : LocalRefused(q, r, r2) \/ \E w2 \in Windows : LocalCounted(q, r, r2, w2)
<1>. DEFINE p == r.proc
            held == Elements(entries[p])
            open == {e \in held : e.expires > limiterClock}
            mine == {e \in open : e.key = r.key}
            entry == IF mine # {} THEN CHOOSE e \in mine : TRUE
                     ELSE [key |-> r.key, count |-> 0, expires |-> limiterClock + Ttl]
            w2 == [entry EXCEPT !.count = @ + 1]
            rest == Filtered(entries[p], open \ mine)
            stored == Append(rest, w2)
            excess == IF Len(stored) > MaxLocalEntries THEN Len(stored) - MaxLocalEntries ELSE 0
            done == [r EXCEPT !.proc = "none", !.value = 0, !.by = r.proc, !.at = limiterClock]
<1>1. /\ limiterClock \in Nat /\ entries \in [LimiterProcs -> Seq(Windows)] /\ evicted \in [LimiterProcs -> [Keys -> Nat]]
      /\ limiter.limit \in Int
  <2>1. limiter.limit \in Int
    BY LimiterAssumption, Zenon DEF LimiterTypeOK
  <2>. QED  BY <2>1, Zenon DEF LimiterTypeOK
<1>2. entries[p] \in Seq(Windows) /\ held \in SUBSET Windows
  <2>1. entries[p] \in Seq(Windows)
    BY <1>1, Zenon
  <2>2. \A i \in DOMAIN entries[p] : entries[p][i] \in Windows
    BY <2>1
  <2>. QED  BY <2>1, <2>2, Zenon DEF Elements
<1>3. p # Redis
  BY LimiterAssumption, Zenon
<1>4. Open(p, r.key) = mine
  BY <1>3, Zenon DEF Open
<1>5. mine # {} => entry \in mine
  BY Zenon
<1>6. mine = {} => entry \in Windows /\ entry.key = r.key /\ entry.count = 0 /\ entry.expires = limiterClock + Ttl
  <2>. DEFINE fresh == [key |-> r.key, count |-> 0, expires |-> limiterClock + Ttl]
  <2>1. limiterClock + Ttl \in Nat
    BY <1>1, TtlPositive
  <2>2. fresh \in Windows /\ fresh.key = r.key /\ fresh.count = 0 /\ fresh.expires = limiterClock + Ttl
    BY <2>1, Zenon DEF Windows
  <2>3. mine = {} => entry = fresh
    BY Zenon
  <2>. HIDE DEF fresh, entry
  <2>. QED  BY <2>2, <2>3, Zenon
<1>7. /\ \/ OverLocalLimit(entry) /\ entries' = [entries EXCEPT ![p] = Filtered(entries[p], open)]
            /\ reqs' = [reqs EXCEPT ![q] = [done EXCEPT !.st = "refused"]]
            /\ counted' = counted /\ evicted' = evicted
         \/ /\ ~OverLocalLimit(entry) /\ entries' = [entries EXCEPT ![p] = SubSeq(stored, excess + 1, Len(stored))]
            /\ reqs' = [reqs EXCEPT ![q] = [done EXCEPT !.st = "served"]]
            /\ Count(q, r.proc, r.key)
            /\ evicted' = [evicted EXCEPT ![p] = [k \in Keys |->
                    IF \E i \in 1..excess : stored[i].key = k THEN evicted[p][k] + 1 ELSE evicted[p][k]]]
  BY Zenon DEF LocalEnforce
<1>8. \A st \in {"refused", "served"} :
         LET r2 == [done EXCEPT !.st = st] IN
         r2 \in CallRecords /\ r2.st = st /\ r2.by = r.proc /\ r2.key = r.key /\ r2.at = limiterClock
  BY <1>1, Zenon DEF CallRecords, Counters
<1>. HIDE DEF entry
<1>9. entry \in Windows /\ entry.key = r.key
  <2>1. CASE mine # {}
    BY <1>2, <1>5, <2>1, Zenon
  <2>2. CASE mine = {}
    BY <1>6, <2>2, Zenon
  <2>. QED  BY <2>1, <2>2, Zenon
<1>10. w2 \in Windows /\ w2.key = r.key /\ w2.count = entry.count + 1 /\ w2.expires = entry.expires
  BY <1>9 DEF Windows
<1>. HIDE DEF w2, mine, open, held, done
<1>20. CASE OverLocalLimit(entry)
  <2>1. /\ entries' = [entries EXCEPT ![p] = Filtered(entries[p], open)]
        /\ reqs' = [reqs EXCEPT ![q] = [done EXCEPT !.st = "refused"]]
        /\ counted' = counted /\ evicted' = evicted
    BY <1>7, <1>20, Zenon
  <2>2. Filtered(entries[p], open) \in Seq(Windows) /\ Elements(Filtered(entries[p], open)) = held \cap open
    BY <1>2, FilteredMeans, Zenon DEF held
  <2>3. entries' \in [LimiterProcs -> Seq(Windows)] /\ entries'[p] = Filtered(entries[p], open)
        /\ \A c \in LimiterProcs \ {p} : entries'[c] = entries[c]
    BY <1>1, <2>1, <2>2, Zenon
  <2>4. \A c \in LimiterProcs : {e \in Elements(entries'[c]) : e.expires > limiterClock}
                                  = {e \in Elements(entries[c]) : e.expires > limiterClock}
    <3>1. {e \in held \cap open : e.expires > limiterClock} = {e \in held : e.expires > limiterClock}
      BY Zenon DEF open
    <3>2. {e \in Elements(entries'[p]) : e.expires > limiterClock} = {e \in Elements(entries[p]) : e.expires > limiterClock}
      BY <2>2, <2>3, <3>1, Zenon DEF held
    <3>. QED  BY <2>3, <3>2, Zenon
  <2>5. entry \in mine /\ entry.count >= limiter.limit
    <3>1. entry.count >= limiter.limit
      BY <1>20, Zenon DEF OverLocalLimit
    <3>2. mine # {}
      <4>1. ASSUME mine = {} PROVE FALSE
        <5>1. entry.count = 0
          BY <1>6, <4>1, Zenon
        <5>. QED  BY <1>1, <3>1, <5>1
      <4>. QED  BY <4>1, Zenon
    <3>. QED  BY <1>5, <3>1, <3>2, Zenon
  <2>6. PICK r2 \in CallRecords : /\ reqs' = [reqs EXCEPT ![q] = r2]
                                  /\ r2.st = "refused" /\ r2.by = r.proc /\ r2.key = r.key /\ r2.at = limiterClock
    BY <1>8, <2>1, Zenon
  <2>7. LocalRefused(q, r, r2)
    BY <1>4, <2>1, <2>3, <2>4, <2>5, <2>6, Zenon DEF LocalRefused
  <2>. QED  BY <2>7, Zenon
<1>21. CASE ~OverLocalLimit(entry)
  <2>1. /\ entries' = [entries EXCEPT ![p] = SubSeq(stored, excess + 1, Len(stored))]
        /\ reqs' = [reqs EXCEPT ![q] = [done EXCEPT !.st = "served"]]
        /\ Count(q, r.proc, r.key)
        /\ evicted' = [evicted EXCEPT ![p] = [k \in Keys |->
                IF \E i \in 1..excess : stored[i].key = k THEN evicted[p][k] + 1 ELSE evicted[p][k]]]
    BY <1>7, <1>21, Zenon
  <2>2. rest \in Seq(Windows) /\ Elements(rest) = held \cap (open \ mine)
    BY <1>2, FilteredMeans, Zenon DEF held
  <2>. HIDE DEF rest
  <2>3. stored \in Seq(Windows) /\ Elements(stored) = Elements(rest) \cup {w2}
    BY <1>10, <2>2, AppendedElements
  <2>. HIDE DEF stored
  <2>4. excess \in Nat /\ excess <= Len(stored) /\ Len(stored) \in Nat
    BY <2>3, LimiterAssumption
  <2>. HIDE DEF excess
  <2>. DEFINE left == SubSeq(stored, excess + 1, Len(stored))
  <2>5. /\ left \in Seq(Windows) /\ DOMAIN left = 1..(Len(stored) - excess)
        /\ \A i \in DOMAIN left : left[i] = stored[i + excess] /\ i + excess \in DOMAIN stored
        /\ \A i \in DOMAIN stored : i \in 1..excess \/ (i - excess \in DOMAIN left /\ left[i - excess] = stored[i])
    BY <2>3, <2>4, SMTT(30)
  <2>. HIDE DEF left
  <2>6. Elements(left) \subseteq Elements(stored)
    <3>. SUFFICES ASSUME NEW i \in DOMAIN left PROVE left[i] \in Elements(stored)
      BY Zenon DEF Elements
    <3>1. left[i] = stored[i + excess] /\ i + excess \in DOMAIN stored
      BY <2>5, Zenon
    <3>. QED  BY <3>1, Zenon DEF Elements
  <2>7. \A e \in Elements(stored) : e \notin Elements(left) => \E i \in 1..excess : stored[i].key = e.key
    <3>. SUFFICES ASSUME NEW i \in DOMAIN stored, stored[i] \notin Elements(left)
                  PROVE  \E j \in 1..excess : stored[j].key = stored[i].key
      BY Zenon DEF Elements
    <3>1. CASE i \in 1..excess
      BY <3>1, Zenon
    <3>2. CASE i - excess \in DOMAIN left /\ left[i - excess] = stored[i]
      BY <3>2, Zenon DEF Elements
    <3>. QED  BY <2>5, <3>1, <3>2, Zenon
  <2>8. Elements(stored) = {e \in Elements(entries[p]) : e.expires > limiterClock /\ e.key # r.key} \cup {w2}
    BY <2>2, <2>3, Zenon DEF held, open, mine
  <2>9. entries' \in [LimiterProcs -> Seq(Windows)] /\ entries'[p] = left
        /\ \A c \in LimiterProcs \ {p} : entries'[c] = entries[c]
    BY <1>1, <2>1, <2>5, Zenon DEF left
  <2>10. evicted' \in [LimiterProcs -> [Keys -> Nat]] /\ \A c \in LimiterProcs \ {p} : evicted'[c] = evicted[c]
    <3>1. \A k \in Keys : evicted[p][k] \in Nat
      BY <1>1, Zenon
    <3>2. \A k \in Keys : evicted[p][k] + 1 \in Nat
      BY <3>1
    <3>3. [k \in Keys |-> IF \E i \in 1..excess : stored[i].key = k THEN evicted[p][k] + 1 ELSE evicted[p][k]]
             \in [Keys -> Nat]
      BY <3>1, <3>2, Zenon
    <3>. QED  BY <1>1, <2>1, <3>3, Zenon
  <2>11. \A k \in Keys : /\ evicted'[p][k] \in {evicted[p][k], evicted[p][k] + 1}
                         /\ (\E i \in 1..excess : stored[i].key = k) => evicted'[p][k] = evicted[p][k] + 1
    BY <1>1, <2>1, Zenon
  <2>12. \A e \in Elements(stored) : e.key \in Keys
    <3>0. \A i \in DOMAIN stored : stored[i] \in Windows
      BY <2>3
    <3>1. \A i \in DOMAIN stored : stored[i].key \in Keys
      BY <3>0, Zenon DEF Windows
    <3>. QED  BY <3>1, Zenon DEF Elements
  <2>13. \/ \E w \in Open(p, r.key) : w.count < limiter.limit /\ w2.count = w.count + 1 /\ w2.expires = w.expires
         \/ Open(p, r.key) = {} /\ w2.count = 1 /\ w2.expires = limiterClock + Ttl
    <3>1. CASE mine # {}
      <4>1. entry.count \in Nat /\ ~(entry.count >= limiter.limit)
        BY <1>9, <1>21, Zenon DEF Windows, OverLocalLimit
      <4>2. entry.count < limiter.limit
        BY <1>1, <4>1
      <4>. QED  BY <1>4, <1>5, <1>10, <3>1, <4>2, Zenon
    <3>2. CASE mine = {}
      <4>1. entry.count = 0 /\ entry.expires = limiterClock + Ttl
        BY <1>6, <3>2, Zenon
      <4>2. w2.count = 1
        BY <1>10, <4>1
      <4>. QED  BY <1>4, <1>10, <3>2, <4>1, <4>2, Zenon
    <3>. QED  BY <3>1, <3>2, Zenon
  <2>14. \A e \in Elements(stored) : e \notin Elements(entries'[p]) => evicted'[p][e.key] = evicted[p][e.key] + 1
    BY <2>7, <2>9, <2>11, <2>12, Zenon
  <2>15. Elements(entries'[p]) \subseteq Elements(stored)
    BY <2>6, <2>9, Zenon
  <2>16. PICK r2 \in CallRecords : reqs' = [reqs EXCEPT ![q] = r2] /\ r2.st = "served" /\ r2.by = r.proc
    BY <1>8, <2>1, Zenon
  <2>17. WindowsHeld(r, w2) = Elements(stored)
    BY <2>8, Zenon DEF WindowsHeld
  <2>18. LocalCounted(q, r, r2, w2)
    <3>1. /\ Elements(entries'[p]) \subseteq WindowsHeld(r, w2)
          /\ \A e \in WindowsHeld(r, w2) : e \notin Elements(entries'[p]) => evicted'[p][e.key] = evicted[p][e.key] + 1
      BY <2>14, <2>15, <2>17, Zenon
    <3>2. \A k \in Keys : evicted'[p][k] \in {evicted[p][k], evicted[p][k] + 1}
      BY <2>11, Zenon
    <3>3. \A c \in LimiterProcs \ {p} : entries'[c] = entries[c] /\ evicted'[c] = evicted[c]
      BY <2>9, <2>10, Zenon
    <3>. QED  BY <1>10, <2>1, <2>9, <2>10, <2>13, <2>16, <3>1, <3>2, <3>3, Zenon DEF LocalCounted
  <2>. QED  BY <1>10, <2>18, Zenon
<1>. QED  BY <1>20, <1>21, Zenon

-----------------------------------------------------------------------------
(* What every step leaves as it was.                                       *)

LEMMA LimitTimes ==
  ASSUME NEW L \in Nat, NEW e \in Nat
  PROVE  /\ L * (1 + e) \in Nat /\ L <= L * (1 + e)
         /\ L * (1 + (e + 1)) = L * (1 + e) + L
         /\ L * (2 + e) = L * (1 + e) + L
  OBVIOUS

LEMMA LimitTyped == LimiterTypeOK => limiter.limit \in Int /\ limiter.procs \in SUBSET LimiterProcs
  BY LimiterAssumption, Zenon DEF LimiterTypeOK

LEMMA AllowanceTyped ==
  ASSUME LimiterTypeOK, limiter.limit > 0, NEW c \in Counters, NEW k \in Keys
  PROVE  /\ limiter.limit \in Nat /\ limiter.limit >= 1
         /\ Allowance(c, k) \in Nat /\ limiter.limit <= Allowance(c, k)
<1>1. limiter.limit \in Nat /\ limiter.limit >= 1
  BY LimitTyped
<1>. DEFINE e == IF c = Redis THEN 0 ELSE evicted[c][k]
<1>2. e \in Nat
  <2>1. c # Redis => evicted[c][k] \in Nat
    BY Zenon DEF LimiterTypeOK, Counters
  <2>2. 0 \in Nat
    BY Zenon
  <2>. QED  BY <2>1, <2>2, Zenon
<1>3. Allowance(c, k) = limiter.limit * (1 + e)
  BY Zenon DEF Allowance
<1>. HIDE DEF e
<1>. QED  BY <1>1, <1>2, <1>3, LimitTimes, Zenon

LEMMA CountedTyped ==
  ASSUME LimiterTypeOK, NEW c, NEW k
  PROVE  /\ IsFiniteSet(CountedBy(c, k)) /\ IsFiniteSet(Through(c, k))
         /\ \A a \in CountedBy(c, k) : a.at \in Nat /\ a.at <= limiterClock
         /\ \A a \in Through(c, k) : a.at \in Nat /\ a.at <= limiterClock
<1>1. CountedBy(c, k) \subseteq counted /\ Through(c, k) \subseteq counted
  BY Zenon DEF CountedBy, Through
<1>2. \A a \in counted : a.at \in Nat /\ a.at <= limiterClock
  <2>1. \A a \in Stamps : a.at \in Nat
    BY Zenon DEF Stamps
  <2>. QED  BY <2>1, Zenon DEF LimiterTypeOK
<1>3. IsFiniteSet(counted)
  BY Zenon DEF LimiterTypeOK
<1>. QED  BY <1>1, <1>2, <1>3, SmallerSet, Zenon

\* A step that counts no call and closes no window.
LEMMA CountersRest ==
  ASSUME LimiterTypeOK, CountersOk, limiter' = limiter, limiterClock' = limiterClock, counted' = counted,
         evicted' = evicted,
         \A c \in Counters, k \in Keys : Through(c, k)' \subseteq Through(c, k) /\ Open(c, k)' = Open(c, k)
  PROVE  CountersOk'
<1>. SUFFICES ASSUME limiter.limit > 0, NEW c \in Counters, NEW k \in Keys
              PROVE  CounterOk(Through(c, k), CountedBy(c, k), Open(c, k), limiter.limit, Allowance(c, k), limiterClock)'
  BY Zenon DEF CountersOk
<1>1. CounterOk(Through(c, k), CountedBy(c, k), Open(c, k), limiter.limit, Allowance(c, k), limiterClock)
  BY Zenon DEF CountersOk
<1>2. CountedBy(c, k)' = CountedBy(c, k) /\ Allowance(c, k)' = Allowance(c, k)
  BY Zenon DEF CountedBy, Allowance
<1>3. /\ Allowance(c, k) <= Allowance(c, k) /\ limiterClock \in Nat
  <2>1. limiterClock \in Nat
    BY Zenon DEF LimiterTypeOK
  <2>. QED  BY <2>1, AllowanceTyped
<1>4. CounterOk(Through(c, k)', CountedBy(c, k), Open(c, k), limiter.limit, Allowance(c, k), limiterClock)
  BY <1>1, <1>3, AllowanceTyped, CountedTyped, CounterKeeps, Zenon
<1>. QED  BY <1>2, <1>4, Zenon DEF CounterOk, WindowOk

\* What is let through changes by the call that a step is about.
LEMMA ThroughStep ==
  ASSUME limiter' = limiter, NEW q, NEW x, x.req = q, counted' \subseteq counted \cup {x},
         \A a \in counted : a.req # q => reqs'[a.req] = reqs[a.req],
         \A a \in counted : a.req = q /\ Passed(a)' => Passed(a),
         NEW c, NEW k
  PROVE  /\ Through(c, k)' \subseteq Through(c, k) \cup {x}
         /\ x.by # c \/ x.key # k \/ ~Passed(x)' => Through(c, k)' \subseteq Through(c, k)
<1>1. \A a \in counted : Passed(a)' => Passed(a)
  <2>1. \A a \in counted : a.req # q /\ Passed(a)' => Passed(a)
    BY Zenon DEF Passed
  <2>. QED  BY <2>1, Zenon
<1>2. \A a \in Through(c, k)' : a \in Through(c, k) \/ (a = x /\ x.by = c /\ x.key = k /\ Passed(x)')
  BY <1>1, Zenon DEF Through, CountedBy
<1>. QED  BY <1>2, Zenon

\* The other calls know what they knew.
LEMMA OtherCalls ==
  ASSUME LimiterTypeOK', limiter' = limiter, NEW q, NEW x, x.req = q,
         counted' = counted \/ counted' = counted \cup {x},
         NEW p \in LimitedCalls, p # q, reqs'[p] = reqs[p], CallOk(p)
  PROVE  CallOk(p)'
<1>1. IsFiniteSet(counted')
  BY Zenon DEF LimiterTypeOK
<1>2. \A c : Others(p, c) \subseteq Others(p, c)' /\ Others(p, c)' \subseteq counted'
  BY Zenon DEF Others, Recent, InSpan
<1>3. \A c : IsFiniteSet(Others(p, c)')
  BY <1>1, <1>2, SmallerSet, Zenon
<1>4. \A c : /\ Cardinality(Others(p, c)) \in Nat /\ Cardinality(Others(p, c)') \in Nat
             /\ Cardinality(Others(p, c)) <= Cardinality(Others(p, c)')
  BY <1>2, <1>3, SmallerSet, Zenon
<1>5. \A c : \A n \in Int : Cardinality(Others(p, c)) >= n => Cardinality(Others(p, c)') >= n
  BY <1>4
<1>6. reqs[p].value - 1 \in Int /\ limiter.limit \in Int
  <2>1. reqs[p] \in CallRecords
    BY Zenon DEF LimiterTypeOK
  <2>2. reqs[p].value \in Nat
    BY <2>1, Zenon DEF CallRecords
  <2>3. limiter'.limit \in Int
    BY LimiterAssumption, Zenon DEF LimiterTypeOK
  <2>. QED  BY <2>2, <2>3
<1>7. \A a \in counted' : a \in counted \/ a.req # p
  BY Zenon
<1>8. reqs[p].st \in {"idle", "eval"} => \A a \in counted' : a.req # p
  BY <1>7, Zenon DEF CallOk
<1>9. reqs[p].st = "reply" => /\ \A a \in counted' : a.req = p => a.by = Redis
                              /\ Cardinality(Others(p, Redis)') >= reqs[p].value - 1
  BY <1>5, <1>6, <1>7, Zenon DEF CallOk
<1>10. reqs[p].st = "refused" => Cardinality(Others(p, reqs[p].by)') >= limiter.limit
  BY <1>5, <1>6, Zenon DEF CallOk
<1>. QED  BY <1>8, <1>9, <1>10, Zenon DEF CallOk

-----------------------------------------------------------------------------
(* The steps. *)

LEMMA TickStep == LimiterInv /\ LimiterTick => LimiterInv'
<1>. SUFFICES ASSUME LimiterTypeOK, CountersOk, \A q \in LimitedCalls : CallOk(q), LimiterTick
              PROVE  LimiterInv'
  BY Zenon DEF LimiterInv
<1>1. /\ limiterClock' = limiterClock + 1 /\ limiter' = limiter /\ windows' = windows /\ entries' = entries
      /\ reqs' = reqs /\ counted' = counted /\ evicted' = evicted /\ limiterClock \in Nat
  BY Zenon DEF LimiterTick, LimiterTypeOK
<1>2. LimiterTypeOK'
  <2>1. \A a \in counted : a.at <= limiterClock + 1
    <3>1. \A a \in counted : a.at \in Nat /\ a.at <= limiterClock
      BY Zenon DEF LimiterTypeOK, Stamps
    <3>. QED  BY <1>1, <3>1
  <2>2. limiterClock + 1 \in Nat
    BY <1>1
  <2>. QED  BY <1>1, <2>1, <2>2, Zenon DEF LimiterTypeOK
<1>3. CountersOk'
  <2>. SUFFICES ASSUME limiter.limit > 0, NEW c \in Counters, NEW k \in Keys
                PROVE  CounterOk(Through(c, k), CountedBy(c, k), Open(c, k), limiter.limit, Allowance(c, k), limiterClock)'
    BY <1>1, Zenon DEF CountersOk
  <2>1. CounterOk(Through(c, k), CountedBy(c, k), Open(c, k), limiter.limit, Allowance(c, k), limiterClock)
    BY Zenon DEF CountersOk
  <2>2. Through(c, k)' = Through(c, k) /\ CountedBy(c, k)' = CountedBy(c, k) /\ Allowance(c, k)' = Allowance(c, k)
    BY <1>1, Zenon DEF CountedBy, Through, Passed, Allowance
  <2>3. Open(c, k)' = {w \in Open(c, k) : w.expires > limiterClock + 1}
    <3>1. \A w \in Windows \cup [count : Nat, expires : Nat] : w.expires > limiterClock + 1 => w.expires > limiterClock
      <4>1. \A n \in Nat : n > limiterClock + 1 => n > limiterClock
        BY <1>1
      <4>2. \A w \in Windows \cup [count : Nat, expires : Nat] : w.expires \in Nat
        BY Zenon DEF Windows
      <4>. QED  BY <4>1, <4>2, Zenon
    <3>2. CASE c = Redis
      <4>1. windows[k] \in [count : Nat, expires : Nat]
        BY Zenon DEF LimiterTypeOK
      <4>2. Open(c, k)' = {w \in {windows[k]} : w.count > 0 /\ w.expires > limiterClock + 1}
        BY <1>1, <3>2, Zenon DEF Open
      <4>3. Open(c, k) = {w \in {windows[k]} : w.count > 0 /\ w.expires > limiterClock}
        BY <3>2, Zenon DEF Open
      <4>. QED  BY <3>1, <4>1, <4>2, <4>3, Zenon
    <3>3. CASE c # Redis
      <4>1. entries[c] \in Seq(Windows)
        BY <3>3, Zenon DEF LimiterTypeOK, Counters
      <4>2. \A e \in Elements(entries[c]) : e \in Windows
        <5>1. \A i \in DOMAIN entries[c] : entries[c][i] \in Windows
          BY <4>1
        <5>. QED  BY <5>1, Zenon DEF Elements
      <4>3. Open(c, k)' = {e \in Elements(entries[c]) : e.key = k /\ e.expires > limiterClock + 1}
        BY <1>1, <3>3, Zenon DEF Open
      <4>4. Open(c, k) = {e \in Elements(entries[c]) : e.key = k /\ e.expires > limiterClock}
        BY <3>3, Zenon DEF Open
      <4>. QED  BY <3>1, <4>2, <4>3, <4>4, Zenon
    <3>. QED  BY <3>2, <3>3, Zenon
  <2>4. CounterOk(Through(c, k), CountedBy(c, k), Open(c, k)', limiter.limit, Allowance(c, k), limiterClock + 1)
    BY <1>1, <2>1, <2>3, AllowanceTyped, CountedTyped, CounterWaits, Zenon
  <2>. QED  BY <1>1, <2>2, <2>4, Zenon DEF CounterOk, WindowOk
<1>4. \A q \in LimitedCalls : CallOk(q)'
  BY <1>1, ZenonT(40) DEF CallOk, Others, Recent, InSpan
<1>. QED  BY <1>2, <1>3, <1>4, Zenon DEF LimiterInv

\* A call changes only what it knows of itself.
LEMMA QuietStep ==
  ASSUME LimiterInv, NEW q \in LimitedCalls, NEW r2 \in CallRecords, reqs' = [reqs EXCEPT ![q] = r2],
         UNCHANGED <<limiter, limiterClock, windows, counted, evicted>>,
         entries' \in [LimiterProcs -> Seq(Windows)],
         \A c \in LimiterProcs : {e \in Elements(entries'[c]) : e.expires > limiterClock}
                                    = {e \in Elements(entries[c]) : e.expires > limiterClock},
         \A a \in counted : a.req = q /\ Passed(a)' => Passed(a),
         CallOk(q)'
  PROVE  LimiterInv'
<1>0. LimiterTypeOK /\ CountersOk /\ \A p \in LimitedCalls : CallOk(p)
  BY Zenon DEF LimiterInv
<1>1. LimiterTypeOK'
  <2>1. reqs' \in [LimitedCalls -> CallRecords]
    BY <1>0, Zenon DEF LimiterTypeOK
  <2>. QED  BY <1>0, <2>1, Zenon DEF LimiterTypeOK
<1>2. \A p \in LimitedCalls \ {q} : reqs'[p] = reqs[p]
  BY <1>0, Zenon DEF LimiterTypeOK
<1>3. \A a \in counted : a.req \in LimitedCalls
  <2>1. \A a \in Stamps : a.req \in LimitedCalls
    BY Zenon DEF Stamps
  <2>. QED  BY <1>0, <2>1, Zenon DEF LimiterTypeOK
<1>. DEFINE x == [req |-> q]
<1>4. x.req = q
  BY Zenon
<1>. HIDE DEF x
<1>5. \A c, k : Through(c, k)' \subseteq Through(c, k)
  <2>1. counted' \subseteq counted \cup {x}
    BY Zenon
  <2>2. \A a \in counted : a.req # q => reqs'[a.req] = reqs[a.req]
    BY <1>2, <1>3, Zenon
  <2>3. \A a \in counted : Passed(a)' => Passed(a)
    <3>1. \A a \in counted : a.req # q /\ Passed(a)' => Passed(a)
      BY <2>2, Zenon DEF Passed
    <3>. QED  BY <3>1, Zenon
  <2>. QED  BY <2>3, Zenon DEF Through, CountedBy
<1>6. \A c \in Counters, k \in Keys : Open(c, k)' = Open(c, k)
  <2>. SUFFICES ASSUME NEW c \in Counters, NEW k \in Keys PROVE Open(c, k)' = Open(c, k)
    BY Zenon
  <2>1. CASE c = Redis
    BY <2>1, Zenon DEF Open
  <2>2. CASE c # Redis
    <3>1. {e \in Elements(entries'[c]) : e.expires > limiterClock} = {e \in Elements(entries[c]) : e.expires > limiterClock}
      BY <2>2, Zenon DEF Counters
    <3>2. {e \in Elements(entries'[c]) : e.key = k /\ e.expires > limiterClock}
             = {e \in Elements(entries[c]) : e.key = k /\ e.expires > limiterClock}
      <4>1. \A e : /\ e \in Elements(entries'[c]) /\ e.expires > limiterClock
                   <=> e \in Elements(entries[c]) /\ e.expires > limiterClock
        BY <3>1, Zenon
      <4>. QED  BY <4>1, Zenon
    <3>3. limiterClock' = limiterClock
      BY Zenon
    <3>. QED  BY <2>2, <3>2, <3>3, Zenon DEF Open
  <2>. QED  BY <2>1, <2>2, Zenon
<1>7. CountersOk'
  BY <1>0, <1>5, <1>6, CountersRest, Zenon
<1>8. \A p \in LimitedCalls \ {q} : CallOk(p)'
  BY <1>0, <1>1, <1>2, <1>4, OtherCalls, Zenon
<1>. QED  BY <1>1, <1>7, <1>8, Zenon DEF LimiterInv

\* The window that counts a call, and what the others become.
CountsIn(x, w2) ==
    \/ \E w \in Open(x.by, x.key) :
         (Passed(x)' => w.count < limiter.limit) /\ w2.count = w.count + 1 /\ w2.expires = w.expires
    \/ Open(x.by, x.key) = {} /\ w2.count = 1 /\ w2.expires = limiterClock + Ttl
Written(x, w2, c, k) == IF c = x.by /\ k = x.key THEN {w2} ELSE Open(c, k)
WindowsFollow(x, w2) ==
    \A c \in Counters, k \in Keys :
        /\ Allowance(c, k) <= Allowance(c, k)' /\ Open(c, k)' \subseteq Written(x, w2, c, k)
        /\ Open(c, k)' = {} /\ Written(x, w2, c, k) # {} => Allowance(c, k) + limiter.limit <= Allowance(c, k)'

\* A call is counted by one counter, in the window that is open or in a new
\* one.  Windows may be evicted then.
LEMMA CountStep ==
  ASSUME LimiterInv, limiter.limit > 0, NEW q \in LimitedCalls, NEW r2 \in CallRecords, reqs' = [reqs EXCEPT ![q] = r2],
         limiter' = limiter, limiterClock' = limiterClock,
         NEW x \in Stamps, x.req = q, x.at = limiterClock, counted' = counted \cup {x}, x \notin counted,
         windows' \in [Keys -> [count : Nat, expires : Nat]], entries' \in [LimiterProcs -> Seq(Windows)],
         evicted' \in [LimiterProcs -> [Keys -> Nat]],
         \A a \in counted : a.req = q /\ Passed(a)' => Passed(a),
         NEW w2, CountsIn(x, w2), WindowsFollow(x, w2), CallOk(q)'
  PROVE  LimiterInv'
<1>0. LimiterTypeOK /\ CountersOk /\ (\A p \in LimitedCalls : CallOk(p)) /\ limiterClock \in Nat
  BY Zenon DEF LimiterInv, LimiterTypeOK
<1>1. x.req = q /\ x.at = limiterClock /\ x \in Stamps
  BY Zenon
<1>2. LimiterTypeOK'
  <2>1. reqs' \in [LimitedCalls -> CallRecords]
    BY <1>0, Zenon DEF LimiterTypeOK
  <2>2. counted' \in SUBSET Stamps
    BY <1>0, <1>1, Zenon DEF LimiterTypeOK
  <2>3. IsFiniteSet(counted')
    BY <1>0, FS_AddElement, Zenon DEF LimiterTypeOK
  <2>4. \A a \in counted' : a.at <= limiterClock'
    <3>1. limiterClock <= limiterClock
      BY <1>0
    <3>. QED  BY <1>0, <1>1, <3>1, Zenon DEF LimiterTypeOK
  <2>. QED  BY <1>0, <2>1, <2>2, <2>3, <2>4, Zenon DEF LimiterTypeOK
<1>3. \A p \in LimitedCalls \ {q} : reqs'[p] = reqs[p]
  BY <1>0, Zenon DEF LimiterTypeOK
<1>4. \A a \in counted : a.req # q => reqs'[a.req] = reqs[a.req]
  <2>1. \A a \in Stamps : a.req \in LimitedCalls
    BY Zenon DEF Stamps
  <2>. QED  BY <1>0, <1>3, <2>1, Zenon DEF LimiterTypeOK
<1>5. \A c, k : /\ Through(c, k)' \subseteq Through(c, k) \cup {x}
                /\ x.by # c \/ x.key # k \/ ~Passed(x)' => Through(c, k)' \subseteq Through(c, k)
  <2>1. counted' \subseteq counted \cup {x} /\ limiter' = limiter
    BY Zenon
  <2>. SUFFICES ASSUME NEW CONSTANT c, NEW CONSTANT k
                PROVE  /\ Through(c, k)' \subseteq Through(c, k) \cup {x}
                       /\ x.by # c \/ x.key # k \/ ~Passed(x)' => Through(c, k)' \subseteq Through(c, k)
    BY Zenon
  <2>. QED  BY <1>1, <1>4, <2>1, ThroughStep, Zenon
<1>6. CountersOk'
  <2>. SUFFICES ASSUME NEW c \in Counters, NEW k \in Keys
                PROVE  CounterOk(Through(c, k), CountedBy(c, k), Open(c, k), limiter.limit, Allowance(c, k), limiterClock)'
    BY Zenon DEF CountersOk
  <2>. DEFINE before == Written(x, w2, c, k)
              L == limiter.limit
              b == Allowance(c, k)
              b2 == Allowance(c, k)'
              S == Through(c, k)
              S2 == Through(c, k)'
              A == CountedBy(c, k)
              A2 == CountedBy(c, k)'
              O2 == Open(c, k)'
  <2>1. CounterOk(S, A, Open(c, k), L, b, limiterClock)
    BY <1>0, Zenon DEF CountersOk
  <2>2. /\ L \in Nat /\ L >= 1 /\ b \in Nat /\ b2 \in Nat /\ b <= b2 /\ O2 \subseteq before
        /\ O2 = {} /\ before # {} => b + L <= b2
    <3>1. limiter.limit \in Nat /\ limiter.limit >= 1 /\ b \in Nat
      BY <1>0, AllowanceTyped, Zenon
    <3>2. b2 \in Nat
      <4>1. c # Redis => evicted'[c][k] \in Nat
        BY Zenon DEF Counters
      <4>2. b2 = limiter.limit * (1 + IF c = Redis THEN 0 ELSE evicted'[c][k])
        BY Zenon DEF Allowance
      <4>3. (IF c = Redis THEN 0 ELSE evicted'[c][k]) \in Nat
        BY <4>1
      <4>. HIDE DEF b2
      <4>. QED  BY <3>1, <4>2, <4>3, LimitTimes, Zenon
    <3>. QED  BY <3>1, <3>2, Zenon DEF WindowsFollow
  <2>3. /\ IsFiniteSet(S) /\ IsFiniteSet(A) /\ IsFiniteSet(S2) /\ IsFiniteSet(A2)
        /\ \A a \in S : a.at \in Nat
        /\ \A a \in S2 : a.at \in Nat
    <3>1. /\ IsFiniteSet(S) /\ IsFiniteSet(A) /\ \A a \in S : a.at \in Nat
      BY <1>0, CountedTyped, Zenon
    <3>2. S2 \subseteq counted' /\ A2 \subseteq counted'
      BY Zenon DEF Through, CountedBy
    <3>3. IsFiniteSet(counted') /\ counted' \subseteq Stamps
      BY <1>2, Zenon DEF LimiterTypeOK
    <3>4. \A a \in Stamps : a.at \in Nat
      BY Zenon DEF Stamps
    <3>. HIDE DEF S, A, S2, A2
    <3>. QED  BY <3>1, <3>2, <3>3, <3>4, SmallerSet, Zenon
  <2>4. CounterOk(S2, A2, before, L, b, limiterClock)
    <3>1. CASE c = x.by /\ k = x.key
      <4>1. A2 = A \cup {x} /\ x \notin A
        BY <1>1, <3>1, Zenon DEF CountedBy
      <4>2. before = {w2} /\ S2 \subseteq S \cup {x} /\ (~Passed(x)' => S2 \subseteq S)
        BY <1>5, <3>1, Zenon DEF Written
      <4>. HIDE DEF before, L, b, S, S2, A, A2
      <4>3. ASSUME NEW w \in Open(c, k), Passed(x)' => w.count < L, w2.count = w.count + 1, w2.expires = w.expires
            PROVE  CounterOk(S2, A2, before, L, b, limiterClock)
        <5>1. S2 \subseteq S \/ w.count < L
          BY <4>2, <4>3, Zenon
        <5>2. CounterOk(S2, A \cup {x}, {w2}, L, b, limiterClock)
          BY <1>0, <1>1, <2>1, <2>2, <2>3, <4>1, <4>2, <4>3, <5>1, CounterJoins, ZenonT(40)
        <5>. QED  BY <4>1, <4>2, <5>2, Zenon
      <4>4. ASSUME Open(c, k) = {}, w2.count = 1, w2.expires = limiterClock + Ttl
            PROVE  CounterOk(S2, A2, before, L, b, limiterClock)
        <5>1. CounterOk(S, A, {}, L, b, limiterClock)
          BY <2>1, <4>4, Zenon
        <5>2. CounterOk(S2, A \cup {x}, {w2}, L, b, limiterClock)
          BY <1>0, <1>1, <2>2, <2>3, <4>1, <4>2, <4>4, <5>1, CounterOpens, ZenonT(40)
        <5>. QED  BY <4>1, <4>2, <5>2, Zenon
      <4>. QED  BY <3>1, <4>3, <4>4, Zenon DEF L, CountsIn
    <3>2. CASE ~(c = x.by /\ k = x.key)
      <4>1. before = Open(c, k) /\ S2 \subseteq S /\ A \subseteq A2
        <5>1. A \subseteq A2
          BY Zenon DEF CountedBy
        <5>. QED  BY <1>5, <3>2, <5>1, Zenon DEF Written
      <4>2. b <= b
        BY <2>2
      <4>. HIDE DEF before, L, b, S, S2, A, A2
      <4>. QED  BY <1>0, <2>1, <2>2, <2>3, <4>1, <4>2, CounterKeeps, Zenon
    <3>. QED  BY <3>1, <3>2, Zenon
  <2>5. CounterOk(S2, A2, O2, L, b2, limiterClock)
    <3>1. S2 \subseteq S2 /\ A2 \subseteq A2
      BY Zenon
    <3>. HIDE DEF before, L, b, b2, S, S2, A, A2, O2
    <3>. QED  BY <1>0, <2>2, <2>3, <2>4, <3>1, CounterKeeps, Zenon
  <2>. QED  BY <2>5, Zenon DEF CounterOk, WindowOk
<1>7. \A p \in LimitedCalls \ {q} : CallOk(p)'
  BY <1>0, <1>1, <1>2, <1>3, OtherCalls, Zenon
<1>. QED  BY <1>2, <1>6, <1>7, Zenon DEF LimiterInv

\* An open window has counted what it says within the last Ttl seconds.
LEMMA RecentlyCounted ==
  ASSUME LimiterTypeOK, CountersOk, limiter.limit > 0, NEW c \in Counters, NEW k \in Keys, NEW w \in Open(c, k),
         w.expires > limiterClock, NEW q, \A a \in CountedBy(c, k) : a.req # q
  PROVE  /\ w.count \in Nat
         /\ Cardinality(Recent(q, c, k, limiterClock)) \in Nat
         /\ Cardinality(Recent(q, c, k, limiterClock)) >= w.count
<1>. DEFINE seen == Recent(q, c, k, limiterClock)
            s == w.expires - Ttl
            A == CountedBy(c, k)
<1>1. limiterClock \in Nat
  BY Zenon DEF LimiterTypeOK
<1>2. WindowOk(Through(c, k), A, w, limiter.limit, Allowance(c, k), limiterClock)
  BY Zenon DEF CountersOk, CounterOk
<1>3. w.count \in Nat /\ w.expires \in Nat /\ Cardinality(Since(A, s)) >= w.count
  BY <1>2, Zenon DEF WindowOk
<1>4. \A a \in A : a.at \in Nat /\ a.at <= limiterClock
  BY CountedTyped, Zenon
<1>5. \A n \in Nat : s <= n /\ n <= limiterClock => n \in (limiterClock - Ttl + 1)..((limiterClock - Ttl + 1) + Ttl - 1)
  BY <1>1, <1>3, TtlPositive
<1>6. Since(A, s) \subseteq seen
  <2>1. \A a \in Since(A, s) : a \in A /\ s <= a.at
    BY Zenon DEF Since
  <2>2. \A a \in A : a \in counted /\ a.by = c /\ a.key = k
    BY Zenon DEF CountedBy
  <2>3. \A a \in Since(A, s) : a.at \in (limiterClock - Ttl + 1)..((limiterClock - Ttl + 1) + Ttl - 1)
    BY <1>4, <1>5, <2>1, Zenon
  <2>. QED  BY <2>1, <2>2, <2>3, Zenon DEF InSpan, Recent
<1>7. IsFiniteSet(seen)
  <2>1. seen \subseteq counted /\ IsFiniteSet(counted)
    BY Zenon DEF InSpan, Recent, LimiterTypeOK
  <2>. QED  BY <2>1, SmallerSet, Zenon
<1>. HIDE DEF seen, s, A
<1>8. /\ Cardinality(Since(A, s)) \in Nat /\ Cardinality(seen) \in Nat
      /\ Cardinality(Since(A, s)) <= Cardinality(seen)
  BY <1>6, <1>7, SmallerSet, Zenon
<1>9. Cardinality(seen) >= w.count
  BY <1>3, <1>8
<1>. QED  BY <1>3, <1>8, <1>9, Zenon DEF seen

\* The local limiter answers a call.
LEMMA LocalStep ==
  ASSUME LimiterInv, NEW q \in LimitedCalls, NEW r \in CallRecords, r.proc \in LimiterProcs, r.key \in Keys,
         limiter.limit > 0, \A a \in counted : a.req = q => a.by = Redis, LocalEnforce(q, r),
         UNCHANGED <<limiter, limiterClock, windows>>
  PROVE  LimiterInv'
<1>0. LimiterTypeOK /\ CountersOk /\ (\A p \in LimitedCalls : CallOk(p)) /\ r.proc # Redis /\ r.proc \in Counters
  BY LimiterAssumption, Zenon DEF LimiterInv, Counters
<1>1. ASSUME NEW r2 \in CallRecords, LocalRefused(q, r, r2) PROVE LimiterInv'
  <2>0. /\ reqs' = [reqs EXCEPT ![q] = r2]
        /\ r2.st = "refused" /\ r2.by = r.proc /\ r2.key = r.key /\ r2.at = limiterClock
        /\ counted' = counted /\ evicted' = evicted /\ entries' \in [LimiterProcs -> Seq(Windows)]
        /\ \A c \in LimiterProcs : {e \in Elements(entries'[c]) : e.expires > limiterClock}
                                     = {e \in Elements(entries[c]) : e.expires > limiterClock}
    BY <1>1, Zenon DEF LocalRefused
  <2>00. PICK w \in Open(r.proc, r.key) : w.count >= limiter.limit
    BY <1>1, Zenon DEF LocalRefused
  <2>1. reqs'[q] = r2
    BY <1>0, <2>0, Zenon DEF LimiterTypeOK
  <2>2. \A a \in counted : a.req = q => ~Passed(a)'
    BY <2>0, <2>1, Zenon DEF Passed
  <2>3. Cardinality(Others(q, r.proc)') >= limiter.limit
    <3>1. w.expires > limiterClock
      BY <1>0, Zenon DEF Open
    <3>2. \A a \in CountedBy(r.proc, r.key) : a.req # q
      BY <1>0, Zenon DEF CountedBy
    <3>. DEFINE seen == Recent(q, r.proc, r.key, limiterClock)
    <3>3. w.count \in Nat /\ Cardinality(seen) \in Nat /\ Cardinality(seen) >= w.count
      BY <1>0, <3>1, <3>2, RecentlyCounted, Zenon
    <3>4. Others(q, r.proc)' = seen
      BY <2>0, <2>1, Zenon DEF Others, Recent, InSpan
    <3>5. limiter.limit \in Int
      BY <1>0, LimitTyped, Zenon
    <3>. HIDE DEF seen
    <3>6. Cardinality(seen) >= limiter.limit
      BY <2>00, <3>3, <3>5
    <3>. QED  BY <3>4, <3>6, Zenon
  <2>4. CallOk(q)'
    BY <2>0, <2>1, <2>3, Zenon DEF CallOk
  <2>. QED  BY <2>0, <2>2, <2>4, QuietStep, Zenon
<1>2. ASSUME NEW r2 \in CallRecords, NEW w2 \in Windows, LocalCounted(q, r, r2, w2) PROVE LimiterInv'
  <2>. DEFINE held == WindowsHeld(r, w2)
  <2>0. /\ reqs' = [reqs EXCEPT ![q] = r2] /\ r2.st = "served" /\ r2.by = r.proc /\ Count(q, r.proc, r.key)
        /\ entries' \in [LimiterProcs -> Seq(Windows)] /\ evicted' \in [LimiterProcs -> [Keys -> Nat]]
        /\ \A c \in LimiterProcs \ {r.proc} : entries'[c] = entries[c] /\ evicted'[c] = evicted[c]
        /\ \A k \in Keys : evicted'[r.proc][k] \in {evicted[r.proc][k], evicted[r.proc][k] + 1}
        /\ w2.key = r.key
        /\ \/ \E w \in Open(r.proc, r.key) :
                w.count < limiter.limit /\ w2.count = w.count + 1 /\ w2.expires = w.expires
           \/ Open(r.proc, r.key) = {} /\ w2.count = 1 /\ w2.expires = limiterClock + Ttl
        /\ Elements(entries'[r.proc]) \subseteq held
        /\ \A e \in held : e \notin Elements(entries'[r.proc]) =>
                             evicted'[r.proc][e.key] = evicted[r.proc][e.key] + 1
    BY <1>2, Zenon DEF LocalCounted
  <2>00. held = {e \in Elements(entries[r.proc]) : e.expires > limiterClock /\ e.key # r.key} \cup {w2}
    BY Zenon DEF WindowsHeld
  <2>. HIDE DEF held
  <2>1. reqs'[q] = r2
    BY <1>0, <2>0, Zenon DEF LimiterTypeOK
  <2>2. \A a \in counted : a.req = q => ~Passed(a)'
    BY <1>0, <2>0, <2>1, Zenon DEF Passed
  <2>. PICK x : x = [req |-> q, by |-> r.proc, key |-> r.key, at |-> limiterClock]
    BY Zenon
  <2>3. x \in Stamps /\ x.req = q /\ x.by = r.proc /\ x.key = r.key /\ x.at = limiterClock
    <3>1. limiterClock \in Nat
      BY <1>0, Zenon DEF LimiterTypeOK
    <3>. QED  BY <1>0, <3>1, Zenon DEF Stamps
  <2>4. counted' = counted \cup {x}
    BY <2>0, Zenon DEF Count
  <2>5. x \notin counted
    BY <1>0, <2>3, Zenon
  <2>6. CallOk(q)'
    BY <2>0, <2>1, Zenon DEF CallOk
  <2>7. w2.expires > limiterClock
    <3>1. limiterClock + Ttl > limiterClock
      BY <1>0, TtlPositive DEF LimiterTypeOK
    <3>2. \A w \in Open(r.proc, r.key) : w.expires > limiterClock
      BY <1>0, Zenon DEF Open
    <3>. QED  BY <2>0, <3>1, <3>2, Zenon
  <2>8. WindowsFollow(x, w2)
    <3>. SUFFICES ASSUME NEW c \in Counters, NEW k \in Keys, NEW before,
                         before = IF c = r.proc /\ k = r.key THEN {w2} ELSE Open(c, k)
                  PROVE  /\ Allowance(c, k) <= Allowance(c, k)' /\ Open(c, k)' \subseteq before
                         /\ Open(c, k)' = {} /\ before # {} => Allowance(c, k) + limiter.limit <= Allowance(c, k)'
      BY <2>3, Zenon DEF WindowsFollow, Written
    <3>0. limiter.limit \in Nat /\ Allowance(c, k) \in Nat
      BY <1>0, AllowanceTyped, Zenon
    <3>1. CASE c # r.proc
      <4>1. Open(c, k)' = Open(c, k) /\ Allowance(c, k)' = Allowance(c, k)
        BY <2>0, <3>1, Zenon DEF Open, Allowance, Counters
      <4>2. before = Open(c, k)
        BY <3>1, Zenon
      <4>3. Allowance(c, k) <= Allowance(c, k)
        BY <3>0
      <4>. QED  BY <4>1, <4>2, <4>3, Zenon
    <3>2. CASE c = r.proc
      <4>. DEFINE e == evicted[c][k]
                  e2 == evicted'[c][k]
                  L == limiter.limit
      <4>1. e \in Nat /\ e2 \in {e, e + 1} /\ Allowance(c, k) = L * (1 + e) /\ Allowance(c, k)' = L * (1 + e2)
        BY <1>0, <2>0, <3>2, Zenon DEF LimiterTypeOK, Allowance
      <4>2. Open(c, k)' = {h \in Elements(entries'[c]) : h.key = k /\ h.expires > limiterClock}
        BY <1>0, <3>2, Zenon DEF Open
      <4>3. before = {h \in held : h.key = k /\ h.expires > limiterClock}
        <5>1. CASE k = r.key
          <6>1. before = {w2}
            BY <3>2, <5>1, Zenon
          <6>. QED  BY <2>0, <2>00, <2>7, <5>1, <6>1, Zenon
        <5>2. CASE k # r.key
          <6>1. before = {h \in Elements(entries[c]) : h.key = k /\ h.expires > limiterClock}
            BY <1>0, <3>2, <5>2, Zenon DEF Open
          <6>. QED  BY <2>0, <2>00, <3>2, <5>2, <6>1, Zenon
        <5>. QED  BY <5>1, <5>2, Zenon
      <4>4. Open(c, k)' \subseteq before
        BY <2>0, <3>2, <4>2, <4>3, Zenon
      <4>5. ASSUME Open(c, k)' = {}, before # {} PROVE e2 = e + 1
        <5>1. PICK h \in before : TRUE
          BY <4>5, Zenon
        <5>2. h \in held /\ h.key = k /\ h.expires > limiterClock /\ h \notin Elements(entries'[r.proc])
          BY <3>2, <4>2, <4>3, <4>5, <5>1, Zenon
        <5>. QED  BY <2>0, <3>2, <5>2, Zenon
      <4>. HIDE DEF e, e2, L
      <4>6. L * (1 + e) \in Nat /\ L * (1 + (e + 1)) = L * (1 + e) + L /\ L \in Nat
        BY <3>0, <4>1, LimitTimes, Zenon DEF L
      <4>7. L * (1 + e) <= L * (1 + e2)
        <5>1. CASE e2 = e
          <6>1. L * (1 + e) <= L * (1 + e)
            BY <4>6
          <6>. QED  BY <5>1, <6>1, Zenon
        <5>2. CASE e2 = e + 1
          <6>1. L * (1 + e) <= L * (1 + e) + L
            BY <4>6
          <6>. QED  BY <4>6, <5>2, <6>1, Zenon
        <5>. QED  BY <4>1, <5>1, <5>2, Zenon
      <4>8. ASSUME Open(c, k)' = {}, before # {} PROVE L * (1 + e) + L <= L * (1 + e2)
        <5>1. L * (1 + e2) = L * (1 + e) + L
          BY <4>5, <4>6, <4>8, Zenon
        <5>2. L * (1 + e) + L <= L * (1 + e) + L
          BY <4>6
        <5>. QED  BY <5>1, <5>2, Zenon
      <4>. QED  BY <4>1, <4>4, <4>7, <4>8, Zenon DEF L
    <3>. QED  BY <3>1, <3>2, Zenon
  <2>9. CountsIn(x, w2)
    BY <2>0, <2>3, Zenon DEF CountsIn
  <2>10. windows' \in [Keys -> [count : Nat, expires : Nat]]
    BY <1>0, Zenon DEF LimiterTypeOK
  <2>. QED  BY <1>0, <2>0, <2>2, <2>3, <2>4, <2>5, <2>6, <2>8, <2>9, <2>10, CountStep, Zenon
<1>. QED  BY <1>0, <1>1, <1>2, LocalMeans, Zenon

\* Redis runs the script: it counts the call and opens a window if none is open.
LEMMA ScriptStep ==
  ASSUME LimiterInv, NEW q \in LimitedCalls, RunScript(q)
  PROVE  LimiterInv'
<1>01. PICK k0 : k0 = reqs[q].key
  BY Zenon
<1>02. PICK old : old = windows[k0]
  BY Zenon
<1>03. PICK w2 : w2 = FixedWindow(old)
  BY Zenon
<1>04. PICK r2 : r2 = [reqs[q] EXCEPT !.st = "reply", !.value = w2.count, !.at = limiterClock]
  BY Zenon
<1>05. PICK x : x = [req |-> q, by |-> Redis, key |-> k0, at |-> limiterClock]
  BY Zenon
<1>0. LimiterTypeOK /\ CountersOk /\ CallOk(q) /\ limiterClock \in Nat /\ Redis \in Counters
  BY Zenon DEF LimiterInv, LimiterTypeOK, Counters
<1>1. /\ reqs[q].st = "eval" /\ windows' = [windows EXCEPT ![k0] = w2] /\ reqs' = [reqs EXCEPT ![q] = r2]
      /\ counted' = counted \cup {x}
      /\ limiter' = limiter /\ limiterClock' = limiterClock /\ entries' = entries /\ evicted' = evicted
  <2>1. reqs' = [reqs EXCEPT ![q] = r2]
    BY <1>0, <1>01, <1>02, <1>03, <1>04, Zenon DEF RunScript, LimiterTypeOK
  <2>. QED  BY <1>01, <1>02, <1>03, <1>05, <2>1, Zenon DEF RunScript, Count
<1>2. limiter.limit > 0 /\ k0 \in Keys /\ reqs[q].proc \in LimiterProcs /\ \A a \in counted : a.req # q
  BY <1>0, <1>01, <1>1, Zenon DEF CallOk
<1>3. old \in [count : Nat, expires : Nat] /\ reqs[q] \in CallRecords
  BY <1>0, <1>02, <1>2, Zenon DEF LimiterTypeOK
<1>4. \/ /\ old.count > 0 /\ old.expires > limiterClock
         /\ w2 \in [count : Nat, expires : Nat] /\ w2.count = old.count + 1 /\ w2.expires = old.expires
      \/ /\ ~(old.count > 0 /\ old.expires > limiterClock)
         /\ w2 \in [count : Nat, expires : Nat] /\ w2.count = 1 /\ w2.expires = limiterClock + Ttl
  BY <1>0, <1>03, <1>3, TtlPositive DEF FixedWindow
<1>5. Open(Redis, k0) = {w \in {old} : w.count > 0 /\ w.expires > limiterClock}
  BY <1>02, Zenon DEF Open
<1>6. w2.count > 0 /\ w2.expires > limiterClock /\ w2.count \in Nat /\ w2 \in [count : Nat, expires : Nat]
  <2>1. limiterClock + Ttl > limiterClock
    BY <1>0, TtlPositive
  <2>2. old.count \in Nat
    BY <1>3, Zenon
  <2>3. old.count + 1 > 0 /\ 1 > 0 /\ old.count + 1 \in Nat /\ 1 \in Nat
    BY <2>2
  <2>. QED  BY <1>4, <2>1, <2>3, Zenon
<1>7. r2 \in CallRecords /\ r2.st = "reply" /\ r2.value = w2.count /\ r2.at = limiterClock /\ r2.key = k0 /\ r2.proc = reqs[q].proc
  BY <1>0, <1>01, <1>04, <1>3, <1>6, Zenon DEF CallRecords
<1>8. x \in Stamps /\ x.req = q /\ x.by = Redis /\ x.key = k0 /\ x.at = limiterClock
  BY <1>0, <1>05, <1>2 DEF Stamps
<1>9. reqs'[q] = r2
  BY <1>0, <1>1, Zenon DEF LimiterTypeOK
<1>10. CountsIn(x, w2)
  <2>1. CASE old.count > 0 /\ old.expires > limiterClock
    <3>1. w2.count = old.count + 1 /\ w2.expires = old.expires /\ old \in Open(Redis, k0)
      BY <1>4, <1>5, <2>1, Zenon
    <3>2. ASSUME Passed(x)' PROVE old.count < limiter.limit
      <4>1. w2.count <= limiter.limit
        BY <1>1, <1>7, <1>8, <1>9, <3>2, Zenon DEF Passed
      <4>2. limiter.limit \in Int /\ old.count \in Nat
        BY <1>0, <1>3, LimitTyped, Zenon
      <4>. QED  BY <3>1, <4>1, <4>2
    <3>. QED  BY <1>8, <3>1, <3>2, Zenon DEF CountsIn
  <2>2. CASE ~(old.count > 0 /\ old.expires > limiterClock)
    <3>1. Open(Redis, k0) = {} /\ w2.count = 1 /\ w2.expires = limiterClock + Ttl
      BY <1>4, <1>5, <2>2, Zenon
    <3>. QED  BY <1>8, <3>1, Zenon DEF CountsIn
  <2>. QED  BY <2>1, <2>2, Zenon
<1>11. WindowsFollow(x, w2)
  <2>. SUFFICES ASSUME NEW c \in Counters, NEW k \in Keys
                PROVE  Allowance(c, k) <= Allowance(c, k)' /\ Open(c, k)' = Written(x, w2, c, k)
    BY Zenon DEF WindowsFollow
  <2>1. Allowance(c, k)' = Allowance(c, k) /\ Allowance(c, k) <= Allowance(c, k)
    <3>1. Allowance(c, k) <= Allowance(c, k)
      BY <1>0, <1>2, AllowanceTyped
    <3>. QED  BY <1>1, <3>1, Zenon DEF Allowance
  <2>2. windows \in [Keys -> [count : Nat, expires : Nat]]
    BY <1>0, Zenon DEF LimiterTypeOK
  <2>3. CASE c = Redis /\ k = k0
    <3>1. windows'[k] = w2
      BY <1>1, <2>2, <2>3, Zenon
    <3>2. Open(c, k)' = {w2}
      BY <1>1, <1>6, <2>3, <3>1, Zenon DEF Open
    <3>. QED  BY <1>8, <2>1, <2>3, <3>2, Zenon DEF Written
  <2>4. CASE ~(c = Redis /\ k = k0)
    <3>1. c = Redis => windows'[k] = windows[k]
      BY <1>1, <2>2, <2>4, Zenon
    <3>2. Open(c, k)' = Open(c, k)
      BY <1>1, <3>1, Zenon DEF Open
    <3>. QED  BY <1>8, <2>1, <2>4, <3>2, Zenon DEF Written
  <2>. QED  BY <2>3, <2>4, Zenon
<1>12. CallOk(q)'
  <2>1. \A a \in counted' : a.req = q => a.by = Redis
    BY <1>1, <1>2, <1>8, Zenon
  <2>2. Others(q, Redis)' = Recent(q, Redis, k0, limiterClock)
    BY <1>1, <1>7, <1>8, <1>9, ZenonT(40) DEF Others, Recent, InSpan
  <2>. DEFINE n == Cardinality(Recent(q, Redis, k0, limiterClock))
  <2>3. n >= w2.count - 1
    <3>1. CASE old.count > 0 /\ old.expires > limiterClock
      <4>1. old \in Open(Redis, k0) /\ \A a \in CountedBy(Redis, k0) : a.req # q
        BY <1>2, <1>5, <3>1, Zenon DEF CountedBy
      <4>2. old.count \in Nat /\ n \in Nat /\ n >= old.count
        BY <1>0, <1>2, <3>1, <4>1, RecentlyCounted, ZenonT(40)
      <4>3. w2.count = old.count + 1
        BY <1>4, <3>1, Zenon
      <4>. HIDE DEF n
      <4>. QED  BY <4>2, <4>3
    <3>2. CASE ~(old.count > 0 /\ old.expires > limiterClock)
      <4>1. w2.count = 1
        BY <1>4, <3>2, Zenon
      <4>2. n \in Nat
        <5>1. Recent(q, Redis, k0, limiterClock) \subseteq counted /\ IsFiniteSet(counted)
          BY <1>0, Zenon DEF Recent, InSpan, LimiterTypeOK
        <5>. QED  BY <5>1, SmallerSet, Zenon
      <4>. HIDE DEF n
      <4>. QED  BY <4>1, <4>2
    <3>. QED  BY <3>1, <3>2, Zenon
  <2>. QED  BY <1>1, <1>2, <1>7, <1>9, <2>1, <2>2, <2>3, Zenon DEF CallOk
<1>13. windows' \in [Keys -> [count : Nat, expires : Nat]] /\ entries' \in [LimiterProcs -> Seq(Windows)]
       /\ evicted' \in [LimiterProcs -> [Keys -> Nat]]
  BY <1>0, <1>1, <1>6, Zenon DEF LimiterTypeOK
<1>14. x \notin counted /\ \A a \in counted : a.req = q /\ Passed(a)' => Passed(a)
  BY <1>2, <1>8, Zenon
<1>. QED  BY <1>1, <1>2, <1>7, <1>8, <1>10, <1>11, <1>12, <1>13, <1>14, CountStep, Zenon

\* The call reads what the script counted.
LEMMA AnsweredStep ==
  ASSUME LimiterInv, NEW q \in LimitedCalls, Answered(q)
  PROVE  LimiterInv'
<1>01. PICK verdict : verdict = IF reqs[q].value > limiter.limit THEN "refused" ELSE "served"
  BY Zenon
<1>02. PICK r2 : r2 = [reqs[q] EXCEPT !.proc = "none", !.by = Redis, !.value = 0, !.st = verdict]
  BY Zenon
<1>0. LimiterTypeOK /\ CallOk(q) /\ reqs[q] \in CallRecords
  BY Zenon DEF LimiterInv, LimiterTypeOK
<1>1. /\ reqs[q].st = "reply" /\ reqs' = [reqs EXCEPT ![q] = r2]
      /\ limiter' = limiter /\ limiterClock' = limiterClock /\ windows' = windows /\ entries' = entries
      /\ counted' = counted /\ evicted' = evicted
  <2>1. reqs' = [reqs EXCEPT ![q] = r2]
    BY <1>0, <1>01, <1>02, Zenon DEF Answered, LimiterTypeOK
  <2>. QED  BY <2>1, Zenon DEF Answered
<1>2. verdict \in {"refused", "served"}
  BY <1>01, Zenon
<1>3. (verdict = "refused" => reqs[q].value > limiter.limit) /\ (verdict = "served" => ~(reqs[q].value > limiter.limit))
  BY <1>01, Zenon
<1>4. r2 \in CallRecords /\ r2.st = verdict /\ r2.by = Redis /\ r2.key = reqs[q].key /\ r2.at = reqs[q].at
  BY <1>0, <1>02, <1>2, Zenon DEF CallRecords, Counters
<1>5. reqs'[q] = r2
  BY <1>0, <1>1, Zenon DEF LimiterTypeOK
<1>6. reqs[q].value \in Nat /\ limiter.limit \in Int
  BY <1>0, LimitTyped, Zenon DEF CallRecords
<1>7. \A a \in counted : a.req = q /\ Passed(a)' => Passed(a)
  <2>. SUFFICES ASSUME NEW a \in counted, a.req = q, Passed(a)' PROVE Passed(a)
    BY Zenon
  <2>1. verdict = "served" /\ a.by = Redis
    BY <1>0, <1>1, <1>2, <1>4, <1>5, Zenon DEF Passed, CallOk
  <2>2. ~(reqs[q].value > limiter.limit)
    BY <1>3, <2>1, Zenon
  <2>3. reqs[q].value <= limiter.limit
    BY <1>6, <2>2
  <2>. QED  BY <1>1, <2>1, <2>3, Zenon DEF Passed
<1>8. CallOk(q)'
  <2>1. CASE verdict = "served"
    BY <1>4, <1>5, <2>1, Zenon DEF CallOk
  <2>2. CASE verdict = "refused"
    <3>1. Others(q, Redis)' = Others(q, Redis)
      BY <1>1, <1>4, <1>5, Zenon DEF Others, Recent, InSpan
    <3>2. Cardinality(Others(q, Redis)) >= reqs[q].value - 1 /\ reqs[q].value > limiter.limit
      BY <1>0, <1>1, <1>3, <2>2, Zenon DEF CallOk
    <3>3. Cardinality(Others(q, Redis)) \in Nat
      <4>1. Others(q, Redis) \subseteq counted /\ IsFiniteSet(counted)
        BY <1>0, Zenon DEF Others, Recent, InSpan, LimiterTypeOK
      <4>. QED  BY <4>1, SmallerSet, Zenon
    <3>4. Cardinality(Others(q, Redis)) >= limiter.limit
      BY <1>6, <3>2, <3>3
    <3>. QED  BY <1>1, <1>4, <1>5, <2>2, <3>1, <3>4, Zenon DEF CallOk
  <2>. QED  BY <1>2, <2>1, <2>2, Zenon
<1>9. entries' \in [LimiterProcs -> Seq(Windows)]
  BY <1>0, <1>1, Zenon DEF LimiterTypeOK
<1>10. \A c \in LimiterProcs : {e \in Elements(entries'[c]) : e.expires > limiterClock}
                                 = {e \in Elements(entries[c]) : e.expires > limiterClock}
  BY <1>1, Zenon
<1>11. UNCHANGED <<limiter, limiterClock, windows, counted, evicted>>
  BY <1>1, Zenon
<1>. QED  BY <1>1, <1>4, <1>7, <1>8, <1>9, <1>10, <1>11, QuietStep, Zenon

\* A step that only tells a call how it ended or where it waits.
LEMMA SettledStep ==
  ASSUME LimiterInv, NEW q \in LimitedCalls, NEW r2 \in CallRecords, reqs' = [reqs EXCEPT ![q] = r2],
         r2.st \in {"eval", "served", "failed"}, r2.by = "none", \A a \in counted : a.req = q => a.by = Redis,
         r2.st = "eval" => /\ \A a \in counted : a.req # q
                           /\ limiter.limit > 0 /\ r2.proc \in LimiterProcs /\ r2.key \in Keys,
         UNCHANGED <<limiter, limiterClock, windows, entries, counted, evicted>>
  PROVE  LimiterInv'
<1>0. LimiterTypeOK
  BY Zenon DEF LimiterInv
<1>1. reqs'[q] = r2
  BY <1>0, Zenon DEF LimiterTypeOK
<1>2. \A a \in counted : a.req = q => ~Passed(a)'
  <2>1. Redis # "none"
    BY Zenon DEF Redis
  <2>. QED  BY <1>1, <2>1, Zenon DEF Passed
<1>3. CallOk(q)'
  BY <1>1, Zenon DEF CallOk
<1>4. entries' \in [LimiterProcs -> Seq(Windows)]
  BY <1>0, Zenon DEF LimiterTypeOK
<1>5. \A c \in LimiterProcs : {e \in Elements(entries'[c]) : e.expires > limiterClock}
                                = {e \in Elements(entries[c]) : e.expires > limiterClock}
  BY Zenon
<1>6. UNCHANGED <<limiter, limiterClock, windows, counted, evicted>>
  BY Zenon
<1>. QED  BY <1>2, <1>3, <1>4, <1>5, <1>6, QuietStep, Zenon

\* _handle_backend_failure.
LEMMA FailureStep ==
  ASSUME LimiterInv, NEW q \in LimitedCalls, NEW r \in CallRecords, r.proc \in LimiterProcs, r.key \in Keys,
         limiter.limit > 0, \A a \in counted : a.req = q => a.by = Redis, BackendFailure(q, r),
         UNCHANGED <<limiter, limiterClock, windows>>
  PROVE  LimiterInv'
<1>1. CASE LocalEnforce(q, r)
  BY <1>1, LocalStep, Zenon
<1>2. CASE /\ reqs' = [reqs EXCEPT ![q] = [Idle EXCEPT !.key = r.key,
                          !.st = IF limiter.mode = "bypass" THEN "served" ELSE "failed"]]
           /\ UNCHANGED <<entries, counted, evicted>>
  <2>1. PICK st : st = IF limiter.mode = "bypass" THEN "served" ELSE "failed"
    BY Zenon
  <2>2. PICK r2 : r2 = [Idle EXCEPT !.key = r.key, !.st = st]
    BY Zenon
  <2>3. st \in {"served", "failed"}
    BY <2>1, Zenon
  <2>4. r2 \in CallRecords /\ r2.st \in {"eval", "served", "failed"} /\ r2.st # "eval" /\ r2.by = "none"
    BY <2>2, <2>3, Zenon DEF Idle, CallRecords
  <2>5. reqs' = [reqs EXCEPT ![q] = r2]
    BY <1>2, <2>1, <2>2, Zenon
  <2>6. UNCHANGED <<limiter, limiterClock, windows, entries, counted, evicted>>
    BY <1>2, Zenon
  <2>. QED  BY <2>4, <2>5, <2>6, SettledStep, Zenon
<1>. QED  BY <1>1, <1>2, Zenon DEF BackendFailure

\* A call of a limited endpoint up to its first await.
LEMMA CallStep ==
  ASSUME LimiterInv, NEW q \in LimitedCalls, CallLimited(q)
  PROVE  LimiterInv'
<1>0. LimiterTypeOK /\ CallOk(q)
  BY Zenon DEF LimiterInv
<1>1. reqs[q].st = "idle" /\ UNCHANGED <<limiter, limiterClock, windows>>
  BY Zenon DEF CallLimited
<1>2. PICK p \in limiter.procs, s \in Subjects : Enforce(q, p, s)
  BY Zenon DEF CallLimited
<1>3. p \in LimiterProcs /\ SubjectKey(s) \in Keys
  BY <1>0, LimitTyped, Zenon DEF Keys
<1>4. \A a \in counted : a.req # q
  BY <1>0, <1>1, Zenon DEF CallOk
<1>. DEFINE r == [Idle EXCEPT !.proc = p, !.key = SubjectKey(s)]
<1>5. \/ limiter.limit <= 0 /\ reqs' = [reqs EXCEPT ![q] = [r EXCEPT !.st = "served"]] /\ UNCHANGED <<entries, counted, evicted>>
      \/ limiter.limit > 0 /\ BackendFailure(q, r)
      \/ limiter.limit > 0 /\ reqs' = [reqs EXCEPT ![q] = [r EXCEPT !.st = "eval"]] /\ UNCHANGED <<entries, counted, evicted>>
  BY <1>2, Zenon DEF Enforce
<1>6. r \in CallRecords /\ r.proc = p /\ r.key = SubjectKey(s) /\ r.by = "none"
  BY <1>3, Zenon DEF Idle, CallRecords
<1>7. \A st \in {"served", "eval"} :
         LET r2 == [r EXCEPT !.st = st] IN
         r2 \in CallRecords /\ r2.st = st /\ r2.by = "none" /\ r2.proc = p /\ r2.key = SubjectKey(s)
  BY <1>3, Zenon DEF Idle, CallRecords
<1>8. CASE limiter.limit > 0 /\ BackendFailure(q, r)
  <2>. HIDE DEF r
  <2>. QED  BY <1>1, <1>3, <1>4, <1>6, <1>8, FailureStep, Zenon
<1>9. ASSUME NEW st \in {"served", "eval"}, st = "eval" => limiter.limit > 0,
             reqs' = [reqs EXCEPT ![q] = [r EXCEPT !.st = st]], UNCHANGED <<entries, counted, evicted>>
      PROVE  LimiterInv'
  <2>1. PICK r2 : r2 = [r EXCEPT !.st = st]
    BY Zenon
  <2>2. r2 \in CallRecords /\ r2.st = st /\ r2.by = "none" /\ r2.proc = p /\ r2.key = SubjectKey(s)
    BY <1>7, <2>1, Zenon
  <2>3. reqs' = [reqs EXCEPT ![q] = r2] /\ UNCHANGED <<limiter, limiterClock, windows, entries, counted, evicted>>
    BY <1>1, <1>9, <2>1, Zenon
  <2>4. r2.st \in {"eval", "served", "failed"}
    BY <2>2, Zenon
  <2>5. r2.st = "eval" => limiter.limit > 0 /\ r2.proc \in LimiterProcs /\ r2.key \in Keys
    BY <1>3, <1>9, <2>2, Zenon
  <2>. QED  BY <1>4, <2>2, <2>3, <2>4, <2>5, SettledStep, Zenon
<1>. HIDE DEF r
<1>10. CASE limiter.limit <= 0 /\ reqs' = [reqs EXCEPT ![q] = [r EXCEPT !.st = "served"]] /\ UNCHANGED <<entries, counted, evicted>>
  <2>1. "served" # "eval"
    BY Zenon
  <2>. QED  BY <1>9, <1>10, <2>1, Zenon
<1>11. CASE limiter.limit > 0 /\ reqs' = [reqs EXCEPT ![q] = [r EXCEPT !.st = "eval"]] /\ UNCHANGED <<entries, counted, evicted>>
  BY <1>9, <1>11, Zenon
<1>. QED  BY <1>5, <1>8, <1>10, <1>11, Zenon

\* The Redis command of a call raises, executed or not.
LEMMA RaisesStep ==
  ASSUME LimiterInv, NEW q \in LimitedCalls, BackendRaises(q)
  PROVE  LimiterInv'
<1>1. PICK r : r = reqs[q]
  BY Zenon
<1>2. LimiterTypeOK /\ CallOk(q) /\ r \in CallRecords
  BY <1>1, Zenon DEF LimiterInv, LimiterTypeOK
<1>3. r.st \in {"eval", "reply"} /\ BackendFailure(q, r) /\ UNCHANGED <<limiter, limiterClock, windows>>
  BY <1>1, Zenon DEF BackendRaises
<1>4. /\ limiter.limit > 0 /\ r.proc \in LimiterProcs /\ r.key \in Keys
      /\ \A a \in counted : a.req = q => a.by = Redis
  BY <1>1, <1>2, <1>3, Zenon DEF CallOk
<1>. QED  BY <1>2, <1>3, <1>4, FailureStep, Zenon

\* Every step keeps the invariant of the limiter.
LEMMA LimiterStep == LimiterInv /\ [LimiterNext]_limiterVars => LimiterInv'
<1>. SUFFICES ASSUME LimiterInv, [LimiterNext]_limiterVars PROVE LimiterInv'
  BY Zenon
<1>1. CASE UNCHANGED limiterVars
  <2>1. UNCHANGED <<limiter, limiterClock, windows, entries, reqs, counted, evicted>>
    BY <1>1, Zenon DEF limiterVars
  <2>2. LimiterTypeOK'
    BY <2>1, Zenon DEF LimiterInv, LimiterTypeOK
  <2>3. \A c, k : /\ Through(c, k)' = Through(c, k) /\ CountedBy(c, k)' = CountedBy(c, k)
                 /\ Open(c, k)' = Open(c, k) /\ Allowance(c, k)' = Allowance(c, k)
    BY <2>1 DEF Through, CountedBy, Passed, Open, Allowance
  <2>4. CountersOk'
    BY <2>1, <2>3, Zenon DEF LimiterInv, CountersOk
  <2>5. \A q \in LimitedCalls : CallOk(q)'
    <3>1. \A q, c : Others(q, c)' = Others(q, c)
      BY <2>1, Zenon DEF Others, Recent, InSpan
    <3>. QED  BY <2>1, <3>1, Zenon DEF LimiterInv, CallOk
  <2>. QED  BY <2>2, <2>4, <2>5, Zenon DEF LimiterInv
<1>2. CASE LimiterTick
  BY <1>2, TickStep, Zenon
<1>3. ASSUME NEW q \in LimitedCalls, CallLimited(q) \/ RunScript(q) \/ Answered(q) \/ BackendRaises(q)
      PROVE  LimiterInv'
  BY <1>3, CallStep, ScriptStep, AnsweredStep, RaisesStep, Zenon
<1>. QED  BY <1>1, <1>2, <1>3, Zenon DEF LimiterNext

\* Nothing is counted at first.
LEMMA LimiterStart == LimiterInit => LimiterInv
<1>. SUFFICES ASSUME LimiterInit PROVE LimiterInv
  BY Zenon
<1>1. /\ limiter \in LimiterConfigs /\ limiterClock = 0 /\ windows = [k \in Keys |-> [count |-> 0, expires |-> 0]]
      /\ entries = [p \in LimiterProcs |-> <<>>] /\ reqs = [q \in LimitedCalls |-> Idle] /\ counted = {}
      /\ evicted = [p \in LimiterProcs |-> [k \in Keys |-> 0]]
  BY Zenon DEF LimiterInit
<1>2. LimiterTypeOK
  <2>1. Idle \in CallRecords /\ [count |-> 0, expires |-> 0] \in [count : Nat, expires : Nat] /\ <<>> \in Seq(Windows) /\ 0 \in Nat
    BY DEF Idle, CallRecords
  <2>2. IsFiniteSet({})
    BY FS_EmptySet, Zenon
  <2>. QED  BY <1>1, <2>1, <2>2, Zenon DEF LimiterTypeOK
<1>3. \A c, k : Through(c, k) = {} /\ CountedBy(c, k) = {}
  BY <1>1, Zenon DEF Through, CountedBy
<1>4. \A x : Since({}, x) = {} /\ Span({}, x) = {}
  BY Zenon DEF Since, Span
<1>5. CountersOk
  <2>. SUFFICES ASSUME limiter.limit > 0, NEW c \in Counters, NEW k \in Keys
                PROVE  CounterOk({}, {}, Open(c, k), limiter.limit, Allowance(c, k), limiterClock)
    BY <1>3, Zenon DEF CountersOk
  <2>1. Open(c, k) = {}
    <3>1. CASE c = Redis
      <4>1. windows[k].count = 0
        BY <1>1, Zenon
      <4>2. ~(windows[k].count > 0)
        BY <4>1
      <4>. QED  BY <3>1, <4>2, Zenon DEF Open
    <3>2. CASE c # Redis
      <4>1. entries[c] = <<>>
        BY <1>1, <3>2, Zenon DEF Counters
      <4>2. Elements(<<>>) = {}
        BY DEF Elements
      <4>. QED  BY <3>2, <4>1, <4>2, Zenon DEF Open
    <3>. QED  BY <3>1, <3>2, Zenon
  <2>2. limiter.limit \in Nat /\ Allowance(c, k) \in Nat /\ limiter.limit <= Allowance(c, k)
    BY <1>2, AllowanceTyped, Zenon
  <2>3. 0 <= Allowance(c, k) /\ 0 <= Allowance(c, k) - limiter.limit /\ 0 <= Allowance(c, k) + limiter.limit
    BY <2>2
  <2>4. Cardinality({}) = 0
    BY FS_EmptySet, Zenon
  <2>. QED  BY <1>4, <2>1, <2>3, <2>4, Zenon DEF CounterOk
<1>6. \A q \in LimitedCalls : CallOk(q)
  <2>1. Idle.st = "idle"
    BY Zenon DEF Idle
  <2>2. \A q \in LimitedCalls : reqs[q].st = "idle"
    BY <1>1, <2>1, Zenon
  <2>. QED  BY <1>1, <2>2, Zenon DEF CallOk
<1>. QED  BY <1>2, <1>5, <1>6, Zenon DEF LimiterInv

\* The bounds of the counters are those of the bursts, and a refused call was not alone.
LEMMA LimitFollows == LimiterInv => LimitKept
<1>. SUFFICES ASSUME LimiterTypeOK, CountersOk, \A q \in LimitedCalls : CallOk(q) PROVE LimitKept
  BY Zenon DEF LimiterInv
<1>1. BurstBound
  <2>. SUFFICES ASSUME limiter.limit > 0, NEW c \in {Redis} \cup LimiterProcs, NEW k \in Keys, NEW t \in 0..MaxLimiterTime
                PROVE  Cardinality({a \in InSpan(c, k, t) : reqs[a.req].st = "served" /\ reqs[a.req].by = c})
                         <= limiter.limit * (2 + IF c = Redis THEN 0 ELSE evicted[c][k])
    BY Zenon DEF BurstBound
  <2>. DEFINE burst == {a \in InSpan(c, k, t) : reqs[a.req].st = "served" /\ reqs[a.req].by = c}
              e == IF c = Redis THEN 0 ELSE evicted[c][k]
  <2>1. c \in Counters /\ t \in Int /\ e \in Nat
    <3>1. c # Redis => evicted[c][k] \in Nat
      BY Zenon DEF LimiterTypeOK
    <3>2. t \in Int /\ 0 \in Nat
      BY LimiterAssumption
    <3>. QED  BY <3>1, <3>2, Zenon DEF Counters
  <2>2. \A a \in counted : a.at \in Nat
    BY Zenon DEF LimiterTypeOK, Stamps
  <2>3. \A n \in Nat : n \in t..(t + Ttl - 1) => t <= n /\ n < t + Ttl
    BY <2>1, TtlPositive
  <2>4. burst \subseteq Span(Through(c, k), t)
    BY <2>2, <2>3, Zenon DEF InSpan, Through, CountedBy, Passed, Span
  <2>5. Cardinality(Span(Through(c, k), t)) <= Allowance(c, k) + limiter.limit
    BY <2>1, Zenon DEF CountersOk, CounterOk
  <2>6. /\ Cardinality(burst) \in Nat /\ Cardinality(Span(Through(c, k), t)) \in Nat
        /\ Cardinality(burst) <= Cardinality(Span(Through(c, k), t))
    <3>1. IsFiniteSet(Span(Through(c, k), t))
      BY CountedTyped, Finite, Zenon
    <3>. HIDE DEF burst
    <3>. QED  BY <2>4, <3>1, SmallerSet, Zenon
  <2>7. Allowance(c, k) = limiter.limit * (1 + e)
    BY Zenon DEF Allowance
  <2>. HIDE DEF e, burst
  <2>8. limiter.limit * (2 + e) = limiter.limit * (1 + e) + limiter.limit /\ limiter.limit * (1 + e) \in Nat /\ limiter.limit \in Nat
    <3>1. limiter.limit \in Nat
      BY <2>1, AllowanceTyped, Zenon
    <3>. QED  BY <2>1, <3>1, LimitTimes, Zenon
  <2>9. Cardinality(burst) <= limiter.limit * (2 + e)
    <3>. DEFINE B == limiter.limit * (1 + e)
                C == limiter.limit * (2 + e)
    <3>1. B \in Nat /\ limiter.limit \in Nat /\ C = B + limiter.limit /\ Cardinality(Span(Through(c, k), t)) <= B + limiter.limit
      BY <2>5, <2>7, <2>8, Zenon
    <3>. HIDE DEF B, C
    <3>2. Cardinality(burst) <= C
      BY <2>6, <3>1
    <3>. QED  BY <3>2, Zenon DEF C
  <2>. QED  BY <2>9, Zenon DEF e, burst
<1>2. RefusedOnlyOverLimit
  BY Zenon DEF RefusedOnlyOverLimit, CallOk, Others, Recent
<1>. QED  BY <1>1, <1>2, Zenon DEF LimitKept

(* rate_limit.py: in any span of one window a counter lets through at most *)
(* twice the limit of a subject's calls, and the limit more for every      *)
(* window it evicted, and refuses a call only when it counted as many      *)
(* others within one window, for any number of calls, processes, subjects  *)
(* and failures of Redis, and for windows and local tables of any size.    *)
THEOREM AlwaysLimitKept == LimiterSpec => []LimitKept
  BY LimiterStart, LimiterStep, LimitFollows, PTL DEF LimiterSpec
=============================================================================
