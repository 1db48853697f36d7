------------------------------- MODULE CommonLemmas -------------------------------
(***************************************************************************)
(* Lemmas that several proofs need: least and greatest members of sets of  *)
(* natural numbers, which stand in for induction, functions defined by     *)
(* recursion, joined and flattened sequences, and what Nth and Pick        *)
(* select.                                                                 *)
(***************************************************************************)
EXTENDS Positions, Integers, SequencesExt, FiniteSetTheorems, WellFoundedInduction, TLAPS

\* A set of natural numbers that is not empty has a least member.
LEMMA Least ==
    ASSUME NEW S \in SUBSET Nat, S # {}
    PROVE  \E m \in S : \A k \in S : m <= k
<1> DEFINE R == OpToRel(<, Nat)
<1>1. \A k, m \in Nat : <<k, m>> \in R <=> k < m
  BY DEF OpToRel
<1>2. IsWellFoundedOn(R, Nat)
  BY NatLessThanWellFounded
<1> HIDE DEF R
<1>3. PICK m \in S : \A k \in S : ~(<<k, m>> \in R)
  BY <1>2, WFMin
<1>4. ASSUME NEW k \in S PROVE m <= k
  <2>1. k \in Nat /\ m \in Nat /\ ~(k < m)
    BY <1>1, <1>3
  <2> QED
    BY <2>1
<1> QED
  BY <1>4

\* A set of natural numbers that is not empty and bounded has a greatest one.
LEMMA Greatest ==
    ASSUME NEW S \in SUBSET Nat, S # {}, NEW N \in Nat, \A k \in S : k <= N
    PROVE  \E m \in S : \A k \in S : k <= m
<1> DEFINE T == {N - k : k \in S}
<1>1. T \in SUBSET Nat /\ T # {}
  <2>1. \A k \in S : N - k \in Nat
    OBVIOUS
  <2> QED
    BY <2>1
<1>2. PICK t \in T : \A u \in T : t <= u
  BY <1>1, Least
<1>3. PICK m \in S : t = N - m
  BY <1>2
<1>4. ASSUME NEW k \in S PROVE k <= m
  <2>1. N - m <= N - k
    BY <1>2, <1>3
  <2>2. N \in Nat /\ m \in Nat /\ k \in Nat
    OBVIOUS
  <2> QED
    BY <2>1, <2>2
<1> QED
  BY <1>4

\* The members of two sequences joined.
LEMMA Joined ==
    ASSUME NEW S, NEW s \in Seq(S), NEW t \in Seq(S)
    PROVE  /\ s \o t \in Seq(S)
           /\ Len(s \o t) = Len(s) + Len(t)
           /\ \A k \in 1..Len(s) : (s \o t)[k] = s[k]
           /\ \A k \in 1..Len(t) : (s \o t)[Len(s) + k] = t[k]
OBVIOUS

(***************************************************************************)
(* A value for each number, made by G of the value for a lesser one: there *)
(* is a function of these values.                                          *)
(***************************************************************************)
Recursive(V, base, N, par, G) ==
    \E f \in [0..N -> V] : f[0] = base /\ \A n \in 1..N : f[n] = G[<<n, f[par[n]]>>]

LEMMA Recursion ==
    ASSUME NEW V, NEW base \in V, NEW N \in Nat,
           NEW par \in [1..N -> Nat], \A n \in 1..N : par[n] < n,
           NEW G \in [(1..N) \X V -> V]
    PROVE  Recursive(V, base, N, par, G)
<1> DEFINE Made(n) == \E f \in [0..n -> V] :
                         f[0] = base /\ \A m \in 1..n : f[m] = G[<<m, f[par[m]]>>]
           Bad == {n \in 0..N : ~Made(n)}
<1> HIDE DEF Made
<1>1. SUFFICES ASSUME Bad # {} PROVE FALSE
  <2>1. N \in 0..N
    OBVIOUS
  <2>2. Bad = {} => Made(N)
    BY <2>1
  <2> QED
    BY <2>2 DEF Recursive, Made
<1>2. PICK n \in Bad : \A m \in Bad : n <= m
  <2>1. Bad \in SUBSET Nat
    OBVIOUS
  <2> HIDE DEF Bad
  <2> QED
    BY <1>1, <2>1, Least
<1>3. CASE n = 0
  <2> DEFINE f == [m \in 0..0 |-> base]
  <2>1. f \in [0..0 -> V] /\ f[0] = base /\ 1..0 = {}
    OBVIOUS
  <2> HIDE DEF f
  <2>2. Made(0)
    BY <2>1 DEF Made
  <2> QED
    BY <1>2, <1>3, <2>2
<1>4. CASE n # 0
  <2> DEFINE k == n - 1
  <2>1. k \in 0..N /\ k < n /\ n = k + 1 /\ n \in 1..N /\ k \in Nat
    BY <1>2, <1>4
  <2> HIDE DEF k
  <2>2. Made(k)
    <3>1. ~(n <= k)
      BY <2>1
    <3> QED
      BY <1>2, <2>1, <3>1
  <2>3. PICK f \in [0..k -> V] :
           f[0] = base /\ \A m \in 1..k : f[m] = G[<<m, f[par[m]]>>]
    BY <2>2, ZenonT(60) DEF Made
  <2>4. \A m \in 1..n : par[m] \in 0..k
    BY <2>1
  <2> DEFINE last == G[<<n, f[par[n]]>>]
             g == [m \in 0..n |-> IF m = n THEN last ELSE f[m]]
  <2>5. last \in V
    <3>1. n \in 1..n
      BY <2>1
    <3>2. f[par[n]] \in V
      BY <2>3, <2>4, <3>1
    <3> QED
      BY <2>1, <3>2
  <2>6. g[n] = last /\ \A m \in 0..k : g[m] = f[m]
    BY <2>1
  <2>7. g \in [0..n -> V]
    <3> HIDE DEF last
    <3>1. \A m \in 0..n : m # n => m \in 0..k
      BY <2>1
    <3> QED
      BY <2>3, <2>5, <3>1, SMTT(60)
  <2>8. g[0] = base
    BY <2>1, <2>3, <2>6
  <2>9. ASSUME NEW m \in 1..n PROVE g[m] = G[<<m, g[par[m]]>>]
    <3>1. g[par[m]] = f[par[m]]
      BY <2>4, <2>6, SMTT(60)
    <3>2. CASE m = n
      BY <2>6, <3>1, <3>2
    <3>3. CASE m # n
      <4>1. m \in 1..k /\ m \in 0..k
        BY <2>1, <3>3
      <4> QED
        BY <4>1, <2>3, <2>6, <3>1
    <3> QED
      BY <3>2, <3>3, SMTT(60)
  <2> HIDE DEF g
  <2>10. Made(n)
    BY <2>7, <2>8, <2>9 DEF Made
  <2> QED
    BY <1>2, <2>10
<1> QED
  BY <1>3, <1>4

-----------------------------------------------------------------------------
\* A sequence of sequences, flattened step by step.
Flattened(S, ss) ==
    \E f \in [1..Len(ss) -> Seq(S)] :
        /\ FlattenSeq(ss) = f[Len(ss)]
        /\ f[1] = ss[1]
        /\ \A i \in 2..Len(ss) : f[i] = f[i - 1] \o ss[i]

LEMMA FlattensInOrder ==
    ASSUME NEW S, NEW ss \in Seq(Seq(S)), ss # <<>>
    PROVE  Flattened(S, ss)
<1> DEFINE N == Len(ss)
           V == Seq(S)
           Flat(f) == [i \in 1..N |-> IF i = 1 THEN ss[i] ELSE f[i - 1] \o ss[i]]
           flatten == CHOOSE f : f = Flat(f)
<1>1. N \in Nat /\ N # 0 /\ \A i \in 1..N : ss[i] \in V
  OBVIOUS
<1> DEFINE par == [n \in 1..N |-> n - 1]
           G == [x \in (1..N) \X V |-> IF x[1] = 1 THEN ss[1] ELSE x[2] \o ss[x[1]]]
<1>2. par \in [1..N -> Nat] /\ \A n \in 1..N : par[n] = n - 1 /\ par[n] < n
  BY <1>1
<1>3. G \in [(1..N) \X V -> V]
  <2>1. ASSUME NEW n \in 1..N, NEW v \in V PROVE v \o ss[n] \in V
    BY <1>1
  <2>2. 1 \in 1..N
    BY <1>1
  <2> HIDE DEF N, V
  <2> QED
    BY <1>1, <2>1, <2>2
<1>4. \A n \in 1..N, v \in V :
         G[<<n, v>>] = IF n = 1 THEN ss[1] ELSE v \o ss[n]
  OBVIOUS
<1>5. <<>> \in V
  OBVIOUS
<1> HIDE DEF N, V, par, G
<1>6. PICK h \in [0..N -> V] :
         h[0] = <<>> /\ \A n \in 1..N : h[n] = G[<<n, h[par[n]]>>]
  <2>1. N \in Nat /\ <<>> \in V /\ par \in [1..N -> Nat] /\ \A n \in 1..N : par[n] < n
    BY <1>1, <1>2, <1>5
  <2>2. Recursive(V, <<>>, N, par, G)
    BY <1>3, <2>1, Recursion, ZenonT(60)
  <2> QED
    BY <2>2, ZenonT(60) DEF Recursive
<1>7. \E f : f = Flat(f)
  <2> DEFINE f == [i \in 1..N |-> h[i]]
  <2>1. ASSUME NEW i \in 1..N
        PROVE  f[i] = IF i = 1 THEN ss[i] ELSE f[i - 1] \o ss[i]
    <3>1. f[i] = G[<<i, h[i - 1]>>]
      <4>1. h[i] = G[<<i, h[par[i]]>>]
        BY <1>6, ZenonT(60)
      <4>2. par[i] = i - 1
        BY <1>2, ZenonT(60)
      <4> QED
        BY <4>1, <4>2, ZenonT(60)
    <3>2. i - 1 \in 0..N /\ h[i - 1] \in V
      BY <1>1, <1>6, SMTT(60)
    <3>3. f[i] = IF i = 1 THEN ss[1] ELSE h[i - 1] \o ss[i]
      BY <1>4, <3>1, <3>2, SMTT(60)
    <3>4. i # 1 => i - 1 \in 1..N
      BY <1>1, SMTT(60)
    <3> QED
      BY <3>3, <3>4
  <2>2. f = [i \in 1..N |-> f[i]]
    BY SMTT(60)
  <2> HIDE DEF f
  <2>3. f = Flat(f)
    BY <2>1, <2>2
  <2> QED
    BY <2>3, ZenonT(60)
<1>8. flatten = Flat(flatten)
  BY <1>7
<1>9. FlattenSeq(ss) = flatten[N]
  BY <1>1 DEF FlattenSeq, N
<1> HIDE DEF flatten
<1>10. /\ flatten[1] = ss[1]
       /\ \A i \in 2..N : flatten[i] = flatten[i - 1] \o ss[i]
  <2>1. \A i \in 1..N : flatten[i] = IF i = 1 THEN ss[i] ELSE flatten[i - 1] \o ss[i]
    BY <1>8
  <2>2. 1 \in 1..N /\ \A i \in 2..N : i \in 1..N /\ i # 1
    BY <1>1
  <2> QED
    BY <2>1, <2>2
<1>11. flatten = [i \in 1..N |-> flatten[i]]
  BY <1>8
<1>12. \A i \in 1..N : flatten[i] \in V
  <2> DEFINE Bad == {i \in 1..N : flatten[i] \notin V}
  <2>1. SUFFICES ASSUME Bad # {} PROVE FALSE
    OBVIOUS
  <2>2. PICK i \in Bad : \A j \in Bad : i <= j
    <3>1. Bad \in SUBSET Nat
      BY <1>1
    <3> HIDE DEF Bad
    <3> QED
      BY <2>1, <3>1, Least
  <2>3. i # 1
    <3>1. 1 \in 1..N
      BY <1>1
    <3> QED
      BY <1>1, <1>10, <2>2, <3>1
  <2>4. i \in 2..N /\ i - 1 \in 1..N /\ i - 1 < i
    BY <1>1, <2>2, <2>3
  <2>5. flatten[i - 1] \in V
    BY <2>2, <2>4
  <2>6. flatten[i - 1] \o ss[i] \in V
    BY <1>1, <2>2, <2>5 DEF V
  <2> QED
    BY <1>10, <2>2, <2>4, <2>6
<1>13. flatten \in [1..N -> V]
  BY <1>11, <1>12
<1> QED
  BY <1>9, <1>10, <1>13 DEF N, V, Flattened

\* One more sequence comes after all that was flattened before it.
LEMMA FlattenAppend ==
    ASSUME NEW S, NEW ss \in Seq(Seq(S)), NEW s \in Seq(S)
    PROVE  /\ FlattenSeq(<<>>) = <<>>
           /\ FlattenSeq(ss) \in Seq(S)
           /\ FlattenSeq(Append(ss, s)) = FlattenSeq(ss) \o s
<1> DEFINE tt == Append(ss, s)
           N == Len(ss)
<1>1. FlattenSeq(<<>>) = <<>>
  BY DEF FlattenSeq
<1>2. /\ N \in Nat /\ tt \in Seq(Seq(S)) /\ Len(tt) = N + 1 /\ tt # <<>>
      /\ tt[N + 1] = s /\ \A i \in 1..N : tt[i] = ss[i]
  <2> DEFINE W == Seq(S)
  <2>1. ss \in Seq(W) /\ s \in W
    OBVIOUS
  <2> HIDE DEF W
  <2>2. /\ N \in Nat /\ tt \in Seq(W) /\ Len(tt) = N + 1
        /\ tt[N + 1] = s /\ \A i \in 1..N : tt[i] = ss[i]
    BY <2>1
  <2>3. tt # <<>>
    <3>1. Len(<<>>) = 0 /\ N + 1 # 0
      BY <2>2
    <3> QED
      BY <2>2, <3>1
  <2> QED
    BY <2>2, <2>3 DEF W
<1> HIDE DEF tt
<1>3. PICK g \in [1..Len(tt) -> Seq(S)] :
         /\ FlattenSeq(tt) = g[Len(tt)]
         /\ g[1] = tt[1]
         /\ \A i \in 2..Len(tt) : g[i] = g[i - 1] \o tt[i]
  <2>1. Flattened(S, tt)
    BY <1>2, FlattensInOrder
  <2> QED
    BY <2>1 DEF Flattened
<1>4. CASE ss = <<>>
  <2>1. N = 0 /\ FlattenSeq(tt) = s
    BY <1>2, <1>3, <1>4
  <2>2. <<>> \o s = s /\ <<>> \in Seq(S)
    OBVIOUS
  <2> QED
    BY <1>1, <1>4, <2>1, <2>2 DEF tt
<1>5. CASE ss # <<>>
  <2>1. PICK f \in [1..N -> Seq(S)] :
           /\ FlattenSeq(ss) = f[N]
           /\ f[1] = ss[1]
           /\ \A i \in 2..N : f[i] = f[i - 1] \o ss[i]
    <3>1. Flattened(S, ss)
      BY <1>5, FlattensInOrder
    <3> QED
      BY <3>1 DEF Flattened
  <2>2. N # 0
    BY <1>5
  <2> DEFINE Bad == {i \in 1..N : f[i] # g[i]}
  <2>3. Bad = {}
    <3>1. SUFFICES ASSUME Bad # {} PROVE FALSE
      OBVIOUS
    <3>2. PICK i \in Bad : \A j \in Bad : i <= j
      <4>1. Bad \in SUBSET Nat
        BY <1>2
      <4> HIDE DEF Bad
      <4> QED
        BY <3>1, <4>1, Least
    <3>3. i # 1
      <4>1. 1 \in 1..N
        BY <1>2, <2>2
      <4> QED
        BY <1>2, <1>3, <2>1, <3>2, <4>1
    <3>4. i \in 2..N /\ i \in 2..Len(tt) /\ i - 1 \in 1..N /\ i - 1 < i
      BY <1>2, <3>2, <3>3
    <3>5. f[i - 1] = g[i - 1]
      <4>1. ~(i <= i - 1)
        BY <3>4
      <4>2. i - 1 \notin Bad
        <5> HIDE DEF Bad
        <5> QED
          BY <3>2, <4>1
      <4> QED
        BY <3>4, <4>2
    <3>6. f[i] = f[i - 1] \o ss[i] /\ g[i] = g[i - 1] \o tt[i] /\ tt[i] = ss[i]
      BY <1>2, <1>3, <2>1, <3>2, <3>4
    <3> QED
      BY <3>2, <3>5, <3>6
  <2>4. N \in 1..N /\ N + 1 \in 2..Len(tt) /\ (N + 1) - 1 = N
    BY <1>2, <2>2
  <2>5. f[N] = g[N] /\ f[N] \in Seq(S)
    BY <2>1, <2>3, <2>4
  <2>6. g[N + 1] = g[N] \o tt[N + 1]
    BY <1>3, <2>4
  <2> QED
    BY <1>1, <1>2, <1>3, <2>1, <2>5, <2>6 DEF tt
<1> QED
  BY <1>4, <1>5

\* A sequence of at most one member.
LEMMA OneOrNone ==
    ASSUME NEW S, NEW s \in Seq(S), Len(s) <= 1, s # <<>>
    PROVE  \E x \in S : s = <<x>>
<1>1. Len(s) \in Nat /\ Len(s) # 0
  OBVIOUS
<1>2. Len(s) = 1
  <2>1. \A n \in Nat : n # 0 /\ n <= 1 => n = 1
    OBVIOUS
  <2> QED
    BY <1>1, <2>1, Zenon
<1>3. s[1] \in S
  BY <1>2
<1>4. s = <<s[1]>>
  BY <1>2
<1> QED
  BY <1>3, <1>4

\* There is nothing to flatten in one sequence.
LEMMA FlattenOne ==
    ASSUME NEW S, NEW s \in Seq(S)
    PROVE  FlattenSeq(<<s>>) = s
<1>1. <<>> \in Seq(Seq(S))
  OBVIOUS
<1>2. FlattenSeq(<<>>) = <<>> /\ FlattenSeq(Append(<<>>, s)) = FlattenSeq(<<>>) \o s
  BY <1>1, FlattenAppend
<1>3. Append(<<>>, s) = <<s>> /\ <<>> \o s = s
  OBVIOUS
<1> QED
  BY <1>2, <1>3

-----------------------------------------------------------------------------
\* The members of S up to k; there are as many as k's rank in S.
UpTo(S, k) == {l \in S : l <= k}

\* A finite set of numbers has an n-th member for every n up to its size.
LEMMA NthIsThere ==
    ASSUME NEW S \in SUBSET Nat, IsFiniteSet(S), NEW n \in 1..Cardinality(S)
    PROVE  Nth(S, n) \in S /\ Cardinality(UpTo(S, Nth(S, n))) = n
<1> DEFINE T == {m \in 1..Cardinality(S) : \A k \in S : Cardinality(UpTo(S, k)) # m}
<1>0. Cardinality(S) \in Nat
  BY FS_CardinalityType
<1>1. ASSUME T # {} PROVE FALSE
  <2>1. T \in SUBSET Nat
    BY <1>0
  <2>2. PICK m \in T : \A k \in T : m <= k
    BY <1>1, <2>1, Least
  <2>3. m \in 1..Cardinality(S) /\ m \in Nat
    BY <1>0, <2>2
  <2>4. ASSUME m = 1 PROVE FALSE
    <3>1. S # {}
      BY <2>3, <2>4, FS_EmptySet
    <3>2. PICK k \in S : \A l \in S : k <= l
      BY <3>1, Least
    <3>3. \A l \in S : l <= k <=> l = k
      BY <3>2
    <3>4. UpTo(S, k) = {k}
      BY <3>3 DEF UpTo
    <3> QED
      BY <2>2, <2>4, <3>4, FS_Singleton
  <2>5. ASSUME m # 1 PROVE FALSE
    <3>1. m - 1 \in 1..Cardinality(S) /\ m - 1 \notin T
      BY <1>0, <2>2, <2>3, <2>5
    <3>2. PICK k \in S : Cardinality(UpTo(S, k)) = m - 1
      BY <3>1
    <3>3. S \ UpTo(S, k) # {}
      <4>1. UpTo(S, k) # S
        BY <1>0, <2>3, <3>2
      <4> QED
        BY <4>1 DEF UpTo
    <3>4. PICK j \in S \ UpTo(S, k) : \A l \in S \ UpTo(S, k) : j <= l
      BY <3>3, Least
    <3>5. UpTo(S, j) = UpTo(S, k) \cup {j} /\ j \notin UpTo(S, k)
      <4>1. j \in S /\ ~(j <= k)
        BY <3>4 DEF UpTo
      <4>2. \A l \in S : l <= j <=> l <= k \/ l = j
        BY <3>4, <4>1 DEF UpTo
      <4> QED
        BY <4>1, <4>2 DEF UpTo
    <3>6. IsFiniteSet(UpTo(S, k))
      BY FS_Subset DEF UpTo
    <3>7. Cardinality(UpTo(S, j)) = m - 1 + 1
      BY <3>2, <3>5, <3>6, FS_AddElement
    <3> QED
      BY <2>2, <2>3, <3>4, <3>7
  <2> QED
    BY <2>4, <2>5
<1>2. \E k \in S : Cardinality(UpTo(S, k)) = n
  BY <1>1
<1> QED
  BY <1>2 DEF Nth, UpTo

\* Ranks grow with the members, so the n-th member is the one of rank n.
LEMMA NthIs ==
    ASSUME NEW S \in SUBSET Nat, IsFiniteSet(S), NEW k \in S
    PROVE  /\ Cardinality(UpTo(S, k)) \in 1..Cardinality(S)
           /\ Nth(S, Cardinality(UpTo(S, k))) = k
<1>0. Cardinality(S) \in Nat
  BY FS_CardinalityType
<1>1. \A j \in S : IsFiniteSet(UpTo(S, j)) /\ Cardinality(UpTo(S, j)) \in Nat
  BY FS_Subset, FS_CardinalityType DEF UpTo
<1>2. ASSUME NEW j \in S, NEW l \in S, j < l
      PROVE  Cardinality(UpTo(S, j)) < Cardinality(UpTo(S, l))
  <2>1. UpTo(S, j) \cup {l} \subseteq UpTo(S, l) /\ l \notin UpTo(S, j)
    <3>1. l <= l /\ ~(l <= j) /\ \A i \in S : i <= j => i <= l
      BY <1>2
    <3> QED
      BY <3>1 DEF UpTo
  <2>2. Cardinality(UpTo(S, j) \cup {l}) = Cardinality(UpTo(S, j)) + 1
    BY <1>1, <2>1, FS_AddElement
  <2>3. Cardinality(UpTo(S, j) \cup {l}) <= Cardinality(UpTo(S, l))
    BY <1>1, <2>1, FS_Subset
  <2> QED
    BY <1>1, <2>2, <2>3
<1>3. Cardinality(UpTo(S, k)) \in 1..Cardinality(S)
  <2>1. Cardinality(UpTo(S, k)) <= Cardinality(S)
    BY FS_Subset DEF UpTo
  <2>2. Cardinality(UpTo(S, k)) # 0
    BY <1>1, FS_EmptySet DEF UpTo
  <2> QED
    BY <1>0, <1>1, <2>1, <2>2
<1> DEFINE m == Nth(S, Cardinality(UpTo(S, k)))
<1>4. m \in S /\ Cardinality(UpTo(S, m)) = Cardinality(UpTo(S, k))
  BY <1>3, NthIsThere
<1> HIDE DEF m
<1>5. ~(m < k) /\ ~(k < m)
  BY <1>1, <1>2, <1>4
<1>6. m = k
  BY <1>4, <1>5
<1> QED
  BY <1>3, <1>6 DEF m

\* The members come in ascending order.
LEMMA NthOrder ==
    ASSUME NEW S \in SUBSET Nat, IsFiniteSet(S),
           NEW m \in 1..Cardinality(S), NEW n \in 1..Cardinality(S), m < n
    PROVE  Nth(S, m) < Nth(S, n)
<1>0. Cardinality(S) \in Nat
  BY FS_CardinalityType
<1>1. /\ Nth(S, m) \in S /\ Cardinality(UpTo(S, Nth(S, m))) = m
      /\ Nth(S, n) \in S /\ Cardinality(UpTo(S, Nth(S, n))) = n
  BY NthIsThere
<1>2. ASSUME Nth(S, n) <= Nth(S, m) PROVE FALSE
  <2>1. UpTo(S, Nth(S, n)) \subseteq UpTo(S, Nth(S, m))
    <3>1. \A a, b, c \in Nat : a <= b /\ b <= c => a <= c
      OBVIOUS
    <3> QED
      BY <1>1, <1>2, <3>1 DEF UpTo
  <2>2. IsFiniteSet(UpTo(S, Nth(S, m)))
    BY FS_Subset DEF UpTo
  <2>3. n <= m
    BY <1>1, <2>1, <2>2, FS_Subset
  <2> QED
    BY <1>0, <2>3
<1>3. Nth(S, m) \in Nat /\ Nth(S, n) \in Nat
  BY <1>1
<1> QED
  BY <1>2, <1>3

\* A member greater than all others comes last and moves none of them.
LEMMA NthGrows ==
    ASSUME NEW S \in SUBSET Nat, IsFiniteSet(S), NEW x \in Nat, \A k \in S : k < x
    PROVE  /\ IsFiniteSet(S \cup {x})
           /\ Cardinality(S \cup {x}) = Cardinality(S) + 1
           /\ Nth(S \cup {x}, Cardinality(S) + 1) = x
           /\ \A n \in 1..Cardinality(S) : Nth(S \cup {x}, n) = Nth(S, n)
<1> DEFINE T == S \cup {x}
<1>0. Cardinality(S) \in Nat
  BY FS_CardinalityType
<1>1. x \notin S
  OBVIOUS
<1>2. IsFiniteSet(T) /\ Cardinality(T) = Cardinality(S) + 1 /\ T \in SUBSET Nat
  BY <1>1, FS_AddElement
<1>3. Nth(T, Cardinality(S) + 1) = x
  <2>1. UpTo(T, x) = T
    <3>1. \A k \in T : k <= x
      OBVIOUS
    <3> QED
      BY <3>1 DEF UpTo
  <2> QED
    BY <1>2, <2>1, NthIs
<1>4. ASSUME NEW n \in 1..Cardinality(S) PROVE Nth(T, n) = Nth(S, n)
  <2> DEFINE k == Nth(S, n)
  <2>1. k \in S /\ Cardinality(UpTo(S, k)) = n
    BY NthIsThere
  <2> HIDE DEF k
  <2>2. UpTo(T, k) = UpTo(S, k)
    BY <2>1 DEF UpTo
  <2>3. Nth(T, n) = k
    BY <1>2, <2>1, <2>2, NthIs
  <2> QED
    BY <2>3 DEF k
<1> QED
  BY <1>2, <1>3, <1>4

\* The members of an interval are numbered from its beginning.
LEMMA NthInterval ==
    ASSUME NEW a \in Nat, NEW b \in Nat
    PROVE  /\ Cardinality(a + 1..a + b) = b /\ IsFiniteSet(a + 1..a + b)
           /\ \A n \in 1..b : Nth(a + 1..a + b, n) = a + n
<1> DEFINE S == a + 1..a + b
<1>1. S \in SUBSET Nat /\ IsFiniteSet(S) /\ Cardinality(S) = b
  <2>1. /\ IsFiniteSet(S)
        /\ Cardinality(S) = IF a + 1 > a + b THEN 0 ELSE (a + b) - (a + 1) + 1
    BY FS_Interval
  <2> QED
    BY <2>1
<1>2. ASSUME NEW n \in 1..b PROVE Nth(S, n) = a + n
  <2>1. a + n \in S /\ UpTo(S, a + n) = a + 1..a + n
    BY DEF UpTo
  <2>2. Cardinality(a + 1..a + n) = n
    <3>1. Cardinality(a + 1..a + n) = IF a + 1 > a + n THEN 0 ELSE (a + n) - (a + 1) + 1
      BY FS_Interval
    <3> QED
      BY <3>1
  <2> HIDE DEF S
  <2> QED
    BY <1>1, <2>1, <2>2, NthIs
<1> QED
  BY <1>1, <1>2

-----------------------------------------------------------------------------
\* A selection from a sequence is a sequence, as long as there are positions.
LEMMA PickType ==
    ASSUME NEW S, NEW s \in Seq(S), NEW P \in SUBSET (DOMAIN s)
    PROVE  Pick(s, P) \in Seq(S) /\ Len(Pick(s, P)) = Cardinality(P)
<1>1. P \in SUBSET Nat /\ IsFiniteSet(P) /\ Cardinality(P) \in Nat
  <2>1. DOMAIN s = 1..Len(s) /\ Len(s) \in Nat
    OBVIOUS
  <2>2. IsFiniteSet(DOMAIN s)
    BY <2>1, FS_Interval
  <2> QED
    BY <2>1, <2>2, FS_Subset, FS_CardinalityType
<1>2. \A n \in 1..Cardinality(P) : s[Nth(P, n)] \in S
  BY <1>1, NthIsThere
<1> QED
  BY <1>1, <1>2 DEF Pick

\* r holds what s holds at positions P, in that order.
Selects(r, s, P) ==
    /\ \A n \in DOMAIN r : \E k \in P : r[n] = s[k]
    /\ \A k \in P : \E n \in DOMAIN r : r[n] = s[k]
    /\ \A m, n \in DOMAIN r : m < n => \E j, k \in P : j < k /\ r[m] = s[j] /\ r[n] = s[k]

LEMMA PickIs ==
    ASSUME NEW S, NEW s \in Seq(S), NEW P \in SUBSET (DOMAIN s)
    PROVE  Selects(Pick(s, P), s, P)
<1> DEFINE c == Cardinality(P)
<1>1. P \in SUBSET Nat /\ IsFiniteSet(P) /\ c \in Nat
  <2>1. DOMAIN s = 1..Len(s) /\ Len(s) \in Nat
    OBVIOUS
  <2>2. IsFiniteSet(DOMAIN s)
    BY <2>1, FS_Interval
  <2> QED
    BY <2>1, <2>2, FS_Subset, FS_CardinalityType
<1>2. DOMAIN Pick(s, P) = 1..c /\ \A n \in 1..c : Pick(s, P)[n] = s[Nth(P, n)]
  BY DEF Pick
<1>3. \A n \in 1..c : Nth(P, n) \in P
  BY <1>1, NthIsThere
<1>4. \A k \in P : \E n \in 1..c : Nth(P, n) = k
  BY <1>1, NthIs
<1>5. \A m, n \in 1..c : m < n => Nth(P, m) < Nth(P, n)
  BY <1>1, NthOrder
<1> HIDE DEF c
<1>6. ASSUME NEW k \in P PROVE \E n \in DOMAIN Pick(s, P) : Pick(s, P)[n] = s[k]
  BY <1>2, <1>4
<1>7. ASSUME NEW n \in DOMAIN Pick(s, P) PROVE \E k \in P : Pick(s, P)[n] = s[k]
  BY <1>2, <1>3
<1>8. \A m, n \in DOMAIN Pick(s, P) : m < n =>
         \E j, k \in P : j < k /\ Pick(s, P)[m] = s[j] /\ Pick(s, P)[n] = s[k]
  BY <1>2, <1>3, <1>5
<1> QED
  BY <1>6, <1>7, <1>8 DEF Selects

===================================================================================
