----------------------------- MODULE ValidatorProofs -----------------------------
(***************************************************************************)
(* What Validator.validate reports and leaves, for every configuration and *)
(* every request.                                                          *)
(***************************************************************************)
EXTENDS Validator, CommonLemmas, FiniteSetTheorems, TLAPS

-----------------------------------------------------------------------------
\* The tools with the hits from position i on popped.
Popping(tools, hits, popped, i) ==
    IF i = Len(tools) + 1 THEN tools
    ELSE IF i \in hits THEN RemoveAt(popped[i + 1], i) ELSE popped[i + 1]

\* However many tools there are, popping them one by one comes to an end.
LEMMA PoppedUpTo ==
    ASSUME NEW S, NEW tools \in Seq(S), NEW hits, NEW n \in 1..Len(tools) + 1
    PROVE  \E f : \A i \in n..Len(tools) + 1 : f[i] = Popping(tools, hits, f, i)
<1> DEFINE L == Len(tools) + 1
           Ends(m) == \E f : \A i \in m..L : f[i] = Popping(tools, hits, f, i)
           Bad == {k \in 0..L - 1 : ~Ends(L - k)}
<1>0. L \in Nat /\ L >= 1
  OBVIOUS
<1>1. SUFFICES Bad = {}
  <2>1. L - n \in 0..L - 1 /\ L - (L - n) = n
    BY <1>0
  <2> QED
    BY <2>1
<1>2. SUFFICES ASSUME Bad # {} PROVE FALSE
  OBVIOUS
<1>3. PICK k \in Bad : \A j \in Bad : k <= j
  <2>1. Bad \in SUBSET Nat
    BY <1>0
  <2> HIDE DEF Bad
  <2> QED
    BY <2>1, <1>2, Least
<1>4. CASE k = 0
  <2> DEFINE f == [i \in {L} |-> tools]
  <2>1. \A i \in L..L : f[i] = Popping(tools, hits, f, i)
    BY <1>0 DEF Popping
  <2>2. Ends(L - 0)
    BY <2>1, <1>0
  <2> QED
    BY <2>2, <1>3, <1>4
<1>5. CASE k # 0
  <2>1. k \in 1..L - 1 /\ k - 1 \in 0..L - 1
    BY <1>0, <1>3, <1>5
  <2>2. Ends(L - (k - 1))
    <3>1. k - 1 \notin Bad
      <4>1. ~(k <= k - 1)
        BY <2>1
      <4> QED
        BY <4>1, <1>3
    <3> QED
      BY <3>1, <2>1
  <2> DEFINE m == L - k
  <2>3. m \in 1..L - 1 /\ L - (k - 1) = m + 1
    BY <2>1, <1>0
  <2>4. PICK f : \A i \in m + 1..L : f[i] = Popping(tools, hits, f, i)
    BY <2>2, <2>3
  <2> DEFINE g == [i \in m..L |-> IF i = m THEN Popping(tools, hits, f, m) ELSE f[i]]
  <2>5. ASSUME NEW i \in m..L PROVE g[i] = Popping(tools, hits, g, i)
    <3>1. CASE i = L
      <4>1. i # m /\ i \in m + 1..L /\ g[i] = f[i]
        BY <2>3, <3>1
      <4> QED
        BY <4>1, <2>4, <3>1 DEF Popping
    <3>2. CASE i # L
      <4>1. i + 1 \in m..L /\ i + 1 # m /\ i # Len(tools) + 1
        BY <1>0, <2>3, <3>2
      <4>3. g[i + 1] = f[i + 1]
        BY <4>1
      <4>2. g[i] = Popping(tools, hits, f, i)
        <5>1. CASE i = m
          BY <5>1
        <5>2. CASE i # m
          <6>1. i \in m + 1..L /\ g[i] = f[i]
            BY <5>2, <2>3
          <6> QED
            BY <6>1, <2>4
        <5> QED
          BY <5>1, <5>2
      <4> HIDE DEF g
      <4> QED
        BY <4>1, <4>3, <4>2 DEF Popping
    <3> QED
      BY <3>1, <3>2
  <2> HIDE DEF g
  <2>6. Ends(m)
    BY <2>5
  <2> QED
    BY <2>6, <1>3
<1> QED
  BY <1>4, <1>5

\* PopTools pops one position after the other, from the last to the first.
LEMMA PopsInOrder ==
    ASSUME NEW S, NEW tools \in Seq(S), NEW hits
    PROVE  \E popped :
              /\ PopTools(tools, hits) = popped[1]
              /\ \A i \in 1..Len(tools) + 1 : popped[i] = Popping(tools, hits, popped, i)
<1> DEFINE Pops(f) ==
        [i \in 1..Len(tools) + 1 |->
            IF i = Len(tools) + 1 THEN tools
            ELSE IF i \in hits THEN RemoveAt(f[i + 1], i) ELSE f[i + 1]]
    popped == CHOOSE f : f = Pops(f)
<1>1. PICK g : \A i \in 1..Len(tools) + 1 : g[i] = Popping(tools, hits, g, i)
  <2>1. 1 \in 1..Len(tools) + 1
    OBVIOUS
  <2> QED
    BY <2>1, PoppedUpTo
<1> DEFINE f == [i \in 1..Len(tools) + 1 |-> g[i]]
<1>2. f = Pops(f)
  <2>1. ASSUME NEW i \in 1..Len(tools) + 1 PROVE f[i] = Pops(f)[i]
    <3>1. CASE i = Len(tools) + 1
      BY <3>1, <1>1 DEF Popping
    <3>2. CASE i # Len(tools) + 1
      <4>1. i + 1 \in 1..Len(tools) + 1 /\ f[i + 1] = g[i + 1] /\ f[i] = g[i]
        BY <3>2
      <4> QED
        BY <4>1, <1>1, <3>2 DEF Popping
    <3> QED
      BY <3>1, <3>2
  <2> QED
    BY <2>1
<1>3. popped = Pops(popped)
  <2> HIDE DEF Pops, f
  <2> QED
    BY <1>2
<1>4. PopTools(tools, hits) = popped[1]
  BY DEF PopTools
<1> HIDE DEF popped
<1>5. \A i \in 1..Len(tools) + 1 : popped[i] = Popping(tools, hits, popped, i)
  BY <1>3 DEF Popping
<1> QED
  BY <1>4, <1>5

-----------------------------------------------------------------------------
LEMMA RemoveAtIs ==
    ASSUME NEW S, NEW s \in Seq(S), NEW i \in 1..Len(s)
    PROVE  /\ RemoveAt(s, i) \in Seq(S)
           /\ Len(RemoveAt(s, i)) = Len(s) - 1
           /\ \A n \in 1..i - 1 : RemoveAt(s, i)[n] = s[n]
           /\ \A n \in i..Len(s) - 1 : RemoveAt(s, i)[n] = s[n + 1]
<1> DEFINE a == SubSeq(s, 1, i - 1)
           b == SubSeq(s, i + 1, Len(s))
<1>1. a \in Seq(S) /\ Len(a) = i - 1 /\ \A n \in 1..i - 1 : a[n] = s[n]
  OBVIOUS
<1>2. b \in Seq(S) /\ Len(b) = Len(s) - i /\ \A n \in 1..Len(s) - i : b[n] = s[n + i]
  OBVIOUS
<1>3. RemoveAt(s, i) = a \o b
  BY DEF RemoveAt
<1> HIDE DEF a, b
<1>7. /\ a \o b \in Seq(S) /\ Len(a \o b) = Len(a) + Len(b)
      /\ \A k \in 1..Len(a) : (a \o b)[k] = a[k]
      /\ \A k \in 1..Len(b) : (a \o b)[Len(a) + k] = b[k]
  <2>1. a \in Seq(S) /\ b \in Seq(S)
    BY <1>1, <1>2
  <2> QED
    BY <2>1, Joined
<1>8. Len(s) \in Nat
  OBVIOUS
<1>4. a \o b \in Seq(S) /\ Len(a \o b) = Len(s) - 1
  BY <1>1, <1>2, <1>7, <1>8
<1>5. ASSUME NEW n \in 1..i - 1 PROVE (a \o b)[n] = s[n]
  BY <1>1, <1>7
<1>6. ASSUME NEW n \in i..Len(s) - 1 PROVE (a \o b)[n] = s[n + 1]
  <2>1. n - i + 1 \in 1..Len(s) - i /\ (n - i + 1) + i = n + 1
    BY <1>8
  <2>2. Len(a) + (n - i + 1) = n
    BY <1>1, <1>8
  <2>3. (a \o b)[Len(a) + (n - i + 1)] = b[n - i + 1]
    BY <2>1, <1>2, <1>7
  <2>4. b[n - i + 1] = s[(n - i + 1) + i]
    BY <2>1, <1>2
  <2> QED
    BY <2>1, <2>2, <2>3, <2>4
<1> QED
  BY <1>3, <1>4, <1>5, <1>6

\* The hits from position i on, and those of them before position m.
From(hits, i)      == {j \in hits : i <= j}
Between(hits, i, m) == {j \in hits : i <= j /\ j < m}

\* What a hit at i adds to their number.
OneIf(hits, i) == IF i \in hits THEN 1 ELSE 0

LEMMA HitsFrom ==
    ASSUME NEW L \in Nat, NEW hits \in SUBSET (1..L), NEW i \in 1..L
    PROVE  /\ Cardinality(From(hits, i)) \in Nat /\ Cardinality(From(hits, i + 1)) \in Nat
           /\ Cardinality(From(hits, i)) =
                Cardinality(From(hits, i + 1)) + OneIf(hits, i)
           /\ \A m \in i + 1..L :
                /\ Cardinality(Between(hits, i, m)) \in Nat
                /\ Cardinality(Between(hits, i + 1, m)) \in Nat
                /\ Cardinality(Between(hits, i, m)) =
                     Cardinality(Between(hits, i + 1, m)) + OneIf(hits, i)
<1>1. \A T \in SUBSET hits : IsFiniteSet(T) /\ Cardinality(T) \in Nat
  <2>1. IsFiniteSet(1..L)
    BY FS_Interval
  <2> QED
    BY <2>1, FS_Subset, FS_CardinalityType
<1>2. ASSUME NEW T \in SUBSET hits, NEW U \in SUBSET hits, i \notin U,
             T = IF i \in hits THEN U \cup {i} ELSE U
      PROVE  Cardinality(T) = Cardinality(U) + OneIf(hits, i)
  BY <1>1, <1>2, FS_AddElement DEF OneIf
<1>3. /\ From(hits, i) \in SUBSET hits /\ From(hits, i + 1) \in SUBSET hits
      /\ i \notin From(hits, i + 1)
      /\ From(hits, i) = IF i \in hits THEN From(hits, i + 1) \cup {i} ELSE From(hits, i + 1)
  <2>1. \A j \in hits : j \in Int /\ (i <= j <=> i + 1 <= j \/ j = i)
    OBVIOUS
  <2>2. ASSUME NEW j
        PROVE  j \in From(hits, i) <=> j \in From(hits, i + 1) \/ (i \in hits /\ j = i)
    BY <2>1, Zenon DEF From
  <2>3. i \notin From(hits, i + 1)
    <3>1. ~(i + 1 <= i)
      OBVIOUS
    <3> QED
      BY <3>1 DEF From
  <2>4. From(hits, i) \in SUBSET hits /\ From(hits, i + 1) \in SUBSET hits
    BY DEF From
  <2> QED
    BY <2>2, <2>3, <2>4
<1>4. ASSUME NEW m \in i + 1..L
      PROVE  /\ Between(hits, i, m) \in SUBSET hits /\ Between(hits, i + 1, m) \in SUBSET hits
             /\ i \notin Between(hits, i + 1, m)
             /\ Between(hits, i, m) = IF i \in hits THEN Between(hits, i + 1, m) \cup {i}
                                      ELSE Between(hits, i + 1, m)
  <2>1. \A j \in hits : j \in Int /\ (i <= j <=> i + 1 <= j \/ j = i)
    OBVIOUS
  <2>2. i < m /\ ~(i + 1 <= i)
    OBVIOUS
  <2>3. ASSUME NEW j
        PROVE  j \in Between(hits, i, m) <=>
                  j \in Between(hits, i + 1, m) \/ (i \in hits /\ j = i)
    BY <2>1, <2>2, Zenon DEF Between
  <2>4. i \notin Between(hits, i + 1, m)
    BY <2>2 DEF Between
  <2>5. Between(hits, i, m) \in SUBSET hits /\ Between(hits, i + 1, m) \in SUBSET hits
    BY DEF Between
  <2> QED
    BY <2>3, <2>4, <2>5
<1>5. \A m \in i + 1..L :
        /\ Cardinality(Between(hits, i, m)) \in Nat
        /\ Cardinality(Between(hits, i + 1, m)) \in Nat
        /\ Cardinality(Between(hits, i, m)) =
             Cardinality(Between(hits, i + 1, m)) + OneIf(hits, i)
  BY <1>1, <1>2, <1>4
<1> QED
  BY <1>1, <1>2, <1>3, <1>5

(***************************************************************************)
(* Popped down to position i: the tools before i are as they were, those   *)
(* that are not hit have moved up by the hits between, and that is all.    *)
(***************************************************************************)
PoppedTo(S, tools, hits, s, i) ==
    /\ s \in Seq(S)
    /\ Len(s) = Len(tools) - Cardinality(From(hits, i))
    /\ \A n \in 1..i - 1 : n \in DOMAIN s /\ s[n] = tools[n]
    /\ \A n \in i..Len(s) : \E m \in i..Len(tools) : m \notin hits /\ s[n] = tools[m]
    /\ \A m \in i..Len(tools) : m \notin hits =>
          /\ m - Cardinality(Between(hits, i, m)) \in i..Len(s)
          /\ s[m - Cardinality(Between(hits, i, m))] = tools[m]

LEMMA PopsOne ==
    ASSUME NEW S, NEW tools \in Seq(S), NEW hits \in SUBSET (1..Len(tools)),
           NEW i \in 1..Len(tools), NEW popped,
           popped[i] = Popping(tools, hits, popped, i),
           PoppedTo(S, tools, hits, popped[i + 1], i + 1)
    PROVE  PoppedTo(S, tools, hits, popped[i], i)
<1> DEFINE s == popped[i + 1]
           r == popped[i]
           L == Len(tools)
<1>0. L \in Nat /\ i \in Nat /\ i \in 1..L /\ hits \in SUBSET (1..L)
  OBVIOUS
<1>1. s \in Seq(S) /\ Len(s) = L - Cardinality(From(hits, i + 1))
  BY DEF PoppedTo
<1>2. \A n \in 1..i : n \in DOMAIN s /\ s[n] = tools[n]
  BY <1>0 DEF PoppedTo
<1>3. \A n \in i + 1..Len(s) : \E m \in i + 1..L : m \notin hits /\ s[n] = tools[m]
  BY DEF PoppedTo
<1>4. \A m \in i + 1..L : m \notin hits =>
        /\ m - Cardinality(Between(hits, i + 1, m)) \in i + 1..Len(s)
        /\ s[m - Cardinality(Between(hits, i + 1, m))] = tools[m]
  BY DEF PoppedTo
<1>5. i \in 1..Len(s)
  BY <1>0, <1>1, <1>2
<1>6. r = IF i \in hits THEN RemoveAt(s, i) ELSE s
  BY DEF Popping
<1> HIDE DEF s, r, L
<1>7. /\ Cardinality(From(hits, i)) \in Nat /\ Cardinality(From(hits, i + 1)) \in Nat
      /\ Cardinality(From(hits, i)) =
           Cardinality(From(hits, i + 1)) + OneIf(hits, i)
  BY <1>0, HitsFrom
<1>8. \A m \in i + 1..L :
        /\ Cardinality(Between(hits, i, m)) \in Nat
        /\ Cardinality(Between(hits, i + 1, m)) \in Nat
        /\ Cardinality(Between(hits, i, m)) =
             Cardinality(Between(hits, i + 1, m)) + OneIf(hits, i)
  BY <1>0, HitsFrom
<1>9. CASE i \in hits
  <2>1. /\ r \in Seq(S) /\ Len(r) = Len(s) - 1
        /\ \A n \in 1..i - 1 : r[n] = s[n]
        /\ \A n \in i..Len(s) - 1 : r[n] = s[n + 1]
    BY <1>1, <1>5, <1>6, <1>9, RemoveAtIs
  <2>2. Len(s) \in Nat
    BY <1>1
  <2>3. Len(r) = L - Cardinality(From(hits, i))
    <3>1. Cardinality(From(hits, i)) = Cardinality(From(hits, i + 1)) + 1
      BY <1>7, <1>9 DEF OneIf
    <3> QED
      BY <3>1, <2>1, <1>1, <1>0, <1>7
  <2>4. ASSUME NEW n \in 1..i - 1 PROVE n \in DOMAIN r /\ r[n] = tools[n]
    <3>1. n \in 1..i /\ n \in 1..Len(r)
      BY <2>1, <2>2, <1>5, <1>0
    <3> QED
      BY <3>1, <1>2, <2>1
  <2>5. ASSUME NEW n \in i..Len(r)
        PROVE  \E m \in i..L : m \notin hits /\ r[n] = tools[m]
    <3>1. n + 1 \in i + 1..Len(s) /\ n \in i..Len(s) - 1
      BY <2>1, <2>2, <1>0
    <3>2. PICK m \in i + 1..L : m \notin hits /\ s[n + 1] = tools[m]
      BY <3>1, <1>3
    <3>3. m \in i..L
      BY <1>0
    <3> QED
      BY <3>1, <3>2, <3>3, <2>1
  <2>6. ASSUME NEW m \in i..L, m \notin hits
        PROVE  /\ m - Cardinality(Between(hits, i, m)) \in i..Len(r)
               /\ r[m - Cardinality(Between(hits, i, m))] = tools[m]
    <3>1. m \in i + 1..L
      BY <2>6, <1>9, <1>0
    <3> DEFINE c == Cardinality(Between(hits, i, m))
               d == Cardinality(Between(hits, i + 1, m))
    <3>2. c \in Nat /\ d \in Nat /\ c = d + 1
      BY <3>1, <1>8, <1>9 DEF OneIf
    <3>3. m - d \in i + 1..Len(s) /\ s[m - d] = tools[m]
      BY <3>1, <2>6, <1>4
    <3> HIDE DEF c, d
    <3>4. d \in Int
      BY <3>2
    <3>5. m \in Int /\ m - c = (m - d) - 1
      BY <3>2, <3>4, <1>0
    <3>6. (m - d) - 1 \in i..Len(s) - 1 /\ ((m - d) - 1) + 1 = m - d
      BY <3>3, <2>2, <1>0
    <3>7. r[m - c] = s[m - d]
      BY <3>5, <3>6, <2>1
    <3>8. m - c \in i..Len(r) /\ r[m - c] = tools[m]
      BY <3>3, <3>5, <3>6, <3>7, <2>1
    <3> QED
      BY <3>8 DEF c
  <2> QED
    BY <2>1, <2>3, <2>4, <2>5, <2>6 DEF PoppedTo, L, r
<1>10. CASE i \notin hits
  <2>1. r = s
    BY <1>6, <1>10
  <2>2. Len(s) \in Nat
    BY <1>1
  <2>3. Len(r) = L - Cardinality(From(hits, i))
    <3>1. Cardinality(From(hits, i)) = Cardinality(From(hits, i + 1)) + 0
      BY <1>7, <1>10 DEF OneIf
    <3> QED
      BY <3>1, <2>1, <1>1, <1>7
  <2>4. ASSUME NEW n \in 1..i - 1 PROVE n \in DOMAIN r /\ r[n] = tools[n]
    BY <2>1, <1>2, <1>0
  <2>5. ASSUME NEW n \in i..Len(r)
        PROVE  \E m \in i..L : m \notin hits /\ r[n] = tools[m]
    <3>1. CASE n = i
      <4>1. i \in i..L /\ i \in 1..i
        BY <1>0 DEF L
      <4> QED
        BY <4>1, <3>1, <1>10, <1>2, <2>1
    <3>2. CASE n # i
      <4>1. n \in i + 1..Len(s)
        BY <3>2, <2>1, <2>2, <1>0
      <4>2. PICK m \in i + 1..L : m \notin hits /\ s[n] = tools[m]
        BY <4>1, <1>3
      <4>3. m \in i..L
        BY <1>0
      <4> QED
        BY <4>2, <4>3, <2>1
    <3> QED
      BY <3>1, <3>2
  <2>6. ASSUME NEW m \in i..L, m \notin hits
        PROVE  /\ m - Cardinality(Between(hits, i, m)) \in i..Len(r)
               /\ r[m - Cardinality(Between(hits, i, m))] = tools[m]
    <3>1. CASE m = i
      <4>1. Between(hits, i, m) = {}
        <5>1. \A j \in hits : ~(i <= j /\ j < i)
          BY <1>0
        <5> QED
          BY <5>1, <3>1 DEF Between
      <4>2. m - Cardinality(Between(hits, i, m)) = i
        BY <4>1, <3>1, <1>0, FS_EmptySet
      <4>3. i \in i..Len(r) /\ i \in 1..i
        BY <1>5, <2>1, <2>2, <1>0
      <4> QED
        BY <4>2, <4>3, <3>1, <2>1, <1>2
    <3>2. CASE m # i
      <4>1. m \in i + 1..L
        BY <3>2, <1>0
      <4>2. m - Cardinality(Between(hits, i + 1, m)) \in i + 1..Len(s)
            /\ s[m - Cardinality(Between(hits, i + 1, m))] = tools[m]
        BY <4>1, <2>6, <1>4
      <4> DEFINE c == Cardinality(Between(hits, i, m))
                 d == Cardinality(Between(hits, i + 1, m))
      <4>3. c \in Nat /\ d \in Nat /\ c = d + 0
        BY <4>1, <1>8, <1>10 DEF OneIf
      <4> HIDE DEF c, d
      <4>4. m - d \in i + 1..Len(s) /\ s[m - d] = tools[m]
        BY <4>2 DEF d
      <4>6. c = d
        BY <4>3
      <4>7. m - c \in i..Len(r) /\ r[m - c] = tools[m]
        BY <4>4, <4>6, <2>1, <2>2, <1>0
      <4> QED
        BY <4>7 DEF c
    <3> QED
      BY <3>1, <3>2
  <2> QED
    BY <2>1, <1>1, <2>3, <2>4, <2>5, <2>6 DEF PoppedTo, L, r
<1> QED
  BY <1>9, <1>10

(***************************************************************************)
(* tools.pop(i) in reverse order takes out the tools that are hit and no   *)
(* other, and leaves the rest in their order.                              *)
(***************************************************************************)
LEMMA PopsTheHits ==
    ASSUME NEW S, NEW tools \in Seq(S), NEW hits \in SUBSET (1..Len(tools))
    PROVE  PoppedTo(S, tools, hits, PopTools(tools, hits), 1)
<1> DEFINE L == Len(tools)
<1>0. L \in Nat
  OBVIOUS
<1>1. PICK popped :
        /\ PopTools(tools, hits) = popped[1]
        /\ \A i \in 1..L + 1 : popped[i] = Popping(tools, hits, popped, i)
  BY PopsInOrder
<1> DEFINE Done(i) == PoppedTo(S, tools, hits, popped[i], i)
           Bad == {k \in 0..L : ~Done(L + 1 - k)}
<1>2. Done(L + 1)
  <2>1. popped[L + 1] = tools
    <3>1. L + 1 \in 1..L + 1
      BY <1>0
    <3> QED
      BY <3>1, <1>1 DEF Popping
  <2>2. From(hits, L + 1) = {}
    <3>1. \A j \in hits : ~(L + 1 <= j)
      BY <1>0
    <3> QED
      BY <3>1 DEF From
  <2>3. Len(tools) = Len(tools) - Cardinality(From(hits, L + 1))
    <3>1. Cardinality(From(hits, L + 1)) = 0
      BY <2>2, FS_EmptySet
    <3> QED
      BY <3>1, <1>0
  <2> QED
    BY <2>1, <2>3, <1>0 DEF PoppedTo
<1>3. SUFFICES Bad = {}
  <2>1. L \in 0..L /\ L + 1 - L = 1
    BY <1>0
  <2> QED
    BY <2>1, <1>1
<1>4. SUFFICES ASSUME Bad # {} PROVE FALSE
  OBVIOUS
<1>5. PICK k \in Bad : \A j \in Bad : k <= j
  <2>1. Bad \in SUBSET Nat
    BY <1>0
  <2> HIDE DEF Bad
  <2> QED
    BY <2>1, <1>4, Least
<1>6. k # 0
  <2>1. L + 1 - 0 = L + 1
    BY <1>0
  <2> QED
    BY <2>1, <1>2, <1>5
<1>7. k \in 1..L /\ k - 1 \in 0..L /\ ~(k <= k - 1)
  BY <1>5, <1>6, <1>0
<1>8. Done(L + 1 - (k - 1))
  BY <1>7, <1>5
<1> DEFINE i == L + 1 - k
<1>9. i \in 1..L /\ i \in 1..L + 1 /\ L + 1 - (k - 1) = i + 1
  BY <1>7, <1>0
<1> HIDE DEF i, Done
<1>10. Done(i + 1) /\ popped[i] = Popping(tools, hits, popped, i)
  BY <1>8, <1>9, <1>1, SMTT(60)
<1>11. Done(i)
  BY <1>9, <1>10, PopsOne, SMTT(60) DEF Done
<1> QED
  BY <1>11, <1>5 DEF i

-----------------------------------------------------------------------------
LEMMA WithoutIs ==
    ASSUME NEW d, NEW K
    PROVE  /\ DOMAIN Without(d, K) = DOMAIN d \ K
           /\ \A k \in DOMAIN d \ K : Without(d, K)[k] = d[k]
BY DEF Without, Restrict

LEMMA UpdateIs ==
    ASSUME NEW d, NEW e
    PROVE  /\ DOMAIN Update(d, e) = DOMAIN d \cup DOMAIN e
           /\ \A k \in DOMAIN e : Update(d, e)[k] = e[k]
           /\ \A k \in DOMAIN d \ DOMAIN e : Update(d, e)[k] = d[k]
BY SMTT(60) DEF Update

(***************************************************************************)
(* The parts of what Validate returns: tools first, then fields by value,  *)
(* then fields by presence.                                                *)
(***************************************************************************)
Tools(request)         == IF "tools" \in DOMAIN request THEN request.tools ELSE <<>>
Hits(cfg, request)     == {i \in DOMAIN Tools(request) : ToolHit(cfg, Tools(request)[i])}
KeptTools(cfg, request) == PopTools(Tools(request), Hits(cfg, request))
Tooled(cfg, request)   == IF KeptTools(cfg, request) = <<>> THEN Without(request, {"tools"})
                          ELSE Update(request, [tools |-> KeptTools(cfg, request)])
Valued(cfg, request)   == {f \in DOMAIN cfg.fields : FieldHit(cfg, Tooled(cfg, request), f)}
Present(cfg, request)  == {f \in cfg.present_fields \ Valued(cfg, request) :
                              Get(Tooled(cfg, request), f) # "None"}
Names(cfg, request)    == Valued(cfg, request) \cup Present(cfg, request)

LEMMA ValidateIs ==
    ASSUME NEW cfg, NEW request
    PROVE  /\ Validate(cfg, request).indices = Hits(cfg, request)
           /\ Validate(cfg, request).names = Names(cfg, request)
           /\ Validate(cfg, request).request =
                Without(Tooled(cfg, request), Names(cfg, request))
BY DEF Validate, Tools, Hits, KeptTools, Tooled, Valued, Present, Names

\* The tools that are kept are those that are not hit, each in its place.
LEMMA ToolsKept ==
    ASSUME NEW cfg, NEW request, Tools(request) \in Seq(STRING)
    PROVE  /\ IsFiniteSet(Hits(cfg, request))
           /\ KeptTools(cfg, request) \in Seq(STRING)
           /\ Len(KeptTools(cfg, request)) =
                Len(Tools(request)) - Cardinality(Hits(cfg, request))
           /\ \A k \in DOMAIN KeptTools(cfg, request) :
                ~ToolHit(cfg, KeptTools(cfg, request)[k])
           /\ \A i \in DOMAIN Tools(request) \ Hits(cfg, request) :
                LET at == i - Cardinality({j \in Hits(cfg, request) : j < i})
                IN  /\ at \in DOMAIN KeptTools(cfg, request)
                    /\ KeptTools(cfg, request)[at] = Tools(request)[i]
<1> DEFINE tools == Tools(request)
           hits == Hits(cfg, request)
           kept == KeptTools(cfg, request)
<1>1. DOMAIN tools = 1..Len(tools) /\ Len(tools) \in Nat
  OBVIOUS
<1>2. hits \in SUBSET (1..Len(tools))
  BY <1>1 DEF Hits
<1>3. IsFiniteSet(hits)
  <2>1. IsFiniteSet(1..Len(tools))
    BY <1>1, FS_Interval
  <2> QED
    BY <2>1, <1>2, FS_Subset
<1>4. PoppedTo(STRING, tools, hits, kept, 1)
  BY <1>2, PopsTheHits DEF KeptTools
<1>5. From(hits, 1) = hits
  <2>1. \A j \in hits : 1 <= j
    BY <1>2
  <2> QED
    BY <2>1 DEF From
<1>6. kept \in Seq(STRING) /\ Len(kept) = Len(tools) - Cardinality(hits)
  BY <1>4, <1>5 DEF PoppedTo
<1>7. ASSUME NEW k \in DOMAIN kept PROVE ~ToolHit(cfg, kept[k])
  <2>1. k \in 1..Len(kept)
    BY <1>6
  <2>2. PICK m \in 1..Len(tools) : m \notin hits /\ kept[k] = tools[m]
    BY <2>1, <1>4 DEF PoppedTo
  <2>3. ~ToolHit(cfg, tools[m])
    BY <2>2, <1>1 DEF Hits
  <2> QED
    BY <2>2, <2>3
<1>8. ASSUME NEW i \in DOMAIN tools \ hits
      PROVE  LET at == i - Cardinality({j \in hits : j < i})
             IN  at \in DOMAIN kept /\ kept[at] = tools[i]
  <2>1. Between(hits, 1, i) = {j \in hits : j < i}
    <3>1. \A j \in hits : 1 <= j
      BY <1>2
    <3> QED
      BY <3>1 DEF Between
  <2>2. i \in 1..Len(tools) /\ i \notin hits
    BY <1>1
  <2> DEFINE at == i - Cardinality(Between(hits, 1, i))
  <2>3. at \in 1..Len(kept) /\ kept[at] = tools[i]
    BY <2>2, <1>4 DEF PoppedTo
  <2>4. at \in DOMAIN kept
    BY <2>3, <1>6
  <2> QED
    BY <2>1, <2>3, <2>4
<1> QED
  BY <1>3, <1>6, <1>7, <1>8

(***************************************************************************)
(* What validation leaves of a request has nothing in it that is refused,  *)
(* and with what it reports makes up the request.                          *)
(***************************************************************************)
LEMMA LeftIsClean ==
    ASSUME NEW cfg, NEW request, Tools(request) \in Seq(STRING)
    PROVE  LET left == Validate(cfg, request).request IN
           /\ \A f \in DOMAIN cfg.fields \cap DOMAIN left : left[f] # cfg.fields[f]
           /\ \A f \in cfg.present_fields \cap DOMAIN left : left[f] = "None"
           /\ "tools" \in DOMAIN left =>
                \A k \in DOMAIN left.tools : ~ToolHit(cfg, left.tools[k])
<1> DEFINE left == Validate(cfg, request).request
           tooled == Tooled(cfg, request)
           names == Names(cfg, request)
<1>1. left = Without(tooled, names)
  BY ValidateIs
<1>2. DOMAIN left = DOMAIN tooled \ names /\ \A k \in DOMAIN left : left[k] = tooled[k]
  <2> HIDE DEF left, tooled, names
  <2>1. /\ DOMAIN Without(tooled, names) = DOMAIN tooled \ names
        /\ \A k \in DOMAIN tooled \ names : Without(tooled, names)[k] = tooled[k]
    BY WithoutIs
  <2> QED
    BY <2>1, <1>1
<1> HIDE DEF left
<1>3. ASSUME NEW f \in DOMAIN cfg.fields \cap DOMAIN left PROVE left[f] # cfg.fields[f]
  <2>1. ~FieldHit(cfg, tooled, f)
    BY <1>2 DEF Names, Valued
  <2>2. Get(tooled, f) = left[f]
    BY <1>2 DEF Get
  <2> QED
    BY <2>1, <2>2 DEF FieldHit, PyEqual
<1>4. ASSUME NEW f \in cfg.present_fields \cap DOMAIN left PROVE left[f] = "None"
  <2>1. Get(tooled, f) = left[f] /\ f \notin names
    BY <1>2 DEF Get
  <2> QED
    BY <2>1 DEF Names, Present
<1>5. ASSUME "tools" \in DOMAIN left, NEW k \in DOMAIN left.tools
      PROVE  ~ToolHit(cfg, left.tools[k])
  <2>1. "tools" \in DOMAIN tooled /\ left.tools = tooled.tools
    BY <1>2, <1>5
  <2>2. tooled.tools = KeptTools(cfg, request)
    <3>1. KeptTools(cfg, request) # <<>>
      <4>1. "tools" \notin DOMAIN Without(request, {"tools"})
        <5>1. DOMAIN Without(request, {"tools"}) = DOMAIN request \ {"tools"}
          BY WithoutIs
        <5> QED
          BY <5>1
      <4> QED
        BY <4>1, <2>1 DEF Tooled
    <3> QED
      BY <3>1, UpdateIs DEF Tooled
  <2> QED
    BY <2>1, <2>2, <1>5, ToolsKept
<1> QED
  BY <1>3, <1>4, <1>5 DEF left

LEMMA LeftAddsUp ==
    ASSUME NEW cfg, NEW request, Tools(request) \in Seq(STRING)
    PROVE  LET verdict == Validate(cfg, request)
               left    == verdict.request
               Place(i) == i - Cardinality({j \in verdict.indices : j < i})
           IN  /\ DOMAIN left \subseteq DOMAIN request
               /\ \A f \in DOMAIN request \ {"tools"} :
                     f \notin verdict.names => f \in DOMAIN left /\ left[f] = request[f]
               /\ "tools" \notin verdict.names =>
                     \A i \in DOMAIN Tools(request) \ verdict.indices :
                        "tools" \in DOMAIN left /\ left.tools[Place(i)] = Tools(request)[i]
               /\ "tools" \in DOMAIN left =>
                     Len(left.tools) = Len(Tools(request)) - Cardinality(verdict.indices)
<1> DEFINE left == Validate(cfg, request).request
           tooled == Tooled(cfg, request)
           names == Names(cfg, request)
           hits == Hits(cfg, request)
           kept == KeptTools(cfg, request)
<1>1. /\ left = Without(tooled, names)
      /\ Validate(cfg, request).names = names /\ Validate(cfg, request).indices = hits
  BY ValidateIs
<1>2. DOMAIN left = DOMAIN tooled \ names /\ \A k \in DOMAIN left : left[k] = tooled[k]
  <2> HIDE DEF left, tooled, names
  <2>1. /\ DOMAIN Without(tooled, names) = DOMAIN tooled \ names
        /\ \A k \in DOMAIN tooled \ names : Without(tooled, names)[k] = tooled[k]
    BY WithoutIs
  <2> QED
    BY <2>1, <1>1
<1> HIDE DEF left
<1>3. kept # <<>> => "tools" \in DOMAIN request
  <2>1. ASSUME "tools" \notin DOMAIN request PROVE kept = <<>>
    <3>1. Tools(request) = <<>>
      BY <2>1 DEF Tools
    <3>2. hits = {}
      BY <3>1 DEF Hits
    <3>3. Len(kept) = 0
      <4>1. Len(Tools(request)) = 0 /\ Cardinality(hits) = 0
        BY <3>1, <3>2, FS_EmptySet
      <4>2. Len(kept) = Len(Tools(request)) - Cardinality(hits)
        BY ToolsKept
      <4> QED
        BY <4>1, <4>2
    <3>4. kept \in Seq(STRING)
      BY ToolsKept
    <3> QED
      BY <3>3, <3>4
  <2> QED
    BY <2>1
<1>4. /\ DOMAIN tooled \subseteq DOMAIN request
      /\ \A f \in DOMAIN request \ {"tools"} : f \in DOMAIN tooled /\ tooled[f] = request[f]
      /\ "tools" \in DOMAIN tooled <=> kept # <<>>
      /\ kept # <<>> => tooled.tools = kept
  <2>1. CASE kept = <<>>
    <3>1. tooled = Without(request, {"tools"})
      BY <2>1 DEF Tooled
    <3>2. /\ DOMAIN Without(request, {"tools"}) = DOMAIN request \ {"tools"}
          /\ \A k \in DOMAIN request \ {"tools"} : Without(request, {"tools"})[k] = request[k]
      BY WithoutIs
    <3> HIDE DEF tooled, kept
    <3> QED
      BY <3>1, <3>2, <2>1
  <2>2. CASE kept # <<>>
    <3>1. tooled = Update(request, [tools |-> kept])
      BY <2>2 DEF Tooled
    <3>2. DOMAIN [tools |-> kept] = {"tools"} /\ [tools |-> kept]["tools"] = kept
      OBVIOUS
    <3> HIDE DEF tooled, kept
    <3>3. /\ DOMAIN tooled = DOMAIN request \cup {"tools"}
          /\ tooled["tools"] = kept
          /\ \A k \in DOMAIN request \ {"tools"} : tooled[k] = request[k]
      <4> DEFINE e == [tools |-> kept]
      <4> HIDE DEF e
      <4>1. /\ DOMAIN Update(request, e) = DOMAIN request \cup DOMAIN e
            /\ \A k \in DOMAIN e : Update(request, e)[k] = e[k]
            /\ \A k \in DOMAIN request \ DOMAIN e : Update(request, e)[k] = request[k]
        BY UpdateIs
      <4>2. DOMAIN e = {"tools"} /\ e["tools"] = kept /\ tooled = Update(request, e)
        BY <3>1, <3>2 DEF e
      <4> QED
        BY <4>1, <4>2
    <3> QED
      BY <3>3, <2>2, <1>3
  <2> QED
    BY <2>1, <2>2
<1> HIDE DEF tooled, names, hits, kept
<1>5. DOMAIN left \subseteq DOMAIN request
  BY <1>2, <1>4
<1>6. \A f \in DOMAIN request \ {"tools"} :
        f \notin names => f \in DOMAIN left /\ left[f] = request[f]
  BY <1>2, <1>4
<1>7. ASSUME "tools" \notin names, NEW i \in DOMAIN Tools(request) \ hits
      PROVE  /\ "tools" \in DOMAIN left
             /\ left.tools[i - Cardinality({j \in hits : j < i})] = Tools(request)[i]
  <2> DEFINE at == i - Cardinality({j \in hits : j < i})
  <2>1. at \in DOMAIN kept /\ kept[at] = Tools(request)[i]
    BY ToolsKept DEF hits, kept
  <2>2. kept # <<>>
    BY <2>1
  <2>3. "tools" \in DOMAIN left /\ left.tools = kept
    BY <2>2, <1>2, <1>4, <1>7
  <2> HIDE DEF at
  <2>4. left.tools[at] = Tools(request)[i]
    BY <2>1, <2>3
  <2> QED
    BY <2>3, <2>4 DEF at
<1>8. ASSUME "tools" \in DOMAIN left
      PROVE  Len(left.tools) = Len(Tools(request)) - Cardinality(hits)
  <2>1. left.tools = kept
    BY <1>2, <1>4, <1>8
  <2> QED
    BY <2>1, ToolsKept DEF kept, hits
<1> QED
  BY <1>1, <1>5, <1>6, <1>7, <1>8 DEF left

=============================================================================
