--------------------------- MODULE StreamBridgeProofs ---------------------------
(***************************************************************************)
(* BridgeInv is an inductive invariant of StreamBridge, and implies what   *)
(* the client and the store rely on.  After the lemmas on numbered         *)
(* positions, Spoken says what one upstream event is and what becomes of   *)
(* the upstream's record, Took what tee() makes of it; both together carry *)
(* the parts that speak of Out, which a yield does not change.             *)
(***************************************************************************)
EXTENDS StreamBridgeInvariant, CommonLemmas, FiniteSetTheorems, TLAPS

-----------------------------------------------------------------------------
\* What output_item.done holds is a sequence of parts.
LEMMA ByPartType ==
    ASSUME NEW pieces \in Seq(Piece)
    PROVE  ByPart(pieces) \in Seq(Seq(Piece))
<1> DEFINE parts == {pieces[k].part : k \in DOMAIN pieces}
           At(c) == {k \in DOMAIN pieces : pieces[k].part = c}
           f     == [k \in DOMAIN pieces |-> pieces[k].part]
<1>1. IsFiniteSet(DOMAIN pieces)
  BY FS_Interval
<1>2. f \in Surjection(DOMAIN pieces, parts)
  BY DEF Surjection
<1>3. Cardinality(parts) \in Nat
  BY <1>1, <1>2, FS_Surjection, FS_CardinalityType
<1>4. \A c : Pick(pieces, At(c)) \in Seq(Piece)
  BY PickType
<1>5. ByPart(pieces) =
        [n \in 1..Cardinality(parts) |-> Pick(pieces, At(Nth(parts, n)))]
  BY DEF ByPart
<1> HIDE DEF parts, At
<1> QED
  BY <1>3, <1>4, <1>5

\* The pieces of one part, as ByPart selects them.
Places(pieces, c) == {k \in DOMAIN pieces : pieces[k].part = c}
OfPart(pieces, c) == Pick(pieces, Places(pieces, c))

\* Pieces of other parts that follow make no difference to part c.
LEMMA OtherParts ==
    ASSUME NEW s \in Seq(Piece), NEW t \in Seq(Piece), NEW c, Places(t, c) = {}
    PROVE  OfPart(s \o t, c) = OfPart(s, c)
<1>1. /\ s \o t \in Seq(Piece) /\ Len(s) \in Nat /\ Len(t) \in Nat
      /\ DOMAIN s = 1..Len(s) /\ DOMAIN t = 1..Len(t)
      /\ DOMAIN (s \o t) = 1..(Len(s) + Len(t))
      /\ \A k \in 1..Len(s) : (s \o t)[k] = s[k]
      /\ \A k \in 1..Len(t) : (s \o t)[Len(s) + k] = t[k]
  BY Joined
<1> DEFINE u == s \o t
<1> HIDE DEF u
<1>2. Places(u, c) = Places(s, c)
  <2>1. ASSUME NEW k \in Places(u, c) PROVE k \in Places(s, c)
    <3>1. k \in 1..(Len(s) + Len(t)) /\ u[k].part = c
      BY <1>1 DEF Places, u
    <3>2. CASE k \in 1..Len(s)
      BY <1>1, <3>1, <3>2 DEF Places, u
    <3>3. CASE k \notin 1..Len(s)
      <4>1. k - Len(s) \in 1..Len(t) /\ Len(s) + (k - Len(s)) = k
        BY <1>1, <3>1, <3>3
      <4>2. k - Len(s) \in Places(t, c)
        BY <1>1, <3>1, <4>1 DEF Places, u
      <4> QED
        BY <4>2
    <3> QED
      BY <3>2, <3>3
  <2>2. ASSUME NEW k \in Places(s, c) PROVE k \in Places(u, c)
    BY <1>1 DEF Places, u
  <2> QED
    BY <2>1, <2>2
<1>3. Places(s, c) \in SUBSET Nat /\ IsFiniteSet(Places(s, c)) /\ Places(s, c) \subseteq DOMAIN s
  <2>1. IsFiniteSet(DOMAIN s) /\ DOMAIN s \in SUBSET Nat
    BY <1>1, FS_Interval
  <2>2. Places(s, c) \subseteq DOMAIN s
    BY DEF Places
  <2> QED
    BY <2>1, <2>2, FS_Subset
<1>4. \A n \in 1..Cardinality(Places(s, c)) : u[Nth(Places(s, c), n)] = s[Nth(Places(s, c), n)]
  BY <1>1, <1>3, NthIsThere DEF u
<1>5. Pick(u, Places(s, c)) = Pick(s, Places(s, c))
  BY <1>4 DEF Pick
<1> QED
  BY <1>2, <1>5 DEF OfPart, u

\* Where all pieces of part c follow one another at the end, they are what
\* ByPart selects.
LEMMA LastOfPart ==
    ASSUME NEW s \in Seq(Piece), NEW t \in Seq(Piece), NEW c,
           Places(s, c) = {}, Places(t, c) = DOMAIN t
    PROVE  OfPart(s \o t, c) = t
<1>1. /\ s \o t \in Seq(Piece) /\ Len(s) \in Nat /\ Len(t) \in Nat
      /\ DOMAIN s = 1..Len(s) /\ DOMAIN t = 1..Len(t)
      /\ DOMAIN (s \o t) = 1..(Len(s) + Len(t))
      /\ \A k \in 1..Len(s) : (s \o t)[k] = s[k]
      /\ \A k \in 1..Len(t) : (s \o t)[Len(s) + k] = t[k]
  BY Joined
<1> DEFINE u == s \o t
           a == Len(s)
           b == Len(t)
<1> HIDE DEF u, a, b
<1>2. Places(u, c) = a + 1..a + b
  <2>1. ASSUME NEW k \in Places(u, c) PROVE k \in a + 1..a + b
    <3>1. k \in 1..(a + b) /\ u[k].part = c
      BY <1>1 DEF Places, u, a, b
    <3>2. k \notin 1..a
      BY <1>1, <3>1 DEF Places, u, a
    <3> QED
      BY <1>1, <3>1, <3>2 DEF a, b
  <2>2. ASSUME NEW k \in a + 1..a + b PROVE k \in Places(u, c)
    <3>1. k - a \in 1..b /\ a + (k - a) = k /\ k \in 1..(a + b)
      BY <1>1 DEF a, b
    <3>2. t[k - a].part = c
      BY <1>1, <3>1 DEF Places, b
    <3>3. u[k] = t[k - a]
      BY <1>1, <3>1 DEF u, a, b
    <3> QED
      BY <1>1, <3>1, <3>2, <3>3 DEF Places, u, a, b
  <2> QED
    BY <2>1, <2>2
<1>3. a \in Nat /\ b \in Nat
  BY <1>1 DEF a, b
<1>4. /\ Cardinality(a + 1..a + b) = b
      /\ \A n \in 1..b : Nth(a + 1..a + b, n) = a + n
  BY <1>3, NthInterval
<1>5. \A n \in 1..b : u[a + n] = t[n]
  BY <1>1 DEF u, a, b
<1>6. Pick(u, a + 1..a + b) = [n \in 1..b |-> t[n]]
  BY <1>4, <1>5 DEF Pick
<1>7. t = [n \in 1..b |-> t[n]]
  BY <1>1 DEF b
<1> QED
  BY <1>2, <1>6, <1>7 DEF OfPart, u

(***************************************************************************)
(* What output_item.done holds keeps its form when it is taken apart and   *)
(* sorted again.                                                           *)
(***************************************************************************)
LEMMA SortedStays ==
    ASSUME NEW pieces \in Seq(Piece)
    PROVE  ByPart(FlattenSeq(ByPart(pieces))) = ByPart(pieces)
<1> DEFINE PartsOf(s) == {s[k].part : k \in DOMAIN s}
           C == PartsOf(pieces)
           m == Cardinality(C)
           c(n) == Nth(C, n)
           B == ByPart(pieces)
<1>1. /\ C \in SUBSET Nat /\ IsFiniteSet(C) /\ m \in Nat
      /\ \A n \in 1..m : c(n) \in C
      /\ \A d \in C : \E n \in 1..m : c(n) = d
      /\ \A j, n \in 1..m : j # n => c(j) # c(n)
  <2>1. C \in SUBSET Nat
    <3>1. \A k \in DOMAIN pieces : pieces[k] \in Piece
      OBVIOUS
    <3>2. \A k \in DOMAIN pieces : pieces[k].part \in Parts \cup {0}
      BY <3>1 DEF Piece
    <3> QED
      <4>1. \A k \in DOMAIN pieces : pieces[k].part \in Nat
        <5>1. Parts \cup {0} \subseteq Nat
          BY BridgeAssumption
        <5> QED
          BY <3>2, <5>1
      <4> QED
        BY <4>1
  <2>2. IsFiniteSet(C) /\ m \in Nat
    <3> DEFINE f == [k \in DOMAIN pieces |-> pieces[k].part]
    <3>1. IsFiniteSet(DOMAIN pieces)
      BY FS_Interval
    <3>2. f \in Surjection(DOMAIN pieces, C)
      BY DEF Surjection
    <3> QED
      BY <3>1, <3>2, FS_Surjection, FS_CardinalityType
  <2> HIDE DEF C
  <2>3. \A n \in 1..m : c(n) \in C
    BY <2>1, <2>2, NthIsThere
  <2>4. \A d \in C : \E n \in 1..m : c(n) = d
    BY <2>1, <2>2, NthIs
  <2>5. ASSUME NEW j \in 1..m, NEW n \in 1..m, j # n PROVE c(j) # c(n)
    <3>1. j < n \/ n < j
      BY <2>5
    <3>2. c(j) < c(n) \/ c(n) < c(j)
      BY <2>1, <2>2, <3>1, NthOrder
    <3>3. c(j) \in Nat /\ c(n) \in Nat
      BY <2>1, <2>3
    <3> QED
      BY <3>2, <3>3
  <2> QED
    BY <2>1, <2>2, <2>3, <2>4, <2>5
<1>2. \A s : ByPart(s) = [n \in 1..Cardinality(PartsOf(s)) |-> OfPart(s, Nth(PartsOf(s), n))]
  BY DEF ByPart, OfPart, Places
<1>3. B \in Seq(Seq(Piece)) /\ Len(B) = m /\ \A n \in 1..m : B[n] = OfPart(pieces, c(n))
  <2>1. ASSUME NEW d PROVE OfPart(pieces, d) \in Seq(Piece)
    BY PickType DEF OfPart, Places
  <2> HIDE DEF C
  <2>2. B = [n \in 1..m |-> OfPart(pieces, c(n))]
    BY <1>2 DEF C
  <2> QED
    BY <1>1, <2>1, <2>2, SMTT(60)
<1>4. ASSUME NEW n \in 1..m
      PROVE  /\ Places(B[n], c(n)) = DOMAIN B[n] /\ DOMAIN B[n] # {}
             /\ \A j \in 1..m : j # n => Places(B[n], c(j)) = {}
  <2> DEFINE P == Places(pieces, c(n))
  <2>1. P \in SUBSET (DOMAIN pieces) /\ \A k \in P : pieces[k].part = c(n)
    BY DEF Places
  <2>2. B[n] = Pick(pieces, P)
    BY <1>3 DEF OfPart
  <2>3. P # {}
    <3>1. c(n) \in C
      BY <1>1
    <3>2. PICK k \in DOMAIN pieces : pieces[k].part = c(n)
      BY <3>1
    <3> QED
      BY <3>2 DEF Places
  <2> HIDE DEF P, B, C
  <2>4. Selects(B[n], pieces, P)
    BY <2>1, <2>2, PickIs
  <2>5. \A k \in DOMAIN B[n] : B[n][k].part = c(n)
    BY <2>1, <2>4 DEF Selects
  <2>6. DOMAIN B[n] # {}
    BY <2>3, <2>4 DEF Selects
  <2>7. \A j \in 1..m : j # n => c(j) # c(n)
    BY <1>1
  <2> QED
    BY <2>5, <2>6, <2>7 DEF Places
<1> HIDE DEF B, C, c, m
<1>5. CASE m = 0
  <2>1. B = <<>> /\ FlattenSeq(<<>>) = <<>>
    <3>1. B = <<>>
      BY <1>3, <1>5
    <3>2. FlattenSeq(<<>>) = <<>>
      BY DEF FlattenSeq
    <3> QED
      BY <3>1, <3>2
  <2>2. PartsOf(<<>>) = {} /\ Cardinality(PartsOf(<<>>)) = 0
    BY FS_EmptySet
  <2>3. ByPart(<<>>) = <<>>
    BY <1>2, <2>2
  <2> QED
    BY <2>1, <2>3 DEF B
<1>6. CASE m # 0
  <2>1. PICK f \in [1..m -> Seq(Piece)] :
           /\ FlattenSeq(B) = f[m]
           /\ f[1] = B[1]
           /\ \A i \in 2..m : f[i] = f[i - 1] \o B[i]
    <3>1. B # <<>>
      BY <1>1, <1>3, <1>6
    <3>2. Flattened(Piece, B)
      BY <1>3, <3>1, FlattensInOrder
    <3> QED
      BY <1>3, <3>2 DEF Flattened
  <2> DEFINE Sorted(i) ==
               /\ \A n \in 1..m : n <= i => OfPart(f[i], c(n)) = B[n]
               /\ \A n \in 1..m : ~(n <= i) => Places(f[i], c(n)) = {}
               /\ PartsOf(f[i]) \subseteq C
             Bad == {i \in 1..m : ~Sorted(i)}
  <2>2. ASSUME NEW n \in 1..m
        PROVE  B[n] \in Seq(Piece) /\ PartsOf(B[n]) \subseteq C
    <3>1. B[n] \in Seq(Piece)
      BY <1>3
    <3>2. \A k \in DOMAIN B[n] : B[n][k].part = c(n)
      BY <1>4 DEF Places
    <3> QED
      BY <1>1, <3>1, <3>2
  <2>3. Bad = {}
    <3> SUFFICES ASSUME Bad # {} PROVE FALSE
      OBVIOUS
    <3>1. PICK i \in Bad : \A j \in Bad : i <= j
      <4>1. Bad \in SUBSET Nat
        BY <1>1
      <4> HIDE DEF Bad
      <4> QED
        BY <4>1, Least
    <3>2. i \in 1..m /\ ~Sorted(i)
      OBVIOUS
    <3> HIDE DEF Bad
    <3>3. CASE i = 1
      <4>1. f[1] = <<>> \o B[1] /\ <<>> \in Seq(Piece)
        BY <2>1, <2>2, <3>2, <3>3
      <4>2. Places(<<>>, c(1)) = {}
        BY DEF Places
      <4>3. OfPart(f[1], c(1)) = B[1]
        <5>1. B[1] \in Seq(Piece) /\ Places(B[1], c(1)) = DOMAIN B[1]
          BY <1>4, <2>2, <3>2, <3>3
        <5>2. OfPart(<<>> \o B[1], c(1)) = B[1]
          BY <4>1, <4>2, <5>1, LastOfPart
        <5> QED
          BY <4>1, <5>2
      <4>4. \A n \in 1..m : n <= 1 => n = 1
        BY <1>1
      <4>5. \A n \in 1..m : ~(n <= 1) => n # 1
        OBVIOUS
      <4>6. \A n \in 1..m : ~(n <= 1) => Places(f[1], c(n)) = {}
        BY <1>4, <2>1, <3>2, <3>3, <4>5
      <4>7. PartsOf(f[1]) \subseteq C
        BY <2>1, <2>2, <3>2, <3>3
      <4>8. Sorted(1)
        BY <4>3, <4>4, <4>6, <4>7
      <4> QED
        BY <3>2, <3>3, <4>8
    <3>4. CASE i # 1
      <4>1. i \in 2..m /\ i - 1 \in 1..m /\ ~(i <= i - 1)
        BY <1>1, <3>2, <3>4
      <4> DEFINE h == i - 1
      <4>2. Sorted(h)
        BY <3>1, <4>1 DEF Bad
      <4>3. f[i] = f[h] \o B[i] /\ f[h] \in Seq(Piece) /\ B[i] \in Seq(Piece)
        BY <2>1, <2>2, <3>2, <4>1
      <4>4. \A n \in 1..m : n <= i => n <= h \/ n = i
        BY <1>1, <3>2
      <4>5. \A n \in 1..m : ~(n <= i) => ~(n <= h) /\ n # i
        BY <1>1, <3>2
      <4>6. i \in 1..m /\ h \in 1..m /\ ~(i <= h) /\ \A n \in 1..m : n <= h => n # i
        BY <1>1, <3>2, <4>1
      <4> HIDE DEF h
      <4>7. ASSUME NEW n \in 1..m, n <= i PROVE OfPart(f[i], c(n)) = B[n]
        <5>1. CASE n <= h
          <6>1. OfPart(f[h], c(n)) = B[n] /\ Places(B[i], c(n)) = {}
            BY <1>4, <4>2, <4>6, <5>1
          <6> QED
            BY <4>3, <6>1, OtherParts
        <5>2. CASE n = i
          <6>1. Places(f[h], c(i)) = {} /\ Places(B[i], c(i)) = DOMAIN B[i]
            BY <1>4, <4>2, <4>6
          <6> QED
            BY <4>3, <5>2, <6>1, LastOfPart
        <5> QED
          BY <4>4, <4>7, <5>1, <5>2
      <4>8. \A k \in DOMAIN f[i] : (\E j \in DOMAIN f[h] : f[i][k] = f[h][j])
                                   \/ (\E j \in DOMAIN B[i] : f[i][k] = B[i][j])
        <5> SUFFICES ASSUME NEW k \in DOMAIN (f[h] \o B[i])
                     PROVE  \/ \E j \in DOMAIN f[h] : (f[h] \o B[i])[k] = f[h][j]
                            \/ \E j \in DOMAIN B[i] : (f[h] \o B[i])[k] = B[i][j]
          BY <4>3
        <5> DEFINE s == f[h]
                   t == B[i]
        <5>0. s \in Seq(Piece) /\ t \in Seq(Piece)
          BY <4>3
        <5> HIDE DEF s, t
        <5>1. /\ Len(s) \in Nat /\ Len(t) \in Nat
              /\ DOMAIN s = 1..Len(s) /\ DOMAIN t = 1..Len(t)
              /\ DOMAIN (s \o t) = 1..(Len(s) + Len(t))
              /\ \A x \in 1..Len(s) : (s \o t)[x] = s[x]
              /\ \A x \in 1..Len(t) : (s \o t)[Len(s) + x] = t[x]
          BY <5>0, Joined
        <5>2. k \in 1..(Len(s) + Len(t))
          BY <5>1 DEF s, t
        <5>3. k \in 1..Len(s) \/ (k - Len(s) \in 1..Len(t) /\ Len(s) + (k - Len(s)) = k)
          BY <5>1, <5>2
        <5>4. \/ \E j \in DOMAIN s : (s \o t)[k] = s[j]
              \/ \E j \in DOMAIN t : (s \o t)[k] = t[j]
          BY <5>1, <5>3
        <5> QED
          BY <5>4 DEF s, t
      <4>9. ASSUME NEW n \in 1..m, ~(n <= i) PROVE Places(f[i], c(n)) = {}
        <5>1. Places(f[h], c(n)) = {} /\ Places(B[i], c(n)) = {}
          BY <1>4, <4>2, <4>5, <4>6, <4>9
        <5> QED
          BY <4>8, <5>1 DEF Places
      <4>10. PartsOf(f[i]) \subseteq C
        <5>1. PartsOf(f[h]) \subseteq C /\ PartsOf(B[i]) \subseteq C
          BY <2>2, <4>2, <4>6
        <5> QED
          BY <4>8, <5>1
      <4>11. Sorted(i)
        BY <4>7, <4>9, <4>10
      <4> QED
        BY <3>2, <4>11
    <3> QED
      BY <3>3, <3>4
  <2>4. m \in 1..m /\ \A n \in 1..m : n <= m
    BY <1>1, <1>6
  <2>5. Sorted(m)
    BY <2>3, <2>4
  <2> HIDE DEF Bad
  <2>6. \A n \in 1..m : OfPart(f[m], c(n)) = B[n]
    BY <2>4, <2>5
  <2>7. PartsOf(f[m]) = C
    <3>1. PartsOf(f[m]) \subseteq C
      BY <2>5
    <3>2. ASSUME NEW d \in C PROVE d \in PartsOf(f[m])
      <4>1. PICK n \in 1..m : c(n) = d
        BY <1>1
      <4>2. Places(f[m], d) # {}
        <5>1. ASSUME Places(f[m], d) = {} PROVE FALSE
          <6>1. OfPart(f[m], d) = <<>>
            BY <5>1, FS_EmptySet DEF OfPart, Pick
          <6> QED
            BY <1>4, <2>6, <4>1, <6>1
        <5> QED
          BY <5>1
      <4> QED
        BY <4>2 DEF Places
    <3> QED
      BY <3>1, <3>2
  <2>8. ByPart(f[m]) = [n \in 1..m |-> OfPart(f[m], c(n))]
    BY <1>2, <2>7 DEF m, c
  <2>9. B = [n \in 1..m |-> B[n]]
    BY <1>1, <1>3
  <2> QED
    BY <2>1, <2>6, <2>8, <2>9 DEF B
<1> QED
  BY <1>5, <1>6

-----------------------------------------------------------------------------
\* The client's stream and what is pending, as one sequence.
LEMMA OutIs ==
    ASSUME TypeOK
    PROVE  /\ Out \in Seq(Event)
           /\ Len(forwarded) \in Nat /\ Len(pending) \in Nat
           /\ Len(Out) = Len(forwarded) + Len(pending)
           /\ \A k \in 1..Len(forwarded) : Out[k] = forwarded[k]
           /\ \A k \in 1..Len(pending) : Out[Len(forwarded) + k] = pending[k]
BY DEF TypeOK, Out

\* The event about to be consumed is in Out.
LEMMA HeadOut ==
    ASSUME TypeOK, pending # <<>>
    PROVE  /\ Len(forwarded) + 1 \in DOMAIN Out
           /\ Out[Len(forwarded) + 1] = Head(pending)
           /\ Head(pending) \in Event
<1>1. /\ pending \in Seq(Event) /\ Len(pending) # 0 /\ Len(pending) \in Nat
      /\ Head(pending) = pending[1] /\ Head(pending) \in Event
  BY DEF TypeOK
<1> QED
  BY <1>1, OutIs

\* A yield, or nothing at all, leaves Out and the bookkeeping alone.
LEMMA Quiet ==
    ASSUME TypeOK, Yield \/ UNCHANGED vars
    PROVE  Out' = Out /\ UNCHANGED <<upstream, bookkeeping>>
<1>1. CASE UNCHANGED vars
  BY <1>1 DEF vars, Out
<1>2. CASE Yield
  <2>1. /\ pending \in Seq(Event) /\ forwarded \in Seq(Event) /\ pending # <<>>
        /\ pending' = Tail(pending) /\ forwarded' = Append(forwarded, Head(pending))
    BY <1>2 DEF TypeOK, Yield
  <2>2. Append(forwarded, Head(pending)) \o Tail(pending) = forwarded \o pending
    BY <2>1
  <2> QED
    BY <1>2, <2>1, <2>2 DEF Out, Yield
<1> QED
  BY <1>1, <1>2

-----------------------------------------------------------------------------
\* The events that bring pieces, and the piece that such an event brings.
DeltaTypes == {"text.delta", "args.delta"}
PieceOf(e) == [of |-> e.of, part |-> e.part]

(***************************************************************************)
(* What the upstream may say next, and what it then remembers of the item  *)
(* the event is about.                                                     *)
(***************************************************************************)
Utterance(e) ==
    /\ e.item \in {e.of, NoItem}
    /\ count = 0 <=> e.type = "created"
    /\ ended' \in BOOLEAN
    /\ told' \in [Items -> Telling]
    /\ \A j \in Items : /\ told'[j].lateParts \subseteq told'[j].parts
                        /\ told'[j].parts \subseteq told'[j].used
    /\ e.type \in Lifecycle => e.of = NoItem /\ UNCHANGED <<open, told>>
    /\ e.type \notin Lifecycle => LET i == e.of IN
        /\ i \in Items
        /\ ~told[i].done
        /\ \A j \in Items \ {i} : told'[j] = told[j]
        /\ told'[i].done <=> e.type = "item.done"
        /\ IF e.type = "item.done" THEN i \in open /\ open' = open \ {i}
           ELSE open' = open \cup {i}
        /\ IF e.type = "item.added"
           THEN ~told[i].added /\ told'[i].added /\ (told'[i].late <=> Begun(i))
           ELSE told'[i].added = told[i].added /\ told'[i].late = told[i].late
        /\ IF e.type = "part.added"
           THEN /\ e.part \notin told[i].parts
                /\ told'[i].lateParts = told[i].lateParts \cup ({e.part} \cap told[i].used)
           ELSE told'[i].lateParts = told[i].lateParts
        /\ told[i].used \subseteq told'[i].used
        /\ Begun(i) => Begun(i)'
        /\ e.type \in MessageTypes => i \in Messages /\ e.part \in told'[i].used
        /\ e.type = "args.delta" => i \in Calls
        /\ e.item = NoItem => told[i].added /\ e.type \in TextPartTypes
        /\ told'[i].pieces = IF e.type \in DeltaTypes THEN Append(told[i].pieces, PieceOf(e))
                             ELSE told[i].pieces
        /\ e.type = "item.done" => e.content = ByPart(told[i].pieces)

\* The fields of the events the upstream makes.
LEMMA PlainIs ==
    ASSUME NEW type \in EventTypes, NEW i \in Items \cup {NoItem},
           NEW c \in Parts \cup {0}
    PROVE  /\ Plain(type, i, c) \in Event
           /\ Plain(type, i, c).type = type /\ Plain(type, i, c).item = i
           /\ Plain(type, i, c).of = i /\ Plain(type, i, c).part = c
<1>1. <<>> \in Seq(Seq(Piece))
  OBVIOUS
<1> QED
  BY <1>1 DEF Plain, Event

\* The upstream changes what it told of one item.
LEMMA Recalled ==
    ASSUME TypeOK, NEW i \in Items, NEW t \in Telling,
           t.lateParts \subseteq t.parts, t.parts \subseteq t.used,
           told' = [told EXCEPT ![i] = t]
    PROVE  /\ told' \in [Items -> Telling]
           /\ told'[i] = t
           /\ \A j \in Items \ {i} : told'[j] = told[j]
           /\ \A j \in Items : /\ told'[j].lateParts \subseteq told'[j].parts
                               /\ told'[j].parts \subseteq told'[j].used
           /\ Begun(i)' <=> t.used # {} \/ t.pieces # <<>>
BY DEF TypeOK, Begun

\* Every step of the upstream is one event taken.
LEMMA Spoken ==
    ASSUME BridgeInv, Upstream
    PROVE  \E e \in Event : Take(e) /\ Utterance(e)
<1>0. TypeOK /\ Beginning /\ Booked
  BY DEF BridgeInv
<1>1. /\ told \in [Items -> Telling] /\ open \subseteq Items
      /\ \A i \in Items : /\ told[i].lateParts \subseteq told[i].parts
                          /\ told[i].parts \subseteq told[i].used
      /\ ended \in BOOLEAN /\ count \in Nat
      /\ NoItem \notin Items /\ Items = Messages \cup Calls
  BY <1>0, BridgeAssumption DEF TypeOK, Items
<1> USE DEF EventTypes, MessageTypes, TextPartTypes, DeltaTypes, Lifecycle, Ends
<1>2. ASSUME NEW type,
             (type = "created" /\ UpCreated) \/ (type \in Ends /\ UpEnds(type))
      PROVE  \E e \in Event : Take(e) /\ Utterance(e)
  <2> DEFINE e == Plain(type, NoItem, 0)
  <2>0. type \in EventTypes /\ type \in Lifecycle
    BY <1>2
  <2>1. e \in Event /\ e.type = type /\ e.item = NoItem /\ e.of = NoItem
    BY <2>0, PlainIs
  <2> HIDE DEF e
  <2>2. /\ Take(e) /\ UNCHANGED <<open, told>> /\ ended' \in BOOLEAN
        /\ count = 0 <=> type = "created"
    <3>1. CASE type = "created" /\ UpCreated
      BY <1>1, <3>1 DEF UpCreated, Started, e
    <3>2. CASE type \in Ends /\ UpEnds(type)
      BY <1>1, <3>2 DEF UpEnds, Started, e
    <3> QED
      BY <1>2, <3>1, <3>2
  <2>3. Utterance(e)
    BY <1>1, <2>0, <2>1, <2>2 DEF Utterance
  <2> QED
    BY <2>1, <2>2, <2>3
<1>3. ASSUME NEW i \in Items, UpItemAdded(i)
      PROVE  \E e \in Event : Take(e) /\ Utterance(e)
  <2> DEFINE e == Plain("item.added", i, 0)
             t == [told[i] EXCEPT !.added = TRUE, !.late = Begun(i)]
  <2>1. e \in Event /\ e.type = "item.added" /\ e.item = i /\ e.of = i
    BY PlainIs, SMTT(60)
  <2> HIDE DEF e
  <2>2. /\ Take(e) /\ told' = [told EXCEPT ![i] = t] /\ open' = open \cup {i}
        /\ ended' = ended /\ count # 0 /\ ~told[i].done /\ ~told[i].added
    BY <1>3, SMTT(60) DEF UpItemAdded, CanWorkOn, Started, Work, e
  <2>3. /\ t \in Telling
        /\ t.added /\ t.late = Begun(i) /\ t.parts = told[i].parts
        /\ t.lateParts = told[i].lateParts /\ t.used = told[i].used
        /\ t.pieces = told[i].pieces /\ t.done = told[i].done
    BY <1>1, ZenonT(60) DEF Telling, Begun
  <2> HIDE DEF t
  <2>4. /\ told' \in [Items -> Telling] /\ told'[i] = t
        /\ \A j \in Items \ {i} : told'[j] = told[j]
        /\ \A j \in Items : /\ told'[j].lateParts \subseteq told'[j].parts
                            /\ told'[j].parts \subseteq told'[j].used
        /\ Begun(i) => Begun(i)'
    BY <1>0, <1>1, <2>1, <2>2, <2>3, Recalled DEF Begun
  <2>5. Utterance(e)
    BY <1>1, <2>1, <2>2, <2>3, <2>4 DEF Utterance
  <2> QED
    BY <2>1, <2>2, <2>5, SMTT(60)
<1>4. ASSUME NEW i \in Items, UpItemDone(i)
      PROVE  \E e \in Event : Take(e) /\ Utterance(e)
  <2> DEFINE t == [told[i] EXCEPT !.done = TRUE]
  <2>1. PICK e : e = [Plain("item.done", i, 0) EXCEPT !.content = ByPart(told[i].pieces)]
    OBVIOUS
  <2>2. /\ e \in Event /\ e.type = "item.done" /\ e.item = i /\ e.of = i
        /\ e.content = ByPart(told[i].pieces)
    <3>1. ByPart(told[i].pieces) \in Seq(Seq(Piece))
      BY <1>1, ByPartType DEF Telling
    <3> QED
      BY <1>1, <2>1, <3>1 DEF Event, Plain
  <2>3. /\ Take(e) /\ told' = [told EXCEPT ![i] = t] /\ open' = open \ {i}
        /\ ended' = ended /\ i \in open
    BY <1>1, <1>4, <2>1 DEF UpItemDone
  <2>4. count # 0 /\ ~told[i].done
    BY <1>0, <2>3 DEF Beginning, Booked
  <2>5. /\ t \in Telling
        /\ t.added = told[i].added /\ t.late = told[i].late
        /\ t.parts = told[i].parts /\ t.lateParts = told[i].lateParts
        /\ t.used = told[i].used /\ t.pieces = told[i].pieces /\ t.done
    BY <1>1, ZenonT(60) DEF Telling
  <2> HIDE DEF t
  <2>6. /\ told' \in [Items -> Telling] /\ told'[i] = t
        /\ \A j \in Items \ {i} : told'[j] = told[j]
        /\ \A j \in Items : /\ told'[j].lateParts \subseteq told'[j].parts
                            /\ told'[j].parts \subseteq told'[j].used
        /\ Begun(i) => Begun(i)'
    BY <1>0, <1>1, <2>3, <2>5, Recalled DEF Begun
  <2>7. Utterance(e)
    BY <1>1, <2>2, <2>3, <2>4, <2>5, <2>6 DEF Utterance
  <2> QED
    BY <2>2, <2>3, <2>7
<1>5. ASSUME NEW i \in Calls, UpArguments(i)
      PROVE  \E e \in Event : Take(e) /\ Utterance(e)
  <2> DEFINE e == Plain("args.delta", i, 0)
             t == [told[i] EXCEPT !.pieces = Append(@, [of |-> i, part |-> 0])]
  <2>1. /\ e \in Event /\ e.type = "args.delta" /\ e.item = i /\ e.of = i
        /\ e.part = 0 /\ i \in Items
    BY <1>1, PlainIs
  <2> HIDE DEF e
  <2>2. /\ Take(e) /\ told' = [told EXCEPT ![i] = t] /\ open' = open \cup {i}
        /\ ended' = ended /\ count # 0 /\ ~told[i].done
    BY <1>5 DEF UpArguments, Writable, CanWorkOn, Started, Work, e
  <2>3. /\ t \in Telling
        /\ t.added = told[i].added /\ t.late = told[i].late
        /\ t.parts = told[i].parts /\ t.lateParts = told[i].lateParts
        /\ t.used = told[i].used /\ t.pieces # <<>> /\ t.done = told[i].done
        /\ t.pieces = Append(told[i].pieces, [of |-> i, part |-> 0])
    <3> DEFINE piece == [of |-> i, part |-> 0]
    <3>1. piece \in Piece /\ told[i].pieces \in Seq(Piece)
      BY <1>1, <2>1 DEF Telling, Piece
    <3> HIDE DEF piece
    <3>2. /\ Append(told[i].pieces, piece) \in Seq(Piece)
          /\ Append(told[i].pieces, piece) # <<>>
      BY <3>1
    <3> QED
      BY <1>1, <2>1, <3>2, ZenonT(60) DEF Telling, piece
  <2> HIDE DEF t
  <2>4. /\ told' \in [Items -> Telling] /\ told'[i] = t
        /\ \A j \in Items \ {i} : told'[j] = told[j]
        /\ \A j \in Items : /\ told'[j].lateParts \subseteq told'[j].parts
                            /\ told'[j].parts \subseteq told'[j].used
        /\ Begun(i) => Begun(i)'
    BY <1>0, <1>1, <2>1, <2>2, <2>3, Recalled DEF Begun
  <2>5. Utterance(e)
    BY <1>1, <1>5, <2>1, <2>2, <2>3, <2>4 DEF Utterance, PieceOf
  <2> QED
    BY <2>1, <2>2, <2>5
<1>6. ASSUME NEW i \in Messages, NEW c \in Parts, UpPartAdded(i, c)
      PROVE  \E e \in Event : Take(e) /\ Utterance(e)
  <2> DEFINE e == Plain("part.added", i, c)
             t == [told[i] EXCEPT !.parts = @ \cup {c}, !.used = @ \cup {c},
                                  !.lateParts = @ \cup ({c} \cap told[i].used)]
  <2>1. /\ e \in Event /\ e.type = "part.added" /\ e.item = i /\ e.of = i
        /\ e.part = c /\ i \in Items
    BY <1>1, PlainIs
  <2> HIDE DEF e
  <2>2. /\ Take(e) /\ told' = [told EXCEPT ![i] = t] /\ open' = open \cup {i}
        /\ ended' = ended /\ count # 0 /\ ~told[i].done /\ c \notin told[i].parts
    BY <1>6 DEF UpPartAdded, Writable, CanWorkOn, Started, Work, e
  <2>3. /\ t \in Telling
        /\ t.added = told[i].added /\ t.late = told[i].late
        /\ t.parts = told[i].parts \cup {c}
        /\ t.lateParts = told[i].lateParts \cup ({c} \cap told[i].used)
        /\ t.used = told[i].used \cup {c} /\ t.done = told[i].done
        /\ t.pieces = told[i].pieces
    <3> DEFINE late == told[i].lateParts \cup ({c} \cap told[i].used)
           parts == told[i].parts \cup {c}
           used == told[i].used \cup {c}
    <3>1. /\ late \in SUBSET Parts /\ used \in SUBSET Parts /\ parts \in SUBSET Parts
          /\ told[i] \in Telling
      BY <1>1, <2>1 DEF Telling
    <3>2. t = [told[i] EXCEPT !.parts = parts, !.used = used, !.lateParts = late]
      OBVIOUS
    <3> HIDE DEF t, late, parts, used
    <3>3. /\ t \in Telling
          /\ t.added = told[i].added /\ t.late = told[i].late
          /\ t.parts = parts /\ t.lateParts = late
          /\ t.used = used /\ t.done = told[i].done
          /\ t.pieces = told[i].pieces
      <4>1. t \in Telling
        BY <3>1, <3>2, ZenonT(60) DEF Telling
      <4>2. t.added = told[i].added /\ t.late = told[i].late
        BY <3>1, <3>2, ZenonT(60) DEF Telling
      <4>3. t.parts = parts /\ t.lateParts = late /\ t.used = used
        BY <3>1, <3>2, ZenonT(60) DEF Telling
      <4>4. t.done = told[i].done /\ t.pieces = told[i].pieces
        BY <3>1, <3>2, ZenonT(60) DEF Telling
      <4> QED
        BY <4>1, <4>2, <4>3, <4>4
    <3> QED
      BY <3>3 DEF late, parts, used
  <2> HIDE DEF t
  <2>4. t.lateParts \subseteq t.parts /\ t.parts \subseteq t.used
    BY <1>1, <2>1, <2>3
  <2>5. /\ told' \in [Items -> Telling] /\ told'[i] = t
        /\ \A j \in Items \ {i} : told'[j] = told[j]
        /\ \A j \in Items : /\ told'[j].lateParts \subseteq told'[j].parts
                            /\ told'[j].parts \subseteq told'[j].used
        /\ Begun(i) => Begun(i)'
    BY <1>0, <1>1, <2>1, <2>2, <2>3, <2>4, Recalled DEF Begun
  <2>6. Utterance(e)
    BY <1>1, <1>6, <2>1, <2>2, <2>3, <2>4, <2>5 DEF Utterance
  <2> QED
    BY <2>1, <2>2, <2>6
<1>7. ASSUME NEW i \in Messages, NEW c \in Parts, NEW type \in TextPartTypes,
             UpText(i, c, type)
      PROVE  \E e \in Event : Take(e) /\ Utterance(e)
  <2> DEFINE t == [told[i] EXCEPT !.used = @ \cup {c},
                     !.pieces = IF type = "text.delta"
                                THEN Append(@, [of |-> i, part |-> c]) ELSE @]
  <2>1. PICK e \in Naming(Plain(type, i, c)) : Take(e)
    BY <1>7 DEF UpText
  <2>2. /\ e \in Event /\ e.type = type /\ e.of = i /\ e.part = c /\ i \in Items
        /\ e.item = i \/ (e.item = NoItem /\ told[i].added)
    BY <1>1, PlainIs, SMTT(60) DEF Naming, Event
  <2>3. /\ told' = [told EXCEPT ![i] = t] /\ open' = open \cup {i}
        /\ ended' = ended /\ count # 0 /\ ~told[i].done
    BY <1>7 DEF UpText, Writable, CanWorkOn, Started, Work
  <2>4. /\ t \in Telling
        /\ t.added = told[i].added /\ t.late = told[i].late
        /\ t.parts = told[i].parts /\ t.lateParts = told[i].lateParts
        /\ t.used = told[i].used \cup {c} /\ t.done = told[i].done
        /\ t.pieces = IF type = "text.delta" THEN Append(told[i].pieces, [of |-> i, part |-> c])
                      ELSE told[i].pieces
    <3> DEFINE piece == [of |-> i, part |-> c]
    <3>1. piece \in Piece /\ told[i].pieces \in Seq(Piece)
      BY <1>1, <2>2 DEF Telling, Piece
    <3> HIDE DEF piece
    <3> DEFINE pieces == IF type = "text.delta"
                         THEN Append(told[i].pieces, piece) ELSE told[i].pieces
    <3>2. pieces \in Seq(Piece)
      BY <3>1
    <3>3. t = [told[i] EXCEPT !.used = @ \cup {c}, !.pieces = pieces]
      BY DEF piece
    <3>4. told[i] \in Telling /\ told[i].used \cup {c} \in SUBSET Parts
      BY <1>1, <2>2 DEF Telling
    <3> HIDE DEF t, pieces
    <3>5. /\ t \in Telling
          /\ t.added = told[i].added /\ t.late = told[i].late
          /\ t.parts = told[i].parts /\ t.lateParts = told[i].lateParts
          /\ t.used = told[i].used \cup {c} /\ t.done = told[i].done
          /\ t.pieces = pieces
      BY <3>2, <3>3, <3>4 DEF Telling
    <3> QED
      BY <3>5 DEF pieces, piece
  <2> HIDE DEF t
  <2>5. t.lateParts \subseteq t.parts /\ t.parts \subseteq t.used
    BY <1>1, <2>2, <2>4
  <2>6. /\ told' \in [Items -> Telling] /\ told'[i] = t
        /\ \A j \in Items \ {i} : told'[j] = told[j]
        /\ \A j \in Items : /\ told'[j].lateParts \subseteq told'[j].parts
                            /\ told'[j].parts \subseteq told'[j].used
        /\ Begun(i) => Begun(i)'
    BY <1>0, <1>1, <2>2, <2>3, <2>4, <2>5, Recalled DEF Begun
  <2>7. Utterance(e)
    BY <1>1, <1>7, <2>2, <2>3, <2>4, <2>5, <2>6 DEF Utterance, PieceOf
  <2> QED
    BY <2>1, <2>2, <2>7
<1>8. ASSUME NEW i \in Messages, NEW c \in Parts, UpOther(i, c)
      PROVE  \E e \in Event : Take(e) /\ Utterance(e)
  <2> DEFINE e == Plain("other", i, c)
  <2>1. /\ e \in Event /\ e.type = "other" /\ e.item = i /\ e.of = i
        /\ e.part = c /\ i \in Items
    BY <1>1, PlainIs
  <2> HIDE DEF e
  <2>2. /\ Take(e) /\ told' = [told EXCEPT ![i] = told[i]] /\ open' = open \cup {i}
        /\ ended' = ended /\ count # 0 /\ ~told[i].done /\ c \in told[i].parts
    BY <1>8 DEF UpOther, Writable, CanWorkOn, Started, Work, e
  <2>3. told[i] \in Telling /\ c \in told[i].used
    BY <1>1, <2>1, <2>2
  <2>4. /\ told' \in [Items -> Telling] /\ told'[i] = told[i]
        /\ \A j \in Items \ {i} : told'[j] = told[j]
        /\ \A j \in Items : /\ told'[j].lateParts \subseteq told'[j].parts
                            /\ told'[j].parts \subseteq told'[j].used
        /\ Begun(i) => Begun(i)'
    BY <1>0, <1>1, <2>1, <2>2, <2>3, Recalled DEF Begun
  <2>5. Utterance(e)
    BY <1>1, <1>8, <2>1, <2>2, <2>3, <2>4 DEF Utterance
  <2> QED
    BY <2>1, <2>2, <2>5
<1> QED
  BY <1>2, <1>3, <1>4, <1>5, <1>6, <1>7, <1>8 DEF Upstream

-----------------------------------------------------------------------------
\* What tee() puts before e.
NeedsItem(e) ==
    e.type \in MessageTypes /\ e.item # NoItem /\ e.item \notin announcedItems
NeedsPart(e) ==
    /\ e.type \in TextPartTypes
    /\ e.item # NoItem
    /\ <<e.item, e.part>> \notin announcedParts

\* Announcements carry over the item and part, and the rewriting only the id.
LEMMA Fields ==
    ASSUME NEW e \in Event
    PROVE  /\ Synthetic("item.added", e) \in Event
           /\ Synthetic("item.added", e).type = "item.added"
           /\ Synthetic("item.added", e).item = e.item
           /\ Synthetic("item.added", e).of = e.of
           /\ Synthetic("part.added", e) \in Event
           /\ Synthetic("part.added", e).type = "part.added"
           /\ Synthetic("part.added", e).item = e.item
           /\ Synthetic("part.added", e).of = e.of
           /\ Synthetic("part.added", e).part = e.part
           /\ MaybeRewriteId(e) \in Event
           /\ MaybeRewriteId(e).type = e.type
           /\ MaybeRewriteId(e).item = e.item
           /\ MaybeRewriteId(e).of = e.of
           /\ MaybeRewriteId(e).part = e.part
           /\ MaybeRewriteId(e).content = e.content
           /\ e.type \in Lifecycle => MaybeRewriteId(e).id = RewriteId
<1>1. <<>> \in Seq(Seq(Piece)) /\ {"item.added", "part.added"} \subseteq EventTypes
  BY DEF EventTypes, MessageTypes
<1> QED
  BY <1>1 DEF Synthetic, MaybeRewriteId, Event

(***************************************************************************)
(* Taking e appends to Out the announcements it needs and then e itself.   *)
(***************************************************************************)
LEMMA Took ==
    ASSUME TypeOK, NEW e \in Event, Take(e)
    PROVE  \E n, m \in Nat :
           /\ DOMAIN Out = 1..n /\ DOMAIN Out' = 1..m /\ n < m
           /\ Out' \in Seq(Event) /\ pending' \in Seq(Event)
           /\ \A k \in 1..n : Out'[k] = Out[k]
           /\ Out'[m] = MaybeRewriteId(e)
           /\ \A k \in 1..m : \/ k \in 1..n
                              \/ k = m
                              \/ NeedsItem(e) /\ k = n + 1
                              \/ NeedsPart(e) /\ k = m - 1
           /\ NeedsItem(e) => n + 1 < m /\ Out'[n + 1] = Synthetic("item.added", e)
           /\ NeedsPart(e) => n + 1 < m /\ Out'[m - 1] = Synthetic("part.added", e)
           /\ NeedsItem(e) /\ NeedsPart(e) => n + 1 < m - 1
<1> DEFINE p == SynthItem(e)
           q == SynthPart(e)
           f == MaybeRewriteId(e)
           n == Len(forwarded)
           m == n + Len(p) + Len(q) + 1
<1>1. forwarded \in Seq(Event) /\ n \in Nat /\ Out = forwarded /\ DOMAIN Out = 1..n
  BY DEF TypeOK, Take, Out
<1>2. /\ p \in Seq(Event)
      /\ Len(p) = IF NeedsItem(e) THEN 1 ELSE 0
      /\ NeedsItem(e) => p[1] = Synthetic("item.added", e)
  BY Fields DEF SynthItem, NeedsItem
<1>3. /\ q \in Seq(Event)
      /\ Len(q) = IF NeedsPart(e) THEN 1 ELSE 0
      /\ NeedsPart(e) => q[1] = Synthetic("part.added", e)
  BY Fields DEF SynthPart, NeedsPart
<1>4. <<f>> \in Seq(Event) /\ Len(<<f>>) = 1 /\ <<f>>[1] = f
  BY Fields
<1>5. pending' = p \o q \o <<f>> /\ Out' = forwarded \o pending'
  BY DEF Take, Out
<1> HIDE DEF p, q, f, n
<1>6. /\ pending' \in Seq(Event) /\ Len(pending') = Len(p) + Len(q) + 1
      /\ \A k \in 1..Len(p) : pending'[k] = p[k]
      /\ \A k \in 1..Len(q) : pending'[Len(p) + k] = q[k]
      /\ pending'[Len(p) + Len(q) + 1] = f
  <2> DEFINE pq == p \o q
  <2>1. /\ pq \in Seq(Event) /\ Len(pq) = Len(p) + Len(q)
        /\ \A k \in 1..Len(p) : pq[k] = p[k]
        /\ \A k \in 1..Len(q) : pq[Len(p) + k] = q[k]
    BY <1>2, <1>3, Joined
  <2> HIDE DEF pq
  <2>2. pending' = pq \o <<f>>
    BY <1>5 DEF pq
  <2>3. /\ pending' \in Seq(Event) /\ Len(pending') = Len(pq) + 1
        /\ \A k \in 1..Len(pq) : pending'[k] = pq[k]
        /\ pending'[Len(pq) + 1] = f
    BY <1>4, <2>1, <2>2, Joined, SMTT(60)
  <2> QED
    BY <1>2, <1>3, <2>1, <2>3
<1>7. /\ Out' \in Seq(Event) /\ Len(Out') = n + Len(pending')
      /\ \A k \in 1..n : Out'[k] = forwarded[k]
      /\ \A k \in 1..Len(pending') : Out'[n + k] = pending'[k]
  BY <1>1, <1>5, <1>6, Joined DEF n
<1>8. m \in Nat /\ DOMAIN Out' = 1..m /\ n < m
  BY <1>1, <1>2, <1>3, <1>6, <1>7, SMTT(60)
<1>9. Out'[m] = f
  BY <1>1, <1>2, <1>3, <1>6, <1>7, SMTT(60)
<1>10. NeedsItem(e) => n + 1 < m /\ Out'[n + 1] = Synthetic("item.added", e)
  BY <1>1, <1>2, <1>3, <1>6, <1>7
<1>11. NeedsPart(e) => n + 1 < m /\ Out'[m - 1] = Synthetic("part.added", e)
  BY <1>1, <1>2, <1>3, <1>6, <1>7, SMTT(60)
<1>12. NeedsItem(e) /\ NeedsPart(e) => n + 1 < m - 1
  BY <1>1, <1>2, <1>3
<1> HIDE DEF m
<1>13. m = n + Len(p) + Len(q) + 1
  BY DEF m
<1>14. ASSUME NEW k \in 1..m, k \notin 1..n, k # m
       PROVE  (NeedsItem(e) /\ k = n + 1) \/ (NeedsPart(e) /\ k = m - 1)
  BY <1>1, <1>2, <1>3, <1>13, <1>14, SMTT(60)
<1> QED
  BY <1>1, <1>6, <1>7, <1>8, <1>9, <1>10, <1>11, <1>12, <1>14 DEF f

-----------------------------------------------------------------------------
Slot == [known : BOOLEAN, content : Seq(Seq(Piece))]

\* Appending to the last part of what is not empty.
LEMMA LastPart ==
    ASSUME NEW content \in Seq(Seq(Piece)), content # <<>>, NEW piece \in Piece
    PROVE  [content EXCEPT ![Len(content)] = Append(@, piece)] \in Seq(Seq(Piece))
<1>1. Len(content) \in DOMAIN content /\ content[Len(content)] \in Seq(Piece)
  OBVIOUS
<1> DEFINE last == Append(content[Len(content)], piece)
<1>2. last \in Seq(Piece)
  BY <1>1
<1> HIDE DEF last
<1>3. [content EXCEPT ![Len(content)] = last] \in Seq(Seq(Piece))
  BY <1>2
<1> QED
  BY <1>3 DEF last

\* The latest message is one of the items listed, if it is there.
LEMMA LatestIs ==
    ASSUME TypeOK
    PROVE  LatestMessage \in Messages \cup {NoItem}
<1> DEFINE known == {k \in DOMAIN order : order[k] \in Messages}
<1>1. ASSUME known # {}
      PROVE  \E k \in known : \A l \in known : l <= k
  <2>1. /\ known \in SUBSET Nat /\ Len(order) \in Nat
        /\ \A k \in known : k <= Len(order)
    BY DEF TypeOK
  <2> QED
    BY <1>1, <2>1, Greatest
<1> QED
  BY <1>1 DEF LatestMessage

\* The piece of e was appended to the only part item i has, if it has one.
Gathers(i, e) ==
    Len(items[i].content) <= 1 =>
        /\ Len(items'[i].content) = 1
        /\ FlattenSeq(items'[i].content) = Append(FlattenSeq(items[i].content), PieceOf(e))

\* A delta changes no item but the one it goes to.
LEMMA Appended ==
    ASSUME TypeOK, NEW i \in Items \cup {NoItem}, NEW e \in Event, e.of \in Items,
           AppendTo(i, e)
    PROVE  /\ items' \in [Items -> Slot]
           /\ \A j \in Items : items'[j].known = items[j].known
           /\ \A j \in Items \ {i} : items'[j] = items[j]
           /\ i \in Items => Gathers(i, e)
<1>1. items \in [Items -> Slot] /\ NoItem \notin Items
  BY BridgeAssumption DEF TypeOK, Slot
<1> DEFINE piece == [of |-> e.of, part |-> e.part]
<1>2. piece \in Piece
  BY DEF Event, Piece
<1> HIDE DEF piece
<1>3. CASE i = NoItem
  BY <1>1, <1>3 DEF AppendTo
<1>4. CASE i # NoItem
  <2> DEFINE old == items[i].content
             new == IF old = <<>> THEN <<<<piece>>>>
                    ELSE [old EXCEPT ![Len(old)] = Append(@, piece)]
  <2>1. old \in Seq(Seq(Piece)) /\ i \in Items
    BY <1>1, <1>4 DEF Slot
  <2>2. items' = [items EXCEPT ![i].content = new]
    BY <1>4 DEF AppendTo, piece
  <2> HIDE DEF old
  <2>3. new \in Seq(Seq(Piece))
    <3>1. <<<<piece>>>> \in Seq(Seq(Piece))
      BY <1>2
    <3> QED
      BY <1>2, <2>1, <3>1, LastPart
  <2>4. ASSUME Len(old) <= 1
        PROVE  Len(new) = 1 /\ FlattenSeq(new) = Append(FlattenSeq(old), piece)
    <3>1. <<piece>> \in Seq(Piece) /\ <<piece>> = Append(<<>>, piece)
      BY <1>2
    <3>2. CASE old = <<>>
      <4>1. new = <<<<piece>>>> /\ Len(new) = 1
        BY <3>2
      <4>2. FlattenSeq(<<<<piece>>>>) = <<piece>> /\ FlattenSeq(<<>>) = <<>>
        <5>1. FlattenSeq(<<>>) = <<>>
          BY DEF FlattenSeq
        <5> QED
          BY <3>1, <5>1, FlattenOne
      <4> QED
        BY <3>1, <3>2, <4>1, <4>2
    <3>3. CASE old # <<>>
      <4>1. PICK s \in Seq(Piece) : old = <<s>>
        <5> DEFINE W == Seq(Piece)
        <5>1. old \in Seq(W)
          BY <2>1
        <5> HIDE DEF W
        <5>2. \E s \in W : old = <<s>>
          BY <2>4, <3>3, <5>1, OneOrNone
        <5> QED
          BY <5>2 DEF W
      <4>2. Append(s, piece) \in Seq(Piece)
        BY <1>2
      <4>3. new = <<Append(s, piece)>>
        BY <3>3, <4>1
      <4>4. FlattenSeq(<<s>>) = s
        BY FlattenOne
      <4>5. FlattenSeq(<<Append(s, piece)>>) = Append(s, piece)
        BY <4>2, FlattenOne
      <4> QED
        BY <4>1, <4>3, <4>4, <4>5
    <3> QED
      BY <3>2, <3>3
  <2> HIDE DEF new
  <2>5. items'[i].content = new /\ items'[i].known = items[i].known
    BY <1>1, <2>1, <2>2, SMTT(60) DEF Slot
  <2>6. Gathers(i, e)
    BY <2>4, <2>5 DEF Gathers, PieceOf, old, piece
  <2> QED
    BY <1>1, <2>1, <2>2, <2>3, <2>6 DEF Slot
<1> QED
  BY <1>3, <1>4

(***************************************************************************)
(* A yield forwards the next event, which is in Out already, and changes   *)
(* the items this event is about.                                          *)
(***************************************************************************)
LEMMA Consumed ==
    ASSUME TypeOK, Shapes, Yield
    PROVE  \E e \in Event :
           /\ Len(forwarded) + 1 \in DOMAIN Out /\ Out[Len(forwarded) + 1] = e
           /\ pending \in Seq(Event) /\ pending # <<>>
           /\ forwarded' = Append(forwarded, e) /\ pending' = Tail(pending)
           /\ final' = IF e.type = "created"
                       THEN [id |-> e.id, status |-> "in_progress"] ELSE final
           /\ order' = IF e.type = "item.added" THEN Append(order, e.item) ELSE order
           /\ items' \in [Items -> Slot]
           /\ e.type \in {"item.added", "args.delta", "item.done"} =>
                 /\ e.item \in Items
                 /\ \A j \in Items \ {e.item} : items'[j] = items[j]
           /\ e.type = "item.added" => items'[e.item] = Known(<<>>)
           /\ e.type = "item.done" => items'[e.item] = Known(e.content)
           /\ e.type = "text.delta" =>
                 /\ \A j \in Items \ {LatestMessage} : items'[j] = items[j]
                 /\ LatestMessage \in Items => Gathers(LatestMessage, e)
           /\ e.type = "args.delta" /\ items[e.item].known => Gathers(e.item, e)
           /\ e.type \in DeltaTypes => \A j \in Items : items'[j].known = items[j].known
           /\ e.type \notin {"item.added", "text.delta", "args.delta", "item.done"} =>
                 items' = items
<1>1. /\ pending # <<>> /\ Consume(Head(pending))
      /\ forwarded' = Append(forwarded, Head(pending)) /\ pending' = Tail(pending)
  BY DEF Yield
<1>2. PICK e \in Event : e = Head(pending)
  BY <1>1, HeadOut
<1>3. /\ Len(forwarded) + 1 \in DOMAIN Out /\ Out[Len(forwarded) + 1] = e
  BY <1>1, <1>2, HeadOut
<1>4. /\ e.type \notin Lifecycle => e.of \in Items
      /\ e.type \in {"item.added", "part.added", "args.delta", "item.done"} => e.item = e.of
  BY <1>3 DEF Shapes
<1>5. pending \in Seq(Event) /\ items \in [Items -> Slot]
  BY DEF TypeOK, Slot
<1>6. Consume(e)
  BY <1>1, <1>2
<1> USE DEF Lifecycle, Ends, MessageTypes, TextPartTypes, DeltaTypes
<1>7. CASE ConsumeCreated(e)
  BY <1>1, <1>2, <1>3, <1>5, <1>7 DEF ConsumeCreated
<1>8. CASE ConsumeItemAdded(e)
  <2>1. e.item \in Items /\ e.type = "item.added" /\ Known(<<>>) \in Slot
    BY <1>4, <1>8 DEF ConsumeItemAdded, Known, Slot
  <2>2. /\ items' \in [Items -> Slot] /\ items'[e.item] = Known(<<>>)
        /\ \A j \in Items \ {e.item} : items'[j] = items[j]
    BY <1>5, <1>8, <2>1 DEF ConsumeItemAdded
  <2> QED
    BY <1>1, <1>2, <1>3, <1>5, <1>8, <2>1, <2>2 DEF ConsumeItemAdded
<1>9. CASE ConsumeTextDelta(e)
  <2>1. e.of \in Items /\ e.type = "text.delta"
    BY <1>4, <1>9 DEF ConsumeTextDelta
  <2>2. /\ items' \in [Items -> Slot]
        /\ \A j \in Items \ {LatestMessage} : items'[j] = items[j]
        /\ \A j \in Items : items'[j].known = items[j].known
        /\ LatestMessage \in Items => Gathers(LatestMessage, e)
    BY <1>9, <2>1, LatestIs, Appended DEF ConsumeTextDelta, Items
  <2> QED
    BY <1>1, <1>2, <1>3, <1>5, <1>9, <2>1, <2>2 DEF ConsumeTextDelta
<1>10. CASE ConsumeArgumentsDelta(e)
  <2>1. e.of \in Items /\ e.type = "args.delta" /\ e.item = e.of
    BY <1>4, <1>10 DEF ConsumeArgumentsDelta
  <2>2. /\ items' \in [Items -> Slot]
        /\ \A j \in Items \ {e.item} : items'[j] = items[j]
        /\ \A j \in Items : items'[j].known = items[j].known
        /\ items[e.item].known => Gathers(e.item, e)
    <3> DEFINE i == IF items[e.item].known THEN e.item ELSE NoItem
    <3>1. AppendTo(i, e) /\ i \in Items \cup {NoItem} /\ i \in {e.item, NoItem}
      BY <1>10, <2>1 DEF ConsumeArgumentsDelta
    <3>2. items[e.item].known => i \in Items /\ i = e.item
      BY <2>1
    <3> HIDE DEF i
    <3> QED
      BY <2>1, <3>1, <3>2, BridgeAssumption, Appended
  <2> QED
    BY <1>1, <1>2, <1>3, <1>5, <1>10, <2>1, <2>2 DEF ConsumeArgumentsDelta
<1>11. CASE ConsumeItemDone(e)
  <2>1. e.item \in Items /\ e.type = "item.done" /\ Known(e.content) \in Slot
    BY <1>4, <1>11 DEF ConsumeItemDone, Known, Slot, Event
  <2>2. /\ items' \in [Items -> Slot] /\ items'[e.item] = Known(e.content)
        /\ \A j \in Items \ {e.item} : items'[j] = items[j]
    BY <1>5, <1>11, <2>1 DEF ConsumeItemDone
  <2> QED
    BY <1>1, <1>2, <1>3, <1>5, <1>11, <2>1, <2>2 DEF ConsumeItemDone
<1>12. CASE ConsumeNothing(e)
  BY <1>1, <1>2, <1>3, <1>5, <1>12 DEF ConsumeNothing
<1> QED
  BY <1>6, <1>7, <1>8, <1>9, <1>10, <1>11, <1>12 DEF Consume

-----------------------------------------------------------------------------
\* The types hold at first.
LEMMA TypeInit == Init => TypeOK
<1> SUFFICES ASSUME Init PROVE TypeOK
  OBVIOUS
<1>1. Untold \in Telling
  <2>1. <<>> \in Seq(Piece)
    OBVIOUS
  <2> QED
    BY <2>1 DEF Untold, Telling
<1>2. Missing \in [known : BOOLEAN, content : Seq(Seq(Piece))]
  <2>1. <<>> \in Seq(Seq(Piece))
    OBVIOUS
  <2> QED
    BY <2>1 DEF Missing
<1>3. told = [i \in Items |-> Untold] /\ items = [i \in Items |-> Missing]
  BY DEF Init
<1>4. told \in [Items -> Telling] /\ \A i \in Items : told[i] = Untold
  BY <1>1, <1>3
<1>5. items \in [Items -> [known : BOOLEAN, content : Seq(Seq(Piece))]]
  BY <1>2, <1>3
<1>6. <<>> \in Seq(Event) /\ <<>> \in Seq(Items) /\ 0 \in 0..MaxEvents + 1
  BY BridgeAssumption
<1>7. \A i \in Items : /\ told[i].lateParts \subseteq told[i].parts
                       /\ told[i].parts \subseteq told[i].used
  BY <1>4 DEF Untold
<1> QED
  BY <1>4, <1>5, <1>6, <1>7 DEF Init, TypeOK

\* Every step keeps the types.
LEMMA TypeStep == ASSUME BridgeInv, [Next]_vars PROVE TypeOK'
<1>0. TypeOK /\ Shapes
  BY DEF BridgeInv
<1>1. CASE Upstream
  <2>1. PICK e \in Event : Take(e) /\ Utterance(e)
    BY <1>1, Spoken
  <2>2. open' \subseteq Items
    BY <1>0, <2>1 DEF TypeOK, Utterance
  <2>3. /\ told' \in [Items -> Telling] /\ ended' \in BOOLEAN
        /\ \A i \in Items : /\ told'[i].lateParts \subseteq told'[i].parts
                            /\ told'[i].parts \subseteq told'[i].used
    BY <2>1 DEF Utterance
  <2>4. count' \in 0..MaxEvents + 1
    BY <1>0, <2>1, BridgeAssumption, SMTT(60) DEF TypeOK, Take
  <2>5. pending' \in Seq(Event)
    BY <1>0, <2>1, Took
  <2>6. UNCHANGED <<items, order, final, forwarded>>
    BY <2>1 DEF Take
  <2>7. /\ announcedItems' \subseteq Items
        /\ announcedParts' \subseteq Items \X (Parts \cup {0})
    <3>1. e.item \in Items \cup {NoItem} /\ e.part \in Parts \cup {0}
      BY DEF Event
    <3> QED
      BY <1>0, <2>1, <3>1 DEF TypeOK, Take, SynthesizeMissingAnnouncements
  <2> QED
    BY <1>0, <2>2, <2>3, <2>4, <2>5, <2>6, <2>7 DEF TypeOK
<1>2. CASE Yield
  <2>1. PICK e \in Event :
           /\ pending \in Seq(Event) /\ pending # <<>>
           /\ forwarded' = Append(forwarded, e) /\ pending' = Tail(pending)
           /\ final' = IF e.type = "created"
                       THEN [id |-> e.id, status |-> "in_progress"] ELSE final
           /\ order' = IF e.type = "item.added" THEN Append(order, e.item) ELSE order
           /\ items' \in [Items -> Slot]
           /\ e.type = "item.added" => e.item \in Items
    BY <1>0, <1>2, Consumed
  <2>2. pending' \in Seq(Event) /\ forwarded' \in Seq(Event)
    BY <1>0, <2>1 DEF TypeOK
  <2>3. final' \in [id : {UpstreamId, RewriteId}, status : {"none", "in_progress"}]
    BY <1>0, <2>1 DEF TypeOK, Event
  <2>4. order' \in Seq(Items)
    BY <1>0, <2>1 DEF TypeOK
  <2>5. UNCHANGED <<upstream, bookkeeping>>
    BY <1>2 DEF Yield
  <2> QED
    BY <1>0, <2>1, <2>2, <2>3, <2>4, <2>5 DEF TypeOK, Slot, upstream, bookkeeping
<1>3. CASE UNCHANGED vars
  BY <1>0, <1>3 DEF TypeOK, vars, upstream, bookkeeping
<1> QED
  BY <1>1, <1>2, <1>3 DEF Next

-----------------------------------------------------------------------------
\* What is appended to Out has the fields of its type.
LEMMA ShapesStep == ASSUME BridgeInv, [Next]_vars PROVE Shapes'
<1>0. TypeOK /\ Shapes
  BY DEF BridgeInv
<1>1. CASE Upstream
  <2>1. PICK e \in Event : Take(e) /\ Utterance(e)
    BY <1>1, Spoken
  <2>2. PICK n, m \in Nat :
           /\ DOMAIN Out = 1..n /\ DOMAIN Out' = 1..m
           /\ \A k \in 1..n : Out'[k] = Out[k]
           /\ Out'[m] = MaybeRewriteId(e)
           /\ \A k \in 1..m : \/ k \in 1..n
                              \/ k = m
                              \/ NeedsItem(e) /\ k = n + 1
                              \/ NeedsPart(e) /\ k = m - 1
           /\ NeedsItem(e) => Out'[n + 1] = Synthetic("item.added", e)
           /\ NeedsPart(e) => Out'[m - 1] = Synthetic("part.added", e)
    BY <1>0, <2>1, Took, ZenonT(60)
  <2>3. /\ e.item \in {e.of, NoItem}
        /\ e.type \in Lifecycle => e.of = NoItem
        /\ e.type \notin Lifecycle => e.of \in Items
        /\ e.type \in MessageTypes => e.of \in Messages
        /\ e.type \in {"item.added", "part.added", "args.delta", "item.done"} => e.item = e.of
    BY <2>1 DEF Utterance, Lifecycle, Ends, MessageTypes, TextPartTypes
  <2>4. NeedsItem(e) \/ NeedsPart(e) =>
           e.type \in MessageTypes /\ e.type \notin Lifecycle /\ e.item = e.of
    BY <2>3 DEF NeedsItem, NeedsPart, Lifecycle, Ends, MessageTypes, TextPartTypes
  <2> SUFFICES ASSUME NEW l \in DOMAIN Out'
               PROVE  LET d == Out'[l] IN
                      /\ d.item \in {d.of, NoItem}
                      /\ d.type \in Lifecycle => d.of = NoItem /\ d.id = RewriteId
                      /\ d.type \notin Lifecycle => d.of \in Items
                      /\ d.type \in MessageTypes => d.of \in Messages
                      /\ d.type \in {"item.added", "part.added", "args.delta", "item.done"} =>
                            d.item = d.of
    BY DEF Shapes
  <2>5. CASE l \in 1..n
    BY <1>0, <2>2, <2>5 DEF Shapes
  <2>6. CASE l = m
    BY <2>2, <2>3, <2>6, Fields
  <2>7. CASE NeedsItem(e) /\ l = n + 1
    BY <2>2, <2>3, <2>4, <2>7, Fields DEF Lifecycle, Ends, MessageTypes, TextPartTypes
  <2>8. CASE NeedsPart(e) /\ l = m - 1
    BY <2>2, <2>3, <2>4, <2>8, Fields DEF Lifecycle, Ends, MessageTypes, TextPartTypes
  <2> QED
    BY <2>2, <2>5, <2>6, <2>7, <2>8
<1>2. CASE Yield \/ UNCHANGED vars
  BY <1>0, <1>2, Quiet DEF Shapes
<1> QED
  BY <1>1, <1>2 DEF Next

\* The first event taken is response.created.
LEMMA BeginningStep == ASSUME BridgeInv, [Next]_vars PROVE Beginning'
<1>0. TypeOK /\ Beginning
  BY DEF BridgeInv
<1>1. CASE Upstream
  <2>1. PICK e \in Event : Take(e) /\ Utterance(e)
    BY <1>1, Spoken
  <2>2. PICK n, m \in Nat :
           /\ DOMAIN Out = 1..n /\ DOMAIN Out' = 1..m /\ n < m
           /\ Out' \in Seq(Event)
           /\ \A k \in 1..n : Out'[k] = Out[k]
           /\ Out'[m] = MaybeRewriteId(e)
           /\ \A k \in 1..m : \/ k \in 1..n
                              \/ k = m
                              \/ NeedsItem(e) /\ k = n + 1
                              \/ NeedsPart(e) /\ k = m - 1
           /\ NeedsItem(e) => n + 1 < m
           /\ NeedsPart(e) => n + 1 < m
    BY <1>0, <2>1, Took
  <2>3. count' = count + 1 /\ count \in Nat
    BY <1>0, <2>1, BridgeAssumption DEF Take, TypeOK
  <2>4. Out' # <<>> /\ Out \in Seq(Event)
    BY <1>0, <2>2, OutIs
  <2>5. CASE count = 0
    <3>1. e.type = "created" /\ n = 0
      BY <1>0, <2>1, <2>2, <2>4, <2>5 DEF Utterance, Beginning
    <3>2. ~NeedsItem(e) /\ ~NeedsPart(e)
      BY <3>1 DEF NeedsItem, NeedsPart, MessageTypes, TextPartTypes
    <3>3. m = 1
      <4>1. 1 \in 1..m
        BY <2>2
      <4> QED
        BY <2>2, <3>1, <3>2, <4>1
    <3> QED
      BY <2>2, <2>3, <2>4, <2>5, <3>1, <3>3, Fields DEF Beginning
  <2>6. CASE count # 0
    <3>1. 1 \in 1..n
      BY <1>0, <2>2, <2>4, <2>6 DEF Beginning
    <3> QED
      BY <1>0, <2>2, <2>3, <2>4, <2>6, <3>1 DEF Beginning
  <2> QED
    BY <2>5, <2>6
<1>2. CASE Yield \/ UNCHANGED vars
  BY <1>0, <1>2, Quiet DEF Beginning, upstream
<1> QED
  BY <1>1, <1>2 DEF Next

\* The bridge books what the upstream tells.
LEMMA BookedStep == ASSUME BridgeInv, [Next]_vars PROVE Booked'
<1>0. TypeOK /\ Booked
  BY DEF BridgeInv
<1>1. CASE Upstream
  <2>1. PICK e \in Event : Take(e) /\ Utterance(e)
    BY <1>1, Spoken
  <2>2. NoItem \notin Items /\ Items = Messages \cup Calls /\ Messages \cap Calls = {}
    BY BridgeAssumption DEF Items
  <2>3. e.type \in EventTypes
    BY DEF Event
  <2>4. /\ announcedItems' = IF e.item # NoItem /\ e.type \in MessageTypes \cup {"item.added"}
                             THEN announcedItems \cup {e.item} ELSE announcedItems
        /\ announcedParts' = IF e.item # NoItem /\ e.type \in TextPartTypes \cup {"part.added"}
                             THEN announcedParts \cup {<<e.item, e.part>>} ELSE announcedParts
    BY <2>1 DEF Take, SynthesizeMissingAnnouncements
  <2>5. CASE e.type \in Lifecycle
    <3>1. UNCHANGED <<open, told, announcedItems, announcedParts>>
      BY <2>1, <2>4, <2>5 DEF Utterance, Lifecycle, Ends, MessageTypes, TextPartTypes
    <3> QED
      BY <1>0, <3>1 DEF Booked, Begun
  <2>6. CASE e.type \notin Lifecycle
    <3> DEFINE i == e.of
    <3>1. /\ i \in Items /\ ~told[i].done
          /\ e.item \in {i, NoItem}
          /\ \A j \in Items \ {i} : told'[j] = told[j]
          /\ told'[i].done <=> e.type = "item.done"
          /\ IF e.type = "item.done" THEN i \in open /\ open' = open \ {i}
             ELSE open' = open \cup {i}
          /\ IF e.type = "item.added"
             THEN ~told[i].added /\ told'[i].added /\ (told'[i].late <=> Begun(i))
             ELSE told'[i].added = told[i].added /\ told'[i].late = told[i].late
          /\ told[i].used \subseteq told'[i].used
          /\ Begun(i) => Begun(i)'
          /\ e.type \in MessageTypes => i \in Messages /\ e.part \in told'[i].used
          /\ e.type = "args.delta" => i \in Calls
          /\ e.item = NoItem => told[i].added /\ e.type \in TextPartTypes
      BY <2>1, <2>6 DEF Utterance
    <3>2. e.type \in MessageTypes \cup {"item.added", "args.delta", "item.done"}
          /\ TextPartTypes \subseteq MessageTypes /\ "part.added" \in MessageTypes
          /\ ~("item.added" \in MessageTypes) /\ ~("args.delta" \in MessageTypes)
          /\ ~("item.done" \in MessageTypes)
      BY <2>3, <2>6 DEF EventTypes, Lifecycle, Ends, MessageTypes, TextPartTypes
    <3> HIDE DEF i
    <3>3. ASSUME NEW j \in Items
          PROVE  /\ told'[j].late => told'[j].added
                 /\ told'[j].added => j \in announcedItems'
                 /\ j \in open' => ~told'[j].done
                 /\ j \in open' \cap Messages => j \in announcedItems'
                 /\ j \in announcedItems' => told'[j].added \/ Begun(j)'
      <4>1. /\ told[j].late => told[j].added
            /\ told[j].added => j \in announcedItems
            /\ j \in open => ~told[j].done
            /\ j \in open \cap Messages => j \in announcedItems
            /\ j \in announcedItems => told[j].added \/ Begun(j)
        BY <1>0 DEF Booked
      <4>2. CASE j # i
        <5>1. told'[j] = told[j] /\ (j \in open' <=> j \in open)
              /\ (j \in announcedItems' <=> j \in announcedItems)
          BY <2>2, <2>4, <3>1, <4>2
        <5> QED
          BY <4>1, <5>1 DEF Begun
      <4>3. CASE j = i
        <5>1. e.type \in MessageTypes => Begun(i)'
          BY <3>1 DEF Begun
        <5>2. e.type \in MessageTypes /\ e.item = NoItem => i \in announcedItems
          BY <3>1, <4>1, <4>3
        <5>3. e.type \in MessageTypes \cup {"item.added"} => i \in announcedItems'
          BY <2>2, <2>4, <3>1, <3>2, <4>3, <5>2
        <5>4. announcedItems \subseteq announcedItems'
          BY <2>4
        <5>5. e.type \notin MessageTypes \cup {"item.added"} => announcedItems' = announcedItems
          BY <2>4
        <5> QED
          BY <2>2, <3>1, <3>2, <4>1, <4>3, <5>1, <5>3, <5>4, <5>5
      <4> QED
        BY <4>2, <4>3
    <3>4. ASSUME NEW j \in Items, NEW c \in Parts, <<j, c>> \in announcedParts'
          PROVE  c \in told'[j].used
      <4>1. CASE <<j, c>> \in announcedParts
        <5>1. c \in told[j].used
          BY <1>0, <4>1 DEF Booked
        <5> QED
          BY <3>1, <5>1
      <4>2. CASE <<j, c>> \notin announcedParts
        <5>1. e.type \in MessageTypes /\ e.item # NoItem /\ <<j, c>> = <<e.item, e.part>>
          BY <2>4, <3>2, <3>4, <4>2
        <5> QED
          BY <2>2, <3>1, <5>1
      <4> QED
        BY <4>1, <4>2
    <3> QED
      BY <3>3, <3>4 DEF Booked
  <2> QED
    BY <2>5, <2>6
<1>2. CASE Yield \/ UNCHANGED vars
  BY <1>0, <1>2, Quiet DEF Booked, Begun, upstream, bookkeeping
<1> QED
  BY <1>1, <1>2 DEF Next

-----------------------------------------------------------------------------
\* Where taking e announces items and parts.
LEMMA Announces ==
    ASSUME TypeOK, NEW e \in Event, Take(e)
    PROVE  \E n, m \in Nat :
           /\ \A i : ItemOut(i)' = ItemOut(i)
                \cup {k \in {n + 1} : NeedsItem(e) /\ e.item = i}
                \cup {k \in {m} : e.type = "item.added" /\ e.item = i}
           /\ \A i, c : PartOut(i, c)' = PartOut(i, c)
                \cup {k \in {m - 1} : NeedsPart(e) /\ e.item = i /\ e.part = c}
                \cup {k \in {m} : e.type = "part.added" /\ e.item = i /\ e.part = c}
<1>1. PICK n, m \in Nat :
         /\ DOMAIN Out = 1..n /\ DOMAIN Out' = 1..m /\ n < m
         /\ \A k \in 1..n : Out'[k] = Out[k]
         /\ Out'[m] = MaybeRewriteId(e)
         /\ \A k \in 1..m : \/ k \in 1..n
                            \/ k = m
                            \/ NeedsItem(e) /\ k = n + 1
                            \/ NeedsPart(e) /\ k = m - 1
         /\ NeedsItem(e) => n + 1 < m /\ Out'[n + 1] = Synthetic("item.added", e)
         /\ NeedsPart(e) => n + 1 < m /\ Out'[m - 1] = Synthetic("part.added", e)
  BY Took
<1> DEFINE f == MaybeRewriteId(e)
           si == Synthetic("item.added", e)
           sp == Synthetic("part.added", e)
<1>2. /\ f.type = e.type /\ f.item = e.item /\ f.part = e.part
      /\ si.type = "item.added" /\ si.item = e.item
      /\ sp.type = "part.added" /\ sp.item = e.item /\ sp.part = e.part
  BY Fields
<1>3. /\ m \in 1..m /\ m \notin 1..n
      /\ NeedsItem(e) => n + 1 \in 1..m /\ n + 1 \notin 1..n /\ n + 1 # m
      /\ NeedsPart(e) => m - 1 \in 1..m /\ m - 1 \notin 1..n /\ m - 1 # m
      /\ \A k \in 1..n : k \in 1..m
  BY <1>1
<1>4. /\ Out'[m] = f
      /\ NeedsItem(e) => Out'[n + 1] = si
      /\ NeedsPart(e) => Out'[m - 1] = sp
      /\ \A k \in 1..m : \/ k \in 1..n /\ Out'[k] = Out[k]
                         \/ k = m
                         \/ NeedsItem(e) /\ k = n + 1
                         \/ NeedsPart(e) /\ k = m - 1
      /\ \A k \in 1..n : Out'[k] = Out[k]
  BY <1>1
<1> HIDE DEF f, si, sp
<1>5. ASSUME NEW i
      PROVE  ItemOut(i)' = ItemOut(i)
                \cup {k \in {n + 1} : NeedsItem(e) /\ e.item = i}
                \cup {k \in {m} : e.type = "item.added" /\ e.item = i}
  <2>1. /\ ItemOut(i)  = {k \in 1..n : Out[k].type = "item.added" /\ Out[k].item = i}
        /\ ItemOut(i)' = {k \in 1..m : Out'[k].type = "item.added" /\ Out'[k].item = i}
    BY <1>1 DEF ItemOut, ItemIn
  <2> QED
    BY <1>2, <1>3, <1>4, <2>1
<1>6. ASSUME NEW i, NEW c
      PROVE  PartOut(i, c)' = PartOut(i, c)
                \cup {k \in {m - 1} : NeedsPart(e) /\ e.item = i /\ e.part = c}
                \cup {k \in {m} : e.type = "part.added" /\ e.item = i /\ e.part = c}
  <2>1. /\ PartOut(i, c)  = {k \in 1..n : /\ Out[k].type = "part.added"
                                          /\ Out[k].item = i /\ Out[k].part = c}
        /\ PartOut(i, c)' = {k \in 1..m : /\ Out'[k].type = "part.added"
                                          /\ Out'[k].item = i /\ Out'[k].part = c}
    BY <1>1 DEF PartOut, PartIn
  <2> QED
    BY <1>2, <1>3, <1>4, <2>1
<1> QED
  BY <1>5, <1>6

\* What is announced is booked, and is not announced again unless it comes late.
LEMMA AnnouncementsStep == ASSUME BridgeInv, [Next]_vars PROVE Announcements'
<1>0. TypeOK /\ Booked /\ Announcements
  BY DEF BridgeInv
<1>1. CASE Upstream
  <2>1. PICK e \in Event : Take(e) /\ Utterance(e)
    BY <1>1, Spoken
  <2>2. PICK n, m \in Nat :
           /\ \A i : ItemOut(i)' = ItemOut(i)
                \cup {k \in {n + 1} : NeedsItem(e) /\ e.item = i}
                \cup {k \in {m} : e.type = "item.added" /\ e.item = i}
           /\ \A i, c : PartOut(i, c)' = PartOut(i, c)
                \cup {k \in {m - 1} : NeedsPart(e) /\ e.item = i /\ e.part = c}
                \cup {k \in {m} : e.type = "part.added" /\ e.item = i /\ e.part = c}
    BY <1>0, <2>1, Announces
  <2>3. /\ announcedItems' = IF e.item # NoItem /\ e.type \in MessageTypes \cup {"item.added"}
                             THEN announcedItems \cup {e.item} ELSE announcedItems
        /\ announcedParts' = IF e.item # NoItem /\ e.type \in TextPartTypes \cup {"part.added"}
                             THEN announcedParts \cup {<<e.item, e.part>>} ELSE announcedParts
    BY <2>1 DEF Take, SynthesizeMissingAnnouncements
  <2>4. /\ e.type \in Lifecycle => e.of = NoItem /\ told' = told
        /\ \A j \in Items \ {e.of} : told'[j] = told[j]
        /\ e.type # "item.added" => \A j \in Items : told'[j].late = told[j].late
        /\ e.type = "item.added" => ~told[e.of].added /\ (told'[e.of].late <=> Begun(e.of))
        /\ e.type # "part.added" => \A j \in Items : told'[j].lateParts = told[j].lateParts
        /\ e.type = "part.added" =>
              /\ e.part \notin told[e.of].parts
              /\ told'[e.of].lateParts = told[e.of].lateParts \cup ({e.part} \cap told[e.of].used)
        /\ e.type \in {"item.added", "part.added"} => e.item = e.of /\ e.of \in Items
    BY <2>1 DEF Utterance, Lifecycle, Ends, TextPartTypes
  <2>5. NoItem \notin Items
    BY BridgeAssumption
  <2>6. ASSUME NEW i \in Items
        PROVE  /\ i \in announcedItems' <=> ItemOut(i)' # {}
               /\ AtMostTwo(ItemOut(i)')
               /\ ~told'[i].late => AtMostOne(ItemOut(i)')
    <3>1. /\ i \in announcedItems <=> ItemOut(i) # {}
          /\ AtMostTwo(ItemOut(i))
          /\ ~told[i].late => AtMostOne(ItemOut(i))
      BY <1>0 DEF Announcements
    <3>2. CASE e.type = "item.added" /\ e.item = i
      <4>1. ItemOut(i)' = ItemOut(i) \cup {m} /\ i \in announcedItems'
        BY <2>2, <2>3, <2>5, <3>2 DEF NeedsItem, MessageTypes, TextPartTypes
      <4>2. ~told[i].added /\ (told'[i].late <=> Begun(i))
        BY <2>4, <3>2
      <4>3. AtMostOne(ItemOut(i)) /\ (~Begun(i) => ItemOut(i) = {})
        BY <1>0, <3>1, <4>2 DEF Booked
      <4> QED
        BY <4>1, <4>2, <4>3 DEF AtMostOne, AtMostTwo
    <3>3. CASE NeedsItem(e) /\ e.item = i
      <4>1. e.type # "item.added" /\ e.type \in MessageTypes /\ i \notin announcedItems
        BY <3>3 DEF NeedsItem, MessageTypes, TextPartTypes
      <4>2. ItemOut(i)' = {n + 1} /\ i \in announcedItems'
        BY <2>2, <2>3, <2>5, <3>1, <3>3, <4>1
      <4> QED
        BY <4>2 DEF AtMostOne, AtMostTwo
    <3>4. CASE ~(e.type = "item.added" /\ e.item = i) /\ ~(NeedsItem(e) /\ e.item = i)
      <4>1. ItemOut(i)' = ItemOut(i)
        BY <2>2, <3>4
      <4>2. i \in announcedItems' <=> i \in announcedItems
        BY <2>3, <3>4 DEF NeedsItem
      <4>3. told'[i].late = told[i].late
        BY <2>4, <3>4
      <4> QED
        BY <3>1, <4>1, <4>2, <4>3
    <3> QED
      BY <3>2, <3>3, <3>4
  <2>7. ASSUME NEW i \in Items, NEW c \in Parts
        PROVE  /\ <<i, c>> \in announcedParts' <=> PartOut(i, c)' # {}
               /\ AtMostTwo(PartOut(i, c)')
               /\ c \notin told'[i].lateParts => AtMostOne(PartOut(i, c)')
    <3>1. /\ <<i, c>> \in announcedParts <=> PartOut(i, c) # {}
          /\ AtMostTwo(PartOut(i, c))
          /\ c \notin told[i].lateParts => AtMostOne(PartOut(i, c))
      BY <1>0 DEF Announcements
    <3>2. CASE e.type = "part.added" /\ e.item = i /\ e.part = c
      <4>1. PartOut(i, c)' = PartOut(i, c) \cup {m} /\ <<i, c>> \in announcedParts'
        BY <2>2, <2>3, <2>5, <3>2 DEF NeedsPart, TextPartTypes
      <4>2. /\ c \notin told[i].parts
            /\ told'[i].lateParts = told[i].lateParts \cup ({c} \cap told[i].used)
        BY <2>4, <3>2
      <4>3. c \notin told[i].lateParts
        BY <1>0, <4>2 DEF TypeOK
      <4>4. AtMostOne(PartOut(i, c)) /\ (c \notin told[i].used => PartOut(i, c) = {})
        BY <1>0, <3>1, <4>3 DEF Booked
      <4> QED
        BY <4>1, <4>2, <4>4 DEF AtMostOne, AtMostTwo
    <3>3. CASE NeedsPart(e) /\ e.item = i /\ e.part = c
      <4>1. e.type # "part.added" /\ e.type \in TextPartTypes /\ <<i, c>> \notin announcedParts
        BY <3>3 DEF NeedsPart, TextPartTypes
      <4>2. PartOut(i, c)' = {m - 1} /\ <<i, c>> \in announcedParts'
        BY <2>2, <2>3, <2>5, <3>1, <3>3, <4>1
      <4> QED
        BY <4>2 DEF AtMostOne, AtMostTwo
    <3>4. CASE /\ ~(e.type = "part.added" /\ e.item = i /\ e.part = c)
               /\ ~(NeedsPart(e) /\ e.item = i /\ e.part = c)
      <4>1. PartOut(i, c)' = PartOut(i, c)
        BY <2>2, <3>4
      <4>2. <<i, c>> \in announcedParts' <=> <<i, c>> \in announcedParts
        BY <2>3, <3>4 DEF NeedsPart
      <4>3. c \in told'[i].lateParts <=> c \in told[i].lateParts
        <5>1. CASE e.type = "part.added" /\ i = e.of
          BY <2>4, <3>4, <5>1
        <5>2. CASE ~(e.type = "part.added" /\ i = e.of)
          BY <2>4, <5>2
        <5> QED
          BY <5>1, <5>2
      <4> QED
        BY <3>1, <4>1, <4>2, <4>3
    <3> QED
      BY <3>2, <3>3, <3>4
  <2> QED
    BY <2>6, <2>7 DEF Announcements
<1>2. CASE Yield \/ UNCHANGED vars
  <2>1. Out' = Out /\ told' = told /\ UNCHANGED <<announcedItems, announcedParts>>
    BY <1>0, <1>2, Quiet DEF upstream, bookkeeping
  <2> QED
    BY <1>0, <2>1 DEF Announcements, ItemOut, PartOut
<1> QED
  BY <1>1, <1>2 DEF Next

-----------------------------------------------------------------------------
\* Every event taken is put behind the announcements it needs.
LEMMA PrecedenceStep == ASSUME BridgeInv, [Next]_vars PROVE Precedence'
<1>0. TypeOK /\ Booked /\ Announcements /\ Precedence /\ Shapes
  BY DEF BridgeInv
<1>1. CASE Upstream
  <2>1. PICK e \in Event : Take(e) /\ Utterance(e)
    BY <1>1, Spoken
  <2>2. PICK n, m \in Nat :
           /\ DOMAIN Out = 1..n /\ DOMAIN Out' = 1..m /\ n < m
           /\ \A k \in 1..n : Out'[k] = Out[k]
           /\ Out'[m] = MaybeRewriteId(e)
           /\ \A k \in 1..m : \/ k \in 1..n
                              \/ k = m
                              \/ NeedsItem(e) /\ k = n + 1
                              \/ NeedsPart(e) /\ k = m - 1
           /\ NeedsItem(e) => n + 1 < m /\ Out'[n + 1] = Synthetic("item.added", e)
           /\ NeedsPart(e) => n + 1 < m /\ Out'[m - 1] = Synthetic("part.added", e)
           /\ NeedsItem(e) /\ NeedsPart(e) => n + 1 < m - 1
    BY <1>0, <2>1, Took
  <2>3. \A i : ItemIn(Out, i) \subseteq ItemIn(Out', i) /\ ItemIn(Out, i) \subseteq 1..n
    <3>1. \A i : ItemIn(Out, i) = {k \in 1..n : Out[k].type = "item.added" /\ Out[k].item = i}
      BY <2>2 DEF ItemIn
    <3>2. \A i : ItemIn(Out', i) = {k \in 1..m : Out'[k].type = "item.added" /\ Out'[k].item = i}
      BY <2>2 DEF ItemIn
    <3>3. \A k \in 1..n : k \in 1..m
      BY <2>2
    <3> QED
      BY <2>2, <3>1, <3>2, <3>3
  <2>4. \A i, c : PartIn(Out, i, c) \subseteq PartIn(Out', i, c) /\ PartIn(Out, i, c) \subseteq 1..n
    <3>1. \A i, c : PartIn(Out, i, c) =
             {k \in 1..n : Out[k].type = "part.added" /\ Out[k].item = i /\ Out[k].part = c}
      BY <2>2 DEF PartIn
    <3>2. \A i, c : PartIn(Out', i, c) =
             {k \in 1..m : Out'[k].type = "part.added" /\ Out'[k].item = i /\ Out'[k].part = c}
      BY <2>2 DEF PartIn
    <3>3. \A k \in 1..n : k \in 1..m
      BY <2>2
    <3> QED
      BY <2>2, <3>1, <3>2, <3>3
  <2>5. e.type \in MessageTypes =>
           e.item = NoItem \/ \E k \in ItemIn(Out', e.item) : k < m /\ (NeedsPart(e) => k < m - 1)
    <3> SUFFICES ASSUME e.type \in MessageTypes, e.item # NoItem
                 PROVE  \E k \in ItemIn(Out', e.item) : k < m /\ (NeedsPart(e) => k < m - 1)
      OBVIOUS
    <3>1. CASE NeedsItem(e)
      <4>1. n + 1 \in ItemIn(Out', e.item)
        BY <2>2, <3>1, Fields DEF ItemIn
      <4> QED
        BY <2>2, <3>1, <4>1
    <3>2. CASE ~NeedsItem(e)
      <4>1. e.item \in announcedItems /\ e.item \in Items
        BY <3>2 DEF NeedsItem, Event
      <4>2. PICK k \in ItemIn(Out, e.item) : TRUE
        BY <1>0, <4>1 DEF Announcements, ItemOut
      <4>3. k \in 1..n /\ k \in ItemIn(Out', e.item)
        BY <2>3, <4>2
      <4>4. k < m /\ (NeedsPart(e) => k < m - 1)
        BY <2>2, <4>3
      <4> QED
        BY <4>3, <4>4
    <3> QED
      BY <3>1, <3>2
  <2> SUFFICES ASSUME NEW l \in DOMAIN Out'
               PROVE  LET d == Out'[l] IN
                      /\ d.item \in Messages /\ d.type # "item.added" =>
                            \E k \in ItemIn(Out', d.item) : k < l
                      /\ d.item # NoItem /\ d.type \in TextPartTypes =>
                            \E k \in PartIn(Out', d.item, d.part) : k < l
    BY DEF Precedence, ItemOut, PartOut
  <2>6. CASE l \in 1..n
    <3>1. Out'[l] = Out[l] /\ l \in DOMAIN Out
      BY <2>2, <2>6
    <3>2. /\ Out[l].item \in Messages /\ Out[l].type # "item.added" =>
                \E k \in ItemIn(Out, Out[l].item) : k < l
          /\ Out[l].item # NoItem /\ Out[l].type \in TextPartTypes =>
                \E k \in PartIn(Out, Out[l].item, Out[l].part) : k < l
      BY <1>0, <3>1 DEF Precedence, ItemOut, PartOut
    <3> QED
      BY <2>3, <2>4, <3>1, <3>2
  <2>7. CASE l = m
    <3>1. Out'[l].type = e.type /\ Out'[l].item = e.item /\ Out'[l].part = e.part
      BY <2>2, <2>7, Fields
    <3>2. ASSUME e.item \in Messages, e.type # "item.added"
          PROVE  \E k \in ItemIn(Out', e.item) : k < m
      <4>0. e.item # NoItem /\ e.item \in Items /\ Messages \cap Calls = {}
        BY <3>2, BridgeAssumption DEF Items
      <4>1. CASE e.type \in MessageTypes
        BY <2>5, <4>0, <4>1
      <4>2. CASE e.type = "item.done"
        <5>1. e.item \in open
          BY <2>1, <4>0, <4>2 DEF Utterance, Lifecycle, Ends
        <5>2. PICK k \in ItemIn(Out, e.item) : TRUE
          BY <1>0, <3>2, <4>0, <5>1 DEF Booked, Announcements, ItemOut
        <5>3. k \in 1..n /\ k \in ItemIn(Out', e.item)
          BY <2>3, <5>2
        <5> QED
          BY <2>2, <5>3
      <4>3. e.type \in MessageTypes \cup {"item.done"}
        <5>1. e.type \notin Lifecycle /\ e.type # "args.delta"
          BY <2>1, <3>2, <4>0 DEF Utterance, Lifecycle, Ends
        <5> QED
          BY <3>2, <5>1 DEF Event, EventTypes
      <4> QED
        BY <4>1, <4>2, <4>3
    <3>3. ASSUME e.item # NoItem, e.type \in TextPartTypes
          PROVE  \E k \in PartIn(Out', e.item, e.part) : k < m
      <4>1. CASE NeedsPart(e)
        <5>1. m - 1 \in PartIn(Out', e.item, e.part)
          BY <2>2, <4>1, Fields DEF PartIn
        <5> QED
          BY <2>2, <4>1, <5>1
      <4>2. CASE ~NeedsPart(e)
        <5>1. <<e.item, e.part>> \in announcedParts /\ e.item \in Items
          BY <3>3, <4>2 DEF NeedsPart, Event
        <5>2. e.type \notin Lifecycle /\ e.type \in MessageTypes
          BY <3>3 DEF TextPartTypes, MessageTypes, Lifecycle, Ends
        <5>3. e.part \in Parts
          <6>1. e.of \in Items /\ e.part \in told'[e.of].used /\ told' \in [Items -> Telling]
            BY <2>1, <5>2 DEF Utterance
          <6> QED
            BY <6>1 DEF Telling
        <5>4. PICK k \in PartIn(Out, e.item, e.part) : TRUE
          BY <1>0, <5>1, <5>3 DEF Announcements, PartOut
        <5>5. k \in 1..n /\ k \in PartIn(Out', e.item, e.part)
          BY <2>4, <5>4
        <5> QED
          BY <2>2, <5>5
      <4> QED
        BY <4>1, <4>2
    <3> QED
      BY <2>7, <3>1, <3>2, <3>3
  <2>8. CASE NeedsItem(e) /\ l = n + 1
    <3>1. Out'[l].type = "item.added"
      BY <2>2, <2>8, Fields
    <3> QED
      BY <3>1 DEF TextPartTypes
  <2>9. CASE NeedsPart(e) /\ l = m - 1
    <3>1. Out'[l].type = "part.added" /\ Out'[l].item = e.item
      BY <2>2, <2>9, Fields
    <3>2. e.item # NoItem /\ e.type \in MessageTypes
      BY <2>9 DEF NeedsPart, MessageTypes
    <3> QED
      BY <2>5, <2>9, <3>1, <3>2 DEF TextPartTypes
  <2> QED
    BY <2>2, <2>6, <2>7, <2>8, <2>9
<1>2. CASE Yield \/ UNCHANGED vars
  <2>1. Out' = Out
    BY <1>0, <1>2, Quiet
  <2> QED
    BY <1>0, <2>1 DEF Precedence, ItemOut, PartOut
<1> QED
  BY <1>1, <1>2 DEF Next

\* Nothing is taken about an item that is done.
LEMMA ClosingsStep == ASSUME BridgeInv, [Next]_vars PROVE Closings'
<1>0. TypeOK /\ Shapes /\ Closings
  BY DEF BridgeInv
<1>1. CASE Upstream
  <2>1. PICK e \in Event : Take(e) /\ Utterance(e)
    BY <1>1, Spoken
  <2>2. PICK n, m \in Nat :
           /\ DOMAIN Out = 1..n /\ DOMAIN Out' = 1..m /\ n < m
           /\ \A k \in 1..n : Out'[k] = Out[k]
           /\ Out'[m] = MaybeRewriteId(e)
           /\ \A k \in 1..m : \/ k \in 1..n
                              \/ k = m
                              \/ NeedsItem(e) /\ k = n + 1
                              \/ NeedsPart(e) /\ k = m - 1
           /\ NeedsItem(e) => Out'[n + 1] = Synthetic("item.added", e)
           /\ NeedsPart(e) => Out'[m - 1] = Synthetic("part.added", e)
    BY <1>0, <2>1, Took
  <2>3. \A k \in 1..m : \/ k \in 1..n /\ Out'[k] = Out[k]
                        \/ Out'[k].of = e.of /\ (Out'[k].type = "item.done" => k = m)
    <3> SUFFICES ASSUME NEW k \in 1..m, k \notin 1..n
                 PROVE  Out'[k].of = e.of /\ (Out'[k].type = "item.done" => k = m)
      BY <2>2
    <3>1. CASE k = m
      BY <2>2, <3>1, Fields
    <3>2. CASE NeedsItem(e) /\ k = n + 1
      BY <2>2, <3>2, Fields
    <3>3. CASE NeedsPart(e) /\ k = m - 1
      BY <2>2, <3>3, Fields
    <3> QED
      BY <2>2, <3>1, <3>2, <3>3
  <2>4. /\ Out'[m].of = e.of /\ Out'[m].type = e.type
    BY <2>2, Fields
  <2>5. ASSUME NEW i \in Items, told[i].done
        PROVE  told'[i].done /\ e.of # i
    <3>1. CASE e.type \in Lifecycle
      BY <2>1, <2>5, <3>1, BridgeAssumption DEF Utterance
    <3>2. CASE e.type \notin Lifecycle
      BY <2>1, <2>5, <3>2 DEF Utterance
    <3> QED
      BY <3>1, <3>2
  <2> SUFFICES ASSUME NEW l \in DOMAIN Out', Out'[l].type = "item.done"
               PROVE  /\ told'[Out'[l].of].done
                      /\ \A k \in DOMAIN Out' : l < k => Out'[k].of # Out'[l].of
    BY DEF Closings
  <2>6. CASE l \in 1..n
    <3>1. Out'[l] = Out[l] /\ l \in DOMAIN Out
      BY <2>2, <2>6
    <3>2. Out[l].of \in Items
      BY <1>0, <3>1 DEF Shapes, Lifecycle, Ends
    <3>3. /\ told[Out[l].of].done
          /\ \A k \in DOMAIN Out : l < k => Out[k].of # Out[l].of
      BY <1>0, <3>1 DEF Closings
    <3>4. told'[Out[l].of].done /\ e.of # Out[l].of
      BY <2>5, <3>2, <3>3
    <3> QED
      BY <2>2, <2>3, <3>1, <3>3, <3>4
  <2>7. CASE l \notin 1..n
    <3>1. l = m /\ e.type = "item.done"
      BY <2>2, <2>3, <2>4, <2>7
    <3>2. told'[e.of].done
      BY <2>1, <3>1 DEF Utterance, Lifecycle, Ends
    <3>3. \A k \in 1..m : ~(l < k)
      BY <3>1
    <3> QED
      BY <2>2, <2>4, <3>1, <3>2, <3>3
  <2> QED
    BY <2>6, <2>7
<1>2. CASE Yield \/ UNCHANGED vars
  BY <1>0, <1>2, Quiet DEF Closings, upstream
<1> QED
  BY <1>1, <1>2 DEF Next

\* Nothing is taken about an item that is not booked, unless it is a call.
LEMMA AccountedStep == ASSUME BridgeInv, [Next]_vars PROVE Accounted'
<1>0. TypeOK /\ Shapes /\ Booked /\ Accounted
  BY DEF BridgeInv
<1>1. CASE Upstream
  <2>1. PICK e \in Event : Take(e) /\ Utterance(e)
    BY <1>1, Spoken
  <2>2. PICK n, m \in Nat :
           /\ DOMAIN Out = 1..n /\ DOMAIN Out' = 1..m
           /\ \A k \in 1..n : Out'[k] = Out[k]
           /\ Out'[m] = MaybeRewriteId(e)
           /\ \A k \in 1..m : \/ k \in 1..n
                              \/ k = m
                              \/ NeedsItem(e) /\ k = n + 1
                              \/ NeedsPart(e) /\ k = m - 1
           /\ NeedsItem(e) => Out'[n + 1] = Synthetic("item.added", e)
           /\ NeedsPart(e) => Out'[m - 1] = Synthetic("part.added", e)
    BY <1>0, <2>1, Took
  <2>3. \A k \in 1..m : (k \in 1..n /\ Out'[k] = Out[k]) \/ Out'[k].of = e.of
    <3>1. /\ Out'[m].of = e.of
          /\ NeedsItem(e) => Out'[n + 1].of = e.of
          /\ NeedsPart(e) => Out'[m - 1].of = e.of
      BY <2>2, Fields
    <3> QED
      BY <2>2, <3>1
  <2>4. announcedItems' = IF e.item # NoItem /\ e.type \in MessageTypes \cup {"item.added"}
                          THEN announcedItems \cup {e.item} ELSE announcedItems
    BY <2>1 DEF Take, SynthesizeMissingAnnouncements
  <2>5. NoItem \notin Items /\ Items = Messages \cup Calls
    BY BridgeAssumption DEF Items
  <2>6. CASE e.type \in Lifecycle
    <3>1. e.of = NoItem /\ told' = told /\ announcedItems \subseteq announcedItems'
      BY <2>1, <2>4, <2>6 DEF Utterance
    <3> QED
      BY <1>0, <2>2, <2>3, <3>1 DEF Accounted
  <2>7. CASE e.type \notin Lifecycle
    <3> DEFINE i == e.of
    <3>1. /\ i \in Items /\ e.item \in {i, NoItem}
          /\ \A j \in Items \ {i} : told'[j] = told[j]
          /\ e.type = "item.done" => i \in open
          /\ e.type # "item.added" => told'[i].added = told[i].added
          /\ e.type \notin TextPartTypes => e.item = i
          /\ e.item = NoItem => told[i].added
          /\ e.type = "args.delta" => i \in Calls
      BY <2>1, <2>7 DEF Utterance
    <3>2. /\ told[i].added => i \in announcedItems
          /\ i \in open \cap Messages => i \in announcedItems
      BY <1>0, <3>1 DEF Booked
    <3>3. e.type \in MessageTypes \cup {"item.added", "args.delta", "item.done"}
          /\ TextPartTypes \subseteq MessageTypes /\ "item.added" \notin TextPartTypes
          /\ "item.added" \notin MessageTypes
      BY <2>7 DEF Event, EventTypes, MessageTypes, TextPartTypes
    <3> HIDE DEF i
    <3>4. announcedItems \subseteq announcedItems'
      BY <2>4
    <3>5. e.type \in MessageTypes \cup {"item.added"} => i \in announcedItems'
      BY <2>4, <2>5, <3>1, <3>2
    <3>6. i \in announcedItems' \/ (i \in Calls /\ ~told'[i].added)
      BY <2>5, <3>1, <3>2, <3>3, <3>4, <3>5
    <3>7. \A j \in Items : j \in announcedItems \/ (j \in Calls /\ ~told[j].added) =>
                           j \in announcedItems' \/ (j \in Calls /\ ~told'[j].added)
      BY <3>1, <3>4, <3>6
    <3>8. \A k \in DOMAIN Out :
             Out[k].of \in {NoItem} \cup Items /\
             (Out[k].of \in {NoItem} \cup announcedItems
              \/ (Out[k].of \in Calls /\ ~told[Out[k].of].added))
      BY <1>0, <2>5 DEF Accounted, Shapes
    <3> QED
      BY <2>2, <2>3, <3>6, <3>7, <3>8 DEF Accounted, i
  <2> QED
    BY <2>6, <2>7
<1>2. CASE Yield \/ UNCHANGED vars
  BY <1>0, <1>2, Quiet DEF Accounted, upstream, bookkeeping
<1> QED
  BY <1>1, <1>2 DEF Next

-----------------------------------------------------------------------------
\* Where the client's stream announces items is a finite set of positions.
LEMMA AddedAtIs ==
    ASSUME TypeOK
    PROVE  AddedAt \in SUBSET Nat /\ IsFiniteSet(AddedAt) /\ AddedAt \subseteq DOMAIN forwarded
<1>1. IsFiniteSet(DOMAIN forwarded) /\ DOMAIN forwarded \in SUBSET Nat
  <2>1. DOMAIN forwarded = 1..Len(forwarded) /\ Len(forwarded) \in Nat
    BY DEF TypeOK
  <2>2. IsFiniteSet(1..Len(forwarded))
    BY <2>1, FS_Interval
  <2> QED
    BY <2>1, <2>2
<1> QED
  BY <1>1, FS_Subset DEF AddedAt

\* An item is listed when, and only when, its announcement is forwarded.
LEMMA ListingStep == ASSUME BridgeInv, [Next]_vars PROVE Listing'
<1>0. TypeOK /\ Shapes /\ Listing
  BY DEF BridgeInv
<1>1. CASE Upstream
  <2>1. PICK e \in Event : Take(e)
    BY <1>1, Spoken
  <2> QED
    BY <1>0, <2>1 DEF Take, Listing, AddedAt
<1>2. CASE UNCHANGED vars
  BY <1>0, <1>2 DEF vars, Listing, AddedAt
<1>3. CASE Yield
  <2>1. PICK e \in Event :
           /\ forwarded' = Append(forwarded, e)
           /\ order' = IF e.type = "item.added" THEN Append(order, e.item) ELSE order
    BY <1>0, <1>3, Consumed
  <2> DEFINE x == Len(forwarded) + 1
  <2>2. /\ forwarded \in Seq(Event) /\ order \in Seq(Items) /\ x \in Nat
        /\ DOMAIN forwarded' = DOMAIN forwarded \cup {x} /\ forwarded'[x] = e
        /\ \A k \in DOMAIN forwarded : k < x /\ forwarded'[k] = forwarded[k]
    BY <1>0, <2>1 DEF TypeOK
  <2>3. /\ AddedAt \in SUBSET Nat /\ IsFiniteSet(AddedAt)
        /\ AddedAt \subseteq DOMAIN forwarded /\ Cardinality(AddedAt) \in Nat
        /\ \A k \in AddedAt : k < x
    BY <1>0, <2>2, AddedAtIs, FS_CardinalityType
  <2>4. /\ Len(order) = Cardinality(AddedAt) /\ DOMAIN order = 1..Cardinality(AddedAt)
        /\ \A k \in DOMAIN order : order[k] = forwarded[Nth(AddedAt, k)].item
    BY <1>0, <2>2 DEF Listing
  <2>5. \A k \in DOMAIN order : order[k] = forwarded'[Nth(AddedAt, k)].item
    <3> SUFFICES ASSUME NEW k \in DOMAIN order
                 PROVE  order[k] = forwarded'[Nth(AddedAt, k)].item
      OBVIOUS
    <3>1. Nth(AddedAt, k) \in DOMAIN forwarded
      BY <2>3, <2>4, NthIsThere
    <3> QED
      BY <2>2, <2>4, <3>1
  <2> HIDE DEF x
  <2>6. CASE e.type = "item.added"
    <3>1. AddedAt' = AddedAt \cup {x}
      BY <2>2, <2>6 DEF AddedAt
    <3>2. /\ Cardinality(AddedAt') = Cardinality(AddedAt) + 1
          /\ Nth(AddedAt', Cardinality(AddedAt) + 1) = x
          /\ \A n \in 1..Cardinality(AddedAt) : Nth(AddedAt', n) = Nth(AddedAt, n)
      BY <2>2, <2>3, <3>1, NthGrows, ZenonT(60)
    <3>3. /\ order' = Append(order, e.item) /\ Len(order') = Cardinality(AddedAt) + 1
          /\ DOMAIN order' = DOMAIN order \cup {Cardinality(AddedAt) + 1}
          /\ \A k \in DOMAIN order : order'[k] = order[k]
          /\ order'[Cardinality(AddedAt) + 1] = e.item
      BY <2>1, <2>2, <2>3, <2>4, <2>6
    <3>4. ASSUME NEW k \in DOMAIN order'
          PROVE  order'[k] = forwarded'[Nth(AddedAt', k)].item
      <4>1. CASE k = Cardinality(AddedAt) + 1
        BY <2>2, <3>2, <3>3, <4>1
      <4>2. CASE k \in DOMAIN order
        BY <2>4, <2>5, <3>2, <3>3, <4>2
      <4> QED
        BY <3>3, <4>1, <4>2
    <3> QED
      BY <3>2, <3>3, <3>4 DEF Listing
  <2>7. CASE e.type # "item.added"
    <3>1. AddedAt' = AddedAt
      BY <2>2, <2>7 DEF AddedAt
    <3>2. order' = order
      BY <2>1, <2>7
    <3> QED
      BY <2>4, <2>5, <3>1, <3>2 DEF Listing
  <2> QED
    BY <2>6, <2>7
<1> QED
  BY <1>1, <1>2, <1>3 DEF Next

\* response.created is consumed first.
LEMMA IdentityStep == ASSUME BridgeInv, [Next]_vars PROVE Identity'
<1>0. TypeOK /\ Shapes /\ Beginning /\ Identity
  BY DEF BridgeInv
<1>1. CASE Upstream
  <2>1. PICK e \in Event : Take(e)
    BY <1>1, Spoken
  <2> QED
    BY <1>0, <2>1 DEF Take, Identity
<1>2. CASE UNCHANGED vars
  BY <1>0, <1>2 DEF vars, Identity
<1>3. CASE Yield
  <2>1. PICK e \in Event :
           /\ Len(forwarded) + 1 \in DOMAIN Out /\ Out[Len(forwarded) + 1] = e
           /\ final' = IF e.type = "created"
                       THEN [id |-> e.id, status |-> "in_progress"] ELSE final
    BY <1>0, <1>3, Consumed
  <2>2. e.type = "created" => final'.id = RewriteId
    BY <1>0, <2>1 DEF Shapes, Lifecycle
  <2>3. CASE forwarded = <<>>
    <3>1. Out # <<>> /\ count \in Nat
      BY <1>0, <2>1, BridgeAssumption DEF TypeOK
    <3>2. Out[1].type = "created"
      BY <1>0, <3>1 DEF Beginning
    <3> QED
      BY <2>1, <2>2, <2>3, <3>2 DEF Identity
  <2>4. CASE forwarded # <<>>
    <3>1. final.id = RewriteId
      BY <1>0, <2>4 DEF Identity
    <3> QED
      BY <2>1, <2>2, <3>1 DEF Identity
  <2> QED
    BY <2>3, <2>4
<1> QED
  BY <1>1, <1>2, <1>3 DEF Next

-----------------------------------------------------------------------------
\* The greatest member of a set of numbers is its maximum.
LEMMA MaxIs ==
    ASSUME NEW S \in SUBSET Nat, NEW m \in S, \A k \in S : k <= m
    PROVE  Max(S) = m /\ (CHOOSE k \in S : \A l \in S : l <= k) = m
<1>1. ASSUME NEW k \in S, \A l \in S : l <= k PROVE k = m
  <2>1. k <= m /\ m <= k /\ k \in Nat /\ m \in Nat
    BY <1>1
  <2> QED
    BY <2>1
<1>2. (CHOOSE k \in S : \A l \in S : l <= k) = m
  BY <1>1
<1>3. ASSUME NEW k \in S, \A l \in S : k >= l PROVE k = m
  <2>1. k <= m /\ k >= m /\ k \in Nat /\ m \in Nat
    BY <1>3
  <2> QED
    BY <2>1
<1>4. \A l \in S : m >= l
  <2>1. \A l \in S : l <= m /\ l \in Nat /\ m \in Nat
    OBVIOUS
  <2> QED
    BY <2>1
<1>5. Max(S) = m
  BY <1>3, <1>4 DEF Max
<1> QED
  BY <1>2, <1>5

(***************************************************************************)
(* _latest_item_of_type("message") finds the message the client saw        *)
(* announced last.                                                         *)
(***************************************************************************)
LEMMA LatestIsBefore ==
    ASSUME TypeOK, Listing
    PROVE  LatestMessage = MessageBefore(Len(forwarded) + 1)
<1> DEFINE known == {k \in DOMAIN order : order[k] \in Messages}
           at == {k \in AddedAt : forwarded[k].item \in Messages}
           x == Len(forwarded) + 1
<1>1. forwarded \in Seq(Event) /\ order \in Seq(Items) /\ Len(order) \in Nat
  BY DEF TypeOK
<1>2. AddedAt \in SUBSET Nat /\ IsFiniteSet(AddedAt) /\ Cardinality(AddedAt) \in Nat
  BY AddedAtIs, FS_CardinalityType
<1>3. /\ DOMAIN order = 1..Cardinality(AddedAt) /\ Len(order) = Cardinality(AddedAt)
      /\ \A k \in DOMAIN order : order[k] = forwarded[Nth(AddedAt, k)].item
  BY <1>1 DEF Listing
<1>4. {k \in 1..x - 1 : /\ forwarded[k].type = "item.added"
                        /\ forwarded[k].item \in Messages} = at
  <2>1. 1..x - 1 = DOMAIN forwarded
    BY <1>1
  <2> QED
    BY <2>1 DEF AddedAt
<1>5. MessageBefore(x) = IF at = {} THEN NoItem ELSE forwarded[Max(at)].item
  BY <1>4 DEF MessageBefore
<1>6. LatestMessage = IF known = {} THEN NoItem
                      ELSE order[CHOOSE k \in known : \A l \in known : l <= k]
  BY DEF LatestMessage
<1>7. \A a \in at : \E k \in known : Nth(AddedAt, k) = a
  <2> SUFFICES ASSUME NEW a \in at PROVE \E k \in known : Nth(AddedAt, k) = a
    OBVIOUS
  <2> DEFINE r == Cardinality(UpTo(AddedAt, a))
  <2>1. r \in 1..Cardinality(AddedAt) /\ Nth(AddedAt, r) = a
    BY <1>2, NthIs
  <2> HIDE DEF r
  <2>2. r \in known
    BY <1>3, <2>1
  <2> QED
    BY <2>1, <2>2
<1>8. \A k \in known : Nth(AddedAt, k) \in at
  BY <1>2, <1>3, NthIsThere
<1>9. CASE known = {}
  BY <1>5, <1>6, <1>7, <1>9
<1>10. CASE known # {}
  <2>1. known \in SUBSET Nat /\ \A k \in known : k <= Len(order)
    BY <1>1, <1>3
  <2>2. PICK m \in known : \A k \in known : k <= m
    BY <1>1, <1>10, <2>1, Greatest
  <2>3. LatestMessage = order[m]
    BY <1>6, <1>10, <2>1, <2>2, MaxIs
  <2> DEFINE b == Nth(AddedAt, m)
  <2>4. b \in at /\ at \in SUBSET Nat
    BY <1>2, <1>8, <2>2
  <2>5. \A a \in at : a <= b
    <3> SUFFICES ASSUME NEW a \in at PROVE a <= b
      OBVIOUS
    <3>1. PICK k \in known : Nth(AddedAt, k) = a
      BY <1>7
    <3>2. k = m \/ k < m
      BY <2>1, <2>2
    <3>3. k \in 1..Cardinality(AddedAt) /\ m \in 1..Cardinality(AddedAt)
      BY <1>3
    <3>4. CASE k = m
      BY <2>4, <3>1, <3>4
    <3>5. CASE k < m
      <4>1. a < b
        BY <1>2, <3>1, <3>3, <3>5, NthOrder
      <4>2. a \in Nat /\ b \in Nat
        BY <2>4
      <4> QED
        BY <4>1, <4>2
    <3> QED
      BY <3>2, <3>4, <3>5
  <2> HIDE DEF b
  <2>6. Max(at) = b
    BY <2>4, <2>5, MaxIs
  <2>7. order[m] = forwarded[b].item
    BY <1>3, <2>2 DEF b
  <2> QED
    BY <1>5, <2>3, <2>4, <2>6, <2>7
<1> QED
  BY <1>9, <1>10

(***************************************************************************)
(* What is forwarded next changes nothing about the messages before, and   *)
(* is stray if it is text of another message than the latest.              *)
(***************************************************************************)
LEMMA Forwards ==
    ASSUME TypeOK, Listing, NEW e \in Event, forwarded' = Append(forwarded, e),
           NEW x \in Nat, x = Len(forwarded) + 1
    PROVE  /\ forwarded \in Seq(Event)
           /\ DOMAIN forwarded = 1..x - 1 /\ DOMAIN forwarded' = 1..x
           /\ x \in 1..x /\ \A k \in 1..x - 1 : k \in 1..x /\ k < x
           /\ forwarded'[x] = e
           /\ \A k \in 1..x - 1 : forwarded'[k] = forwarded[k]
           /\ LatestMessage = MessageBefore(x)
           /\ \A l \in 1..x : MessageBefore(l)' = MessageBefore(l)
           /\ Strays \subseteq Strays'
           /\ e.type = "text.delta" /\ e.of # LatestMessage => x \in Strays'
<1>1. /\ forwarded \in Seq(Event)
      /\ DOMAIN forwarded = 1..x - 1 /\ DOMAIN forwarded' = 1..x
      /\ x \in 1..x /\ \A k \in 1..x - 1 : k \in 1..x /\ k < x
      /\ forwarded'[x] = e
      /\ \A k \in 1..x - 1 : forwarded'[k] = forwarded[k]
  BY DEF TypeOK
<1>2. LatestMessage = MessageBefore(x)
  BY LatestIsBefore
<1>3. ASSUME NEW l \in 1..x PROVE MessageBefore(l)' = MessageBefore(l)
  <2>1. \A k \in 1..l - 1 : k \in 1..x - 1 /\ k \in 1..x
    BY <1>1
  <2>2. \A k \in 1..l - 1 : forwarded'[k] = forwarded[k]
    BY <1>1, <2>1
  <2> DEFINE old == {k \in 1..l - 1 : /\ forwarded[k].type = "item.added"
                                     /\ forwarded[k].item \in Messages}
             new == {k \in 1..l - 1 : /\ forwarded'[k].type = "item.added"
                                     /\ forwarded'[k].item \in Messages}
  <2>3. old = new
    BY <2>2
  <2>4. old \subseteq 1..x - 1 /\ old \in SUBSET Nat /\ \A k \in old : k <= x
    BY <1>1, <2>1
  <2>5. /\ MessageBefore(l) = IF old = {} THEN NoItem ELSE forwarded[Max(old)].item
        /\ MessageBefore(l)' = IF new = {} THEN NoItem ELSE forwarded'[Max(new)].item
    BY DEF MessageBefore
  <2> HIDE DEF old, new
  <2>6. old # {} => Max(old) \in 1..x - 1
    BY <1>1, <2>4, Greatest, MaxIs, ZenonT(60)
  <2> QED
    BY <1>1, <2>3, <2>5, <2>6
<1>4. /\ Strays \subseteq Strays'
      /\ e.type = "text.delta" /\ e.of # LatestMessage => x \in Strays'
  <2>1. Strays' = {l \in 1..x : forwarded'[l].type = "text.delta"
                                /\ forwarded'[l].of # MessageBefore(l)'}
    BY <1>1 DEF Strays
  <2>2. Strays = {l \in 1..x - 1 : forwarded[l].type = "text.delta"
                                   /\ forwarded[l].of # MessageBefore(l)}
    BY <1>1 DEF Strays
  <2> QED
    BY <1>1, <1>2, <1>3, <2>1, <2>2
<1> QED
  BY <1>1, <1>2, <1>3, <1>4

\* What is closed stays as it was closed, up to stray text.
LEMMA ClosedStep == ASSUME BridgeInv, [Next]_vars PROVE Closed'
<1>0. TypeOK /\ Shapes /\ Closings /\ Listing /\ Closed
  BY DEF BridgeInv
<1>1. CASE Upstream \/ UNCHANGED vars
  <2>1. UNCHANGED <<forwarded, items>>
    BY <1>1, Spoken DEF Take, vars
  <2>2. \A l : MessageBefore(l)' = MessageBefore(l)
    BY <2>1 DEF MessageBefore
  <2>3. Strays' = Strays
    BY <2>1 DEF Strays, MessageBefore
  <2>4. ASSUME NEW l \in DOMAIN forwarded', forwarded'[l].type = "item.done",
               \A m \in Strays' : l < m => MessageBefore(m)' # forwarded'[l].item
        PROVE  items'[forwarded'[l].item] = Known(forwarded'[l].content)
    BY <1>0, <2>1, <2>2, <2>3, <2>4 DEF Closed
  <2> QED
    BY <2>4 DEF Closed
<1>2. CASE Yield
  <2>0. PICK x \in Nat : x = Len(forwarded) + 1
    BY <1>0 DEF TypeOK
  <2>1. PICK e \in Event :
           /\ x \in DOMAIN Out /\ Out[x] = e
           /\ forwarded' = Append(forwarded, e)
           /\ items' \in [Items -> Slot]
           /\ e.type \in {"item.added", "args.delta", "item.done"} =>
                 /\ e.item \in Items
                 /\ \A j \in Items \ {e.item} : items'[j] = items[j]
           /\ e.type = "item.done" => items'[e.item] = Known(e.content)
           /\ e.type = "text.delta" =>
                 \A j \in Items \ {LatestMessage} : items'[j] = items[j]
           /\ e.type \notin {"item.added", "text.delta", "args.delta", "item.done"} =>
                 items' = items
    BY <1>0, <1>2, <2>0, Consumed
  <2>2. /\ forwarded \in Seq(Event) /\ x \in Nat
        /\ DOMAIN forwarded = 1..x - 1 /\ DOMAIN forwarded' = 1..x
        /\ forwarded'[x] = e
        /\ \A k \in 1..x - 1 : forwarded'[k] = forwarded[k] /\ Out[k] = forwarded[k]
        /\ 1..x - 1 \subseteq DOMAIN Out
    BY <1>0, <2>0, <2>1, OutIs, SMTT(60) DEF TypeOK
  <2>3. LatestMessage = MessageBefore(x)
    BY <1>0, <2>0, <2>1, Forwards
  <2>4. \A l \in 1..x : MessageBefore(l)' = MessageBefore(l)
    BY <1>0, <2>0, <2>1, Forwards
  <2>5. /\ Strays \subseteq Strays'
        /\ e.type = "text.delta" /\ e.of # LatestMessage => x \in Strays'
    BY <1>0, <2>0, <2>1, Forwards
  <2>6. ASSUME NEW l \in DOMAIN forwarded', forwarded'[l].type = "item.done",
               \A m \in Strays' : l < m => MessageBefore(m)' # forwarded'[l].item
        PROVE  items'[forwarded'[l].item] = Known(forwarded'[l].content)
    <3>1. CASE l = x
      BY <2>1, <2>2, <2>6, <3>1
    <3>2. CASE l \in 1..x - 1
      <4> DEFINE i == forwarded[l].item
      <4>1. /\ forwarded'[l] = forwarded[l] /\ Out[l] = forwarded[l] /\ l \in DOMAIN Out
            /\ forwarded[l].type = "item.done"
        BY <2>2, <2>6, <3>2
      <4>2. i = Out[l].of /\ i \in Items /\ i # NoItem
        BY <1>0, <4>1, BridgeAssumption DEF Shapes, Lifecycle, Ends
      <4>3. e.of # i
        <5>1. l < x
          BY <2>2, <3>2
        <5> QED
          BY <1>0, <2>1, <4>1, <4>2, <5>1 DEF Closings
      <4>4. ASSUME NEW m \in Strays, l < m PROVE MessageBefore(m) # i
        <5>1. m \in 1..x /\ m \in Strays'
          BY <2>2, <2>5 DEF Strays
        <5> QED
          BY <2>4, <2>6, <4>1, <4>4, <5>1
      <4>5. items[i] = Known(forwarded[l].content)
        BY <1>0, <2>2, <3>2, <4>1, <4>4 DEF Closed
      <4>6. e.type = "text.delta" => LatestMessage # i
        <5> SUFFICES ASSUME e.type = "text.delta", LatestMessage = i PROVE FALSE
          OBVIOUS
        <5>1. x \in Strays' /\ l < x /\ x \in 1..x
          BY <2>2, <2>5, <3>2, <4>3
        <5>2. MessageBefore(x)' # i
          BY <2>6, <4>1, <5>1
        <5> QED
          BY <2>3, <2>4, <5>1, <5>2
      <4>7. e.type \in {"item.added", "args.delta", "item.done"} => e.item # i
        BY <1>0, <2>1, <4>3 DEF Shapes
      <4>8. items'[i] = items[i]
        BY <2>1, <4>2, <4>6, <4>7
      <4> QED
        BY <4>1, <4>5, <4>8
    <3> QED
      BY <2>2, <3>1, <3>2
  <2> QED
    BY <2>6 DEF Closed
<1> QED
  BY <1>1, <1>2 DEF Next

-----------------------------------------------------------------------------
\* What a stream brings of an item, piece by piece.
LEMMA PiecesAre ==
    ASSUME NEW s \in Seq(Event), NEW i
    PROVE  LET P == DeltasIn(s, i) IN
           /\ P \in SUBSET Nat /\ IsFiniteSet(P) /\ P \subseteq DOMAIN s
           /\ Cardinality(P) \in Nat
           /\ \A n \in 1..Cardinality(P) : Nth(P, n) \in P
           /\ PiecesIn(s, i) = [n \in 1..Cardinality(P) |->
                                  [of |-> i, part |-> s[Nth(P, n)].part]]
<1> DEFINE P == DeltasIn(s, i)
<1>1. P \subseteq DOMAIN s
  BY DEF DeltasIn
<1>2. IsFiniteSet(DOMAIN s) /\ DOMAIN s \in SUBSET Nat
  BY FS_Interval
<1>3. P \in SUBSET Nat /\ IsFiniteSet(P) /\ Cardinality(P) \in Nat
  BY <1>1, <1>2, FS_Subset, FS_CardinalityType
<1>4. /\ DOMAIN Pick(s, P) = 1..Cardinality(P)
      /\ \A n \in 1..Cardinality(P) : Pick(s, P)[n] = s[Nth(P, n)]
  BY DEF Pick
<1>5. PiecesIn(s, i) = [n \in DOMAIN Pick(s, P) |-> [of |-> i, part |-> Pick(s, P)[n].part]]
  BY DEF PiecesIn
<1>6. \A n \in 1..Cardinality(P) : Nth(P, n) \in P
  BY <1>3, NthIsThere
<1> HIDE DEF P
<1>7. PiecesIn(s, i) = [n \in 1..Cardinality(P) |-> [of |-> i, part |-> s[Nth(P, n)].part]]
  BY <1>4, <1>5
<1> QED
  BY <1>1, <1>3, <1>6, <1>7 DEF P

\* A longer stream brings what it brought before, and one piece more if one of
\* its new events does.
LEMMA PiecesGrow ==
    ASSUME NEW s \in Seq(Event), NEW t \in Seq(Event), NEW i,
           \A k \in DOMAIN s : k \in DOMAIN t /\ t[k] = s[k]
    PROVE  /\ DeltasIn(t, i) = DeltasIn(s, i) => PiecesIn(t, i) = PiecesIn(s, i)
           /\ \A x \in DOMAIN t \ DOMAIN s :
                 DeltasIn(t, i) = DeltasIn(s, i) \cup {x} =>
                    PiecesIn(t, i) = Append(PiecesIn(s, i), [of |-> i, part |-> t[x].part])
<1> DEFINE P == DeltasIn(s, i)
           Q == DeltasIn(t, i)
           c == Cardinality(P)
<1>1. /\ P \in SUBSET Nat /\ IsFiniteSet(P) /\ P \subseteq DOMAIN s /\ c \in Nat
      /\ \A n \in 1..c : Nth(P, n) \in P
      /\ PiecesIn(s, i) = [n \in 1..c |-> [of |-> i, part |-> s[Nth(P, n)].part]]
  BY PiecesAre
<1>2. PiecesIn(t, i) = [n \in 1..Cardinality(Q) |-> [of |-> i, part |-> t[Nth(Q, n)].part]]
  BY PiecesAre
<1>3. DOMAIN s = 1..Len(s) /\ Len(s) \in Nat /\ DOMAIN t \in SUBSET Nat
  OBVIOUS
<1>4. \A n \in 1..c : t[Nth(P, n)] = s[Nth(P, n)]
  BY <1>1
<1> HIDE DEF P, Q, c
<1>5. Q = P => PiecesIn(t, i) = PiecesIn(s, i)
  BY <1>1, <1>2, <1>4 DEF c
<1>6. ASSUME NEW x \in DOMAIN t \ DOMAIN s, Q = P \cup {x}
      PROVE  PiecesIn(t, i) = Append(PiecesIn(s, i), [of |-> i, part |-> t[x].part])
  <2>1. x \in Nat /\ \A k \in P : k < x
    <3>1. x \in Nat /\ ~(x \in 1..Len(s)) /\ \A k \in P : k \in 1..Len(s)
      BY <1>1, <1>3
    <3>2. x # 0
      BY <1>3
    <3> QED
      BY <1>3, <3>1, <3>2
  <2>2. /\ Cardinality(Q) = c + 1 /\ Nth(Q, c + 1) = x
        /\ \A n \in 1..c : Nth(Q, n) = Nth(P, n)
    BY <1>1, <1>6, <2>1, NthGrows, ZenonT(60) DEF c
  <2> DEFINE Piece1(n) == [of |-> i, part |-> t[Nth(Q, n)].part]
             old == PiecesIn(s, i)
             new == PiecesIn(t, i)
  <2>3. new = [n \in 1..c + 1 |-> Piece1(n)]
    BY <1>2, <2>2
  <2>4. old = [n \in 1..c |-> Piece1(n)]
    BY <1>1, <1>4, <2>2
  <2>5. Piece1(c + 1) = [of |-> i, part |-> t[x].part]
    BY <2>2
  <2> HIDE DEF Piece1, old, new
  <2>6. [n \in 1..c + 1 |-> Piece1(n)] = Append([n \in 1..c |-> Piece1(n)], Piece1(c + 1))
    BY <1>1
  <2> QED
    BY <2>3, <2>4, <2>5, <2>6 DEF old, new
<1> QED
  BY <1>5, <1>6 DEF P, Q

\* The upstream's record of pieces grows with what tee() puts into Out.
LEMMA RetoldStep == ASSUME BridgeInv, [Next]_vars PROVE Retold'
<1>0. TypeOK /\ Shapes /\ Closings /\ Retold
  BY DEF BridgeInv
<1>1. CASE Yield \/ UNCHANGED vars
  <2>1. Out' = Out /\ told' = told
    BY <1>0, <1>1, Quiet DEF upstream
  <2>2. \A i \in Items : told'[i].pieces = PiecesIn(Out', i)
    BY <1>0, <2>1 DEF Retold
  <2>3. \A l \in DOMAIN Out' : Out'[l].type = "item.done" =>
           Out'[l].content = ByPart(told'[Out'[l].of].pieces)
    BY <1>0, <2>1 DEF Retold
  <2> QED
    BY <2>2, <2>3 DEF Retold
<1>2. CASE Upstream
  <2>1. PICK e \in Event : Take(e) /\ Utterance(e)
    BY <1>2, Spoken
  <2>2. PICK n, m \in Nat :
           /\ DOMAIN Out = 1..n /\ DOMAIN Out' = 1..m /\ n < m
           /\ Out' \in Seq(Event)
           /\ \A k \in 1..n : Out'[k] = Out[k]
           /\ Out'[m] = MaybeRewriteId(e)
           /\ \A k \in 1..m : \/ k \in 1..n
                              \/ k = m
                              \/ NeedsItem(e) /\ k = n + 1
                              \/ NeedsPart(e) /\ k = m - 1
           /\ NeedsItem(e) => Out'[n + 1] = Synthetic("item.added", e)
           /\ NeedsPart(e) => Out'[m - 1] = Synthetic("part.added", e)
    BY <1>0, <2>1, Took
  <2>3. /\ Out'[m].type = e.type /\ Out'[m].of = e.of /\ Out'[m].part = e.part
        /\ Out'[m].content = e.content /\ m \in 1..m /\ m \notin 1..n
    BY <2>2, Fields
  <2>4. \A k \in 1..m : \/ k \in 1..n
                        \/ k = m
                        \/ Out'[k].type \in {"item.added", "part.added"}
    <3>1. /\ NeedsItem(e) => Out'[n + 1].type = "item.added"
          /\ NeedsPart(e) => Out'[m - 1].type = "part.added"
      BY <2>2, Fields
    <3>2. \A k \in 1..m : k \in 1..n \/ k = m \/ (NeedsItem(e) /\ k = n + 1)
                           \/ (NeedsPart(e) /\ k = m - 1)
      BY <2>2
    <3> QED
      BY <3>1, <3>2
  <2>5. PICK s \in Seq(Event), t \in Seq(Event) : s = Out /\ t = Out'
    BY <1>0, <2>2, OutIs
  <2>6. /\ DOMAIN s = 1..n /\ DOMAIN t = 1..m
        /\ \A k \in DOMAIN s : k \in DOMAIN t /\ t[k] = s[k]
    BY <2>2, <2>5
  <2>7. ASSUME NEW i \in Items PROVE told'[i].pieces = PiecesIn(t, i)
    <3>0. told[i].pieces = PiecesIn(s, i)
      BY <1>0, <2>5 DEF Retold
    <3>1. \A k \in 1..m : k \in DeltasIn(t, i) <=>
             k \in DeltasIn(s, i) \/ (k = m /\ e.of = i /\ e.type \in DeltaTypes)
      <4> SUFFICES ASSUME NEW k \in 1..m
                   PROVE  k \in DeltasIn(t, i) <=>
                            k \in DeltasIn(s, i) \/ (k = m /\ e.of = i /\ e.type \in DeltaTypes)
        OBVIOUS
      <4>1. CASE k \in 1..n
        <5>1. k # m
          BY <2>3, <4>1
        <5> QED
          BY <2>6, <4>1, <5>1 DEF DeltasIn
      <4>2. CASE k = m
        BY <2>3, <2>5, <2>6, <4>2 DEF DeltasIn, DeltaTypes
      <4>3. CASE k \notin 1..n /\ k # m
        BY <2>4, <2>5, <2>6, <4>3 DEF DeltasIn
      <4> QED
        BY <4>1, <4>2, <4>3
    <3>2. /\ DeltasIn(t, i) \subseteq 1..m /\ DeltasIn(s, i) \subseteq 1..m
          /\ m \in DOMAIN t \ DOMAIN s
      BY <2>3, <2>6 DEF DeltasIn
    <3>3. CASE e.of = i /\ e.type \in DeltaTypes
      <4>1. DeltasIn(t, i) = DeltasIn(s, i) \cup {m}
        BY <3>1, <3>2, <3>3
      <4>2. PiecesIn(t, i) = Append(PiecesIn(s, i), [of |-> i, part |-> t[m].part])
        BY <2>6, <3>2, <4>1, PiecesGrow, SMTT(60)
      <4>3. told'[i].pieces = Append(told[i].pieces, PieceOf(e))
        BY <2>1, <3>3 DEF Utterance, DeltaTypes, Lifecycle, Ends
      <4> QED
        BY <2>3, <2>5, <3>0, <3>3, <4>2, <4>3 DEF PieceOf
    <3>4. CASE ~(e.of = i /\ e.type \in DeltaTypes)
      <4>1. DeltasIn(t, i) = DeltasIn(s, i)
        BY <3>1, <3>2, <3>4
      <4>2. PiecesIn(t, i) = PiecesIn(s, i)
        BY <2>6, <4>1, PiecesGrow
      <4>3. told'[i].pieces = told[i].pieces
        BY <2>1, <3>4 DEF Utterance
      <4> QED
        BY <3>0, <4>2, <4>3
    <3> QED
      BY <3>3, <3>4
  <2>8. ASSUME NEW l \in 1..m, Out'[l].type = "item.done"
        PROVE  Out'[l].content = ByPart(told'[Out'[l].of].pieces)
    <3>1. CASE l \in 1..n
      <4>1. /\ Out'[l] = Out[l] /\ l \in DOMAIN Out
            /\ Out[l].content = ByPart(told[Out[l].of].pieces)
            /\ told[Out[l].of].done /\ Out[l].of \in Items
        BY <1>0, <2>2, <2>8, <3>1 DEF Retold, Closings, Shapes, Lifecycle, Ends
      <4>2. told'[Out[l].of] = told[Out[l].of]
        BY <2>1, <4>1 DEF Utterance
      <4> QED
        BY <4>1, <4>2
    <3>2. CASE l = m
      <4>1. /\ e.type = "item.done" /\ e.of \in Items
            /\ e.content = ByPart(told[e.of].pieces) /\ told'[e.of].pieces = told[e.of].pieces
        BY <2>1, <2>3, <2>8, <3>2 DEF Utterance, DeltaTypes, Lifecycle, Ends
      <4> QED
        BY <2>3, <3>2, <4>1
    <3>3. CASE l \notin 1..n /\ l # m
      BY <2>4, <2>8, <3>3
    <3> QED
      BY <3>1, <3>2, <3>3
  <2>9. \A i \in Items : told'[i].pieces = PiecesIn(Out', i)
    BY <2>5, <2>7
  <2> QED
    BY <2>2, <2>8, <2>9 DEF Retold
<1> QED
  BY <1>1, <1>2 DEF Next

\* An item that comes in order gathers what is forwarded of it.
LEMMA GatheredStep == ASSUME BridgeInv, [Next]_vars PROVE Gathered'
<1>0. TypeOK /\ Shapes /\ Listing /\ Gathered
  BY DEF BridgeInv
<1>1. CASE Upstream \/ UNCHANGED vars
  <2>1. forwarded' = forwarded /\ items' = items
    BY <1>1, Spoken DEF Take, vars
  <2>2. /\ \A i : ItemAdded(i)' = ItemAdded(i) /\ Deltas(i)' = Deltas(i)
        /\ \A l : MessageBefore(l)' = MessageBefore(l)
        /\ Strays' = Strays
    BY <2>1 DEF ItemAdded, Deltas, MessageBefore, Strays
  <2>3. \A i : Orderly(i)' = Orderly(i) /\ Received(i)' = Received(i)
    BY <2>1, <2>2 DEF Orderly, Received
  <2> QED
    BY <1>0, <2>1, <2>2, <2>3 DEF Gathered
<1>2. CASE Yield
  <2>0. PICK x \in Nat : x = Len(forwarded) + 1
    BY <1>0 DEF TypeOK
  <2>1. PICK e \in Event :
           /\ x \in DOMAIN Out /\ Out[x] = e
           /\ forwarded' = Append(forwarded, e)
           /\ items' \in [Items -> Slot]
           /\ e.type \in {"item.added", "args.delta", "item.done"} =>
                 /\ e.item \in Items
                 /\ \A j \in Items \ {e.item} : items'[j] = items[j]
           /\ e.type = "item.added" => items'[e.item] = Known(<<>>)
           /\ e.type = "item.done" => items'[e.item] = Known(e.content)
           /\ e.type = "text.delta" =>
                 /\ \A j \in Items \ {LatestMessage} : items'[j] = items[j]
                 /\ LatestMessage \in Items => Gathers(LatestMessage, e)
           /\ e.type = "args.delta" /\ items[e.item].known => Gathers(e.item, e)
           /\ e.type \in DeltaTypes => \A j \in Items : items'[j].known = items[j].known
           /\ e.type \notin {"item.added", "text.delta", "args.delta", "item.done"} =>
                 items' = items
    BY <1>0, <1>2, <2>0, Consumed
  <2>2. /\ forwarded \in Seq(Event)
        /\ DOMAIN forwarded = 1..x - 1 /\ DOMAIN forwarded' = 1..x
        /\ x \in 1..x /\ \A k \in 1..x - 1 : k \in 1..x /\ k < x
        /\ forwarded'[x] = e
        /\ \A k \in 1..x - 1 : forwarded'[k] = forwarded[k]
    BY <1>0, <2>0, <2>1, Forwards
  <2>3. /\ LatestMessage = MessageBefore(x)
        /\ \A l \in 1..x : MessageBefore(l)' = MessageBefore(l)
        /\ Strays \subseteq Strays'
        /\ e.type = "text.delta" /\ e.of # LatestMessage => x \in Strays'
    BY <1>0, <2>0, <2>1, Forwards
  <2>4. \A k \in 1..x : k \in 1..x - 1 \/ k = x
    BY <2>2
  <2>5. /\ e.type \notin Lifecycle => e.of \in Items
        /\ e.type \in {"item.added", "args.delta", "item.done"} => e.item = e.of
    BY <1>0, <2>1 DEF Shapes
  <2>6. PICK s \in Seq(Event), t \in Seq(Event) : s = forwarded /\ t = forwarded'
    <3>1. forwarded' \in Seq(Event)
      BY <2>1, <2>2
    <3> QED
      BY <2>2, <3>1
  <2>7. /\ DOMAIN s = 1..x - 1 /\ DOMAIN t = 1..x /\ t[x] = e
        /\ \A k \in DOMAIN s : k \in DOMAIN t /\ t[k] = s[k]
        /\ x \in DOMAIN t \ DOMAIN s
    <3>1. x \notin 1..x - 1
      BY <2>2
    <3> QED
      BY <2>2, <2>6, <3>1
  <2>8. ASSUME NEW i \in Items
        PROVE  /\ ItemAdded(i) = ItemIn(s, i) /\ ItemAdded(i)' = ItemIn(t, i)
               /\ Deltas(i) = DeltasIn(s, i) /\ Deltas(i)' = DeltasIn(t, i)
               /\ Received(i) = PiecesIn(s, i) /\ Received(i)' = PiecesIn(t, i)
    BY <2>6 DEF ItemAdded, Deltas, Received
  <2>9. ASSUME NEW i \in Items
        PROVE  /\ ItemIn(t, i) = IF e.type = "item.added" /\ e.item = i
                                 THEN ItemIn(s, i) \cup {x} ELSE ItemIn(s, i)
               /\ DeltasIn(t, i) = IF e.type \in DeltaTypes /\ e.of = i
                                   THEN DeltasIn(s, i) \cup {x} ELSE DeltasIn(s, i)
    <3>1. \A k \in 1..x - 1 : /\ k \in ItemIn(t, i) <=> k \in ItemIn(s, i)
                              /\ k \in DeltasIn(t, i) <=> k \in DeltasIn(s, i)
      BY <2>7 DEF ItemIn, DeltasIn
    <3>2. /\ x \in ItemIn(t, i) <=> e.type = "item.added" /\ e.item = i
          /\ x \in DeltasIn(t, i) <=> e.type \in DeltaTypes /\ e.of = i
      BY <2>7 DEF ItemIn, DeltasIn, DeltaTypes
    <3>3. /\ ItemIn(s, i) \subseteq 1..x - 1 /\ ItemIn(t, i) \subseteq 1..x
          /\ DeltasIn(s, i) \subseteq 1..x - 1 /\ DeltasIn(t, i) \subseteq 1..x
      BY <2>7 DEF ItemIn, DeltasIn
    <3>4. ASSUME NEW S, NEW T, S \subseteq 1..x - 1, T \subseteq 1..x,
                 \A k \in 1..x - 1 : k \in T <=> k \in S
          PROVE  T = IF x \in T THEN S \cup {x} ELSE S
      <4>1. \A k \in T : k \in S \/ k = x
        BY <2>4, <3>4
      <4>2. \A k \in S : k \in T
        BY <3>4
      <4>3. CASE x \in T
        BY <4>1, <4>2, <4>3
      <4>4. CASE x \notin T
        <5>1. \A k \in T : k \in S
          BY <4>1, <4>4
        <5> QED
          BY <4>2, <4>4, <5>1
      <4> QED
        BY <4>3, <4>4
    <3>5. ItemIn(t, i) = IF x \in ItemIn(t, i) THEN ItemIn(s, i) \cup {x} ELSE ItemIn(s, i)
      BY <3>1, <3>3, <3>4
    <3>6. DeltasIn(t, i) = IF x \in DeltasIn(t, i) THEN DeltasIn(s, i) \cup {x}
                           ELSE DeltasIn(s, i)
      BY <3>1, <3>3, <3>4
    <3> QED
      BY <3>2, <3>5, <3>6
  <2>10. ASSUME NEW i \in Items, ItemAdded(i)' # {} PROVE items'[i].known
    <3>1. CASE e.type = "item.added" /\ e.item = i
      BY <2>1, <3>1 DEF Known
    <3>2. CASE ~(e.type = "item.added" /\ e.item = i)
      <4>1. items[i].known
        BY <1>0, <2>8, <2>9, <2>10, <3>2 DEF Gathered
      <4>2. CASE e.type = "item.added"
        BY <2>1, <3>2, <4>1, <4>2
      <4>3. CASE e.type = "item.done"
        BY <2>1, <4>1, <4>3, SMTT(60) DEF Known
      <4>4. CASE e.type \in DeltaTypes
        BY <2>1, <4>1, <4>4
      <4> QED
        BY <2>1, <4>1, <4>2, <4>3, <4>4 DEF DeltaTypes
    <3> QED
      BY <3>1, <3>2
  <2>11. ASSUME NEW i \in Items, Orderly(i)',
                \A l \in DOMAIN forwarded' :
                   forwarded'[l].of = i => forwarded'[l].type # "item.done"
         PROVE  /\ Len(items'[i].content) <= 1
                /\ FlattenSeq(items'[i].content) = Received(i)'
    <3>1. PICK k \in DOMAIN forwarded' :
             ItemAdded(i)' = {k} /\ \A l \in Deltas(i)' : k < l
      BY <2>11 DEF Orderly
    <3>2. \A l \in Strays' : i \notin {forwarded'[l].of, MessageBefore(l)'}
      BY <2>11 DEF Orderly
    <3>3. CASE e.type = "item.added" /\ e.item = i
      <4>1. k = x
        BY <2>8, <2>9, <3>1, <3>3, ZenonT(60)
      <4>2. DeltasIn(t, i) = {}
        <5>1. \A l \in DeltasIn(t, i) : l \in 1..x - 1 /\ x < l
          BY <2>7, <2>8, <2>9, <3>1, <3>3, <4>1 DEF DeltasIn, DeltaTypes
        <5>2. \A l \in DeltasIn(t, i) : l < x /\ l \in Nat
          BY <2>2, <5>1
        <5> QED
          BY <5>1, <5>2
      <4>3. PiecesIn(t, i) = <<>>
        BY <4>2, FS_EmptySet, PiecesAre
      <4>4. items'[i].content = <<>> /\ FlattenSeq(<<>>) = <<>> /\ Len(<<>>) <= 1
        BY <2>1, <3>3 DEF Known, FlattenSeq
      <4> QED
        BY <2>8, <4>3, <4>4
    <3>4. CASE ~(e.type = "item.added" /\ e.item = i)
      <4>1. ItemAdded(i) = {k} /\ k \in DOMAIN forwarded /\ \A l \in Deltas(i) : k < l
        <5>1. ItemIn(s, i) = {k}
          BY <2>8, <2>9, <3>1, <3>4
        <5>2. k \in DOMAIN s
          BY <5>1 DEF ItemIn
        <5>3. \A l \in DeltasIn(s, i) : l \in DeltasIn(t, i)
          BY <2>9
        <5> QED
          BY <2>6, <2>8, <3>1, <5>1, <5>2, <5>3
      <4>2. \A l \in Strays : i \notin {forwarded[l].of, MessageBefore(l)}
        <5> SUFFICES ASSUME NEW l \in Strays
                     PROVE  i \notin {forwarded[l].of, MessageBefore(l)}
          OBVIOUS
        <5>1. l \in 1..x - 1 /\ l \in 1..x /\ l \in Strays'
          BY <2>2, <2>3 DEF Strays
        <5> QED
          BY <2>2, <2>3, <3>2, <5>1
      <4>3. Orderly(i)
        BY <4>1, <4>2 DEF Orderly
      <4>4. \A l \in DOMAIN forwarded :
               forwarded[l].of = i => forwarded[l].type # "item.done"
        BY <2>2, <2>11
      <4>5. /\ Len(items[i].content) <= 1
            /\ FlattenSeq(items[i].content) = Received(i)
            /\ items[i].known
        BY <1>0, <4>1, <4>3, <4>4 DEF Gathered
      <4>6. CASE e.type \in DeltaTypes /\ e.of = i
        <5>1. Gathers(i, e)
          <6>1. CASE e.type = "args.delta"
            BY <2>1, <2>5, <4>5, <4>6, <6>1
          <6>2. CASE e.type = "text.delta"
            <7>1. x \notin Strays'
              BY <2>2, <3>2, <4>6
            <7> QED
              BY <2>1, <2>3, <4>6, <6>2, <7>1
          <6> QED
            BY <4>6, <6>1, <6>2 DEF DeltaTypes
        <5>2. /\ Len(items'[i].content) = 1
              /\ FlattenSeq(items'[i].content)
                 = Append(FlattenSeq(items[i].content), PieceOf(e))
          BY <4>5, <5>1 DEF Gathers
        <5>3. DeltasIn(t, i) = DeltasIn(s, i) \cup {x}
          BY <2>9, <4>6
        <5>4. PiecesIn(t, i) = Append(PiecesIn(s, i), [of |-> i, part |-> t[x].part])
          <6>1. \A y \in DOMAIN t \ DOMAIN s :
                   DeltasIn(t, i) = DeltasIn(s, i) \cup {y}
                   => PiecesIn(t, i) = Append(PiecesIn(s, i), [of |-> i, part |-> t[y].part])
            BY <2>7, PiecesGrow, SMTT(60)
          <6>2. x \in DOMAIN t \ DOMAIN s
            BY <2>7
          <6> QED
            BY <5>3, <6>1, <6>2, Zenon
        <5>5. [of |-> i, part |-> t[x].part] = PieceOf(e)
          BY <2>7, <4>6 DEF PieceOf
        <5> QED
          BY <2>8, <4>5, <5>2, <5>4, <5>5
      <4>7. CASE ~(e.type \in DeltaTypes /\ e.of = i)
        <5>1. DeltasIn(t, i) = DeltasIn(s, i)
          BY <2>9, <4>7
        <5>2. PiecesIn(t, i) = PiecesIn(s, i)
          BY <2>7, <5>1, PiecesGrow
        <5>3. items'[i] = items[i]
          <6>1. CASE e.type = "item.added"
            BY <2>1, <3>4, <6>1
          <6>2. CASE e.type = "item.done"
            <7>1. e.item # i
              BY <2>2, <2>5, <2>11, <6>2
            <7> QED
              BY <2>1, <6>2, <7>1
          <6>3. CASE e.type = "args.delta"
            BY <2>1, <2>5, <4>7, <6>3 DEF DeltaTypes
          <6>4. CASE e.type = "text.delta"
            <7>1. e.of # i
              BY <4>7, <6>4 DEF DeltaTypes
            <7>2. LatestMessage # i
              <8> SUFFICES ASSUME LatestMessage = i PROVE FALSE
                OBVIOUS
              <8>1. x \in Strays'
                BY <2>3, <6>4, <7>1
              <8>2. MessageBefore(x)' = i
                BY <2>2, <2>3
              <8> QED
                BY <3>2, <8>1, <8>2
            <7> QED
              BY <2>1, <6>4, <7>2
          <6> QED
            BY <2>1, <6>1, <6>2, <6>3, <6>4
        <5> QED
          BY <2>8, <4>5, <5>2, <5>3
      <4> QED
        BY <4>6, <4>7
    <3> QED
      BY <3>3, <3>4
  <2> QED
    BY <2>10, <2>11 DEF Gathered
<1> QED
  BY <1>1, <1>2 DEF Next

-----------------------------------------------------------------------------
\* The invariant holds before the first event.
LEMMA BridgeInit == Init => BridgeInv
<1> SUFFICES ASSUME Init PROVE BridgeInv
  OBVIOUS
<1>0. TypeOK
  BY TypeInit
<1>1. /\ forwarded = <<>> /\ Out = <<>> /\ order = <<>>
      /\ announcedItems = {} /\ announcedParts = {}
      /\ open = {} /\ count = 0 /\ ~ended
      /\ \A i \in Items : told[i] = Untold
  BY DEF Init, Out
<1>2. \A i : ItemOut(i) = {}
  BY <1>1 DEF ItemOut, ItemIn
<1>3. \A i, c : PartOut(i, c) = {}
  BY <1>1 DEF PartOut, PartIn
<1>4. AddedAt = {} /\ Cardinality(AddedAt) = 0
  BY <1>1, FS_EmptySet DEF AddedAt
<1>5. Shapes /\ Precedence /\ Closings /\ Accounted
  BY <1>1 DEF Shapes, Precedence, Closings, Accounted
<1>6. Beginning /\ Identity
  BY <1>1 DEF Beginning, Identity
<1>7. Booked
  BY <1>1 DEF Booked, Untold
<1>8. Announcements
  BY <1>1, <1>2, <1>3 DEF Announcements, AtMostOne, AtMostTwo
<1>9. Listing
  BY <1>1, <1>4 DEF Listing
<1>10. Closed
  BY <1>1 DEF Closed
<1>11. Retold
  <2>1. <<>> \in Seq(Event) /\ \A i : DeltasIn(<<>>, i) = {}
    BY DEF DeltasIn
  <2>2. ASSUME NEW i PROVE PiecesIn(<<>>, i) = <<>>
    <3>1. Cardinality(DeltasIn(<<>>, i)) = 0
      BY <2>1, FS_EmptySet
    <3>2. PiecesIn(<<>>, i) = [n \in 1..Cardinality(DeltasIn(<<>>, i)) |->
                                 [of |-> i, part |-> <<>>[Nth(DeltasIn(<<>>, i), n)].part]]
      BY <2>1, PiecesAre
    <3> QED
      BY <3>1, <3>2
  <2> QED
    BY <1>1, <2>2 DEF Retold, Untold
<1>12. Gathered
  <2>1. \A i : ItemAdded(i) = {}
    BY <1>1 DEF ItemAdded, ItemIn
  <2> QED
    BY <2>1 DEF Gathered, Orderly
<1> QED
  BY <1>0, <1>5, <1>6, <1>7, <1>8, <1>9, <1>10, <1>11, <1>12 DEF BridgeInv

\* BridgeInv is inductive: every reachable state of one stream satisfies it.
THEOREM BridgeInductive == Spec => []BridgeInv
<1>1. BridgeInv /\ [Next]_vars => BridgeInv'
  BY TypeStep, ShapesStep, BeginningStep, BookedStep, AnnouncementsStep,
     PrecedenceStep, ClosingsStep, AccountedStep, ListingStep, IdentityStep,
     ClosedStep, RetoldStep, GatheredStep DEF BridgeInv
<1> QED
  BY <1>1, BridgeInit, PTL DEF Spec

\* The types of the bridge's and the upstream's state hold throughout.
THEOREM BridgeTypeCorrect == Spec => []TypeOK
<1>1. BridgeInv => TypeOK
  BY DEF BridgeInv
<1> QED
  BY <1>1, BridgeInductive, PTL

-----------------------------------------------------------------------------
\* What the client has is the first part of Out.
LEMMA ForwardedIsOut ==
    ASSUME TypeOK
    PROVE  /\ DOMAIN forwarded \subseteq DOMAIN Out
           /\ \A k \in DOMAIN forwarded : Out[k] = forwarded[k]
           /\ \A l \in DOMAIN forwarded, k \in DOMAIN Out :
                 k < l => k \in DOMAIN forwarded
           /\ \A i : ItemAdded(i) \subseteq ItemOut(i)
           /\ \A i, c : PartAdded(i, c) \subseteq PartOut(i, c)
<1>1. DOMAIN Out = 1..Len(Out) /\ DOMAIN forwarded = 1..Len(forwarded)
  BY OutIs DEF TypeOK
<1>2. /\ DOMAIN forwarded \subseteq DOMAIN Out
      /\ \A k \in DOMAIN forwarded : Out[k] = forwarded[k]
      /\ \A l \in DOMAIN forwarded, k \in DOMAIN Out : k < l => k \in DOMAIN forwarded
  BY <1>1, OutIs
<1> QED
  BY <1>2 DEF ItemAdded, PartAdded, ItemOut, PartOut, ItemIn, PartIn

(***************************************************************************)
(* However the upstream leaves out, delays or interleaves announcements,   *)
(* the client sees every message and every part announced before their     *)
(* text.                                                                   *)
(***************************************************************************)
THEOREM StreamIsWellFormed == Spec => []WellFormed
<1>1. BridgeInv => WellFormed
  <2> SUFFICES ASSUME TypeOK, Precedence, NEW l \in DOMAIN forwarded
               PROVE  LET e == forwarded[l] IN
                      /\ e.item \in Messages /\ e.type # "item.added" =>
                            \E k \in ItemAdded(e.item) : k < l
                      /\ e.item # NoItem /\ e.type \in TextPartTypes =>
                            \E k \in PartAdded(e.item, e.part) : k < l
    BY DEF BridgeInv, WellFormed
  <2>1. \A k \in DOMAIN Out : k < l => k \in DOMAIN forwarded /\ forwarded[k] = Out[k]
    BY ForwardedIsOut
  <2>2. \A i : \A k \in ItemOut(i) : k < l => k \in ItemAdded(i)
    BY <2>1 DEF ItemOut, ItemAdded, ItemIn
  <2>3. \A i, c : \A k \in PartOut(i, c) : k < l => k \in PartAdded(i, c)
    BY <2>1 DEF PartOut, PartAdded, PartIn
  <2>4. l \in DOMAIN Out /\ Out[l] = forwarded[l]
    BY ForwardedIsOut
  <2> QED
    BY <2>2, <2>3, <2>4 DEF Precedence
<1> QED
  BY <1>1, BridgeInductive, PTL

\* Sets in which no two, or no three, members differ have that many members.
LEMMA FewMembers ==
    ASSUME NEW S, AtMostTwo(S)
    PROVE  Cardinality(S) <= 2 /\ (AtMostOne(S) => Cardinality(S) <= 1)
<1>1. CASE S = {}
  BY <1>1, FS_EmptySet
<1>2. CASE S # {}
  <2>1. PICK a \in S : TRUE
    BY <1>2
  <2>2. CASE S = {a}
    BY <2>2, FS_Singleton
  <2>3. CASE S # {a}
    <3>1. PICK b \in S : b # a
      BY <2>1, <2>3
    <3>2. S = {a} \cup {b}
      BY <3>1 DEF AtMostTwo
    <3>3. Cardinality({a} \cup {b}) = Cardinality({a}) + 1
      BY <3>1, FS_Singleton, FS_AddElement
    <3>4. Cardinality(S) = 2
      BY <3>2, <3>3, FS_Singleton, SMTT(60)
    <3> QED
      BY <3>1, <3>4 DEF AtMostOne
  <2> QED
    BY <2>2, <2>3
<1> QED
  BY <1>1, <1>2

\* No item and no part is announced twice, but by an upstream that comes late.
THEOREM NothingAnnouncedTwice == Spec => []AnnouncedOnce
<1>1. BridgeInv => AnnouncedOnce
  <2> SUFFICES ASSUME TypeOK, Announcements PROVE AnnouncedOnce
    BY DEF BridgeInv
  <2>1. \A S, T : S \subseteq T /\ AtMostTwo(T) => AtMostTwo(S)
    BY DEF AtMostTwo
  <2>2. \A S, T : S \subseteq T /\ AtMostOne(T) => AtMostOne(S)
    BY DEF AtMostOne
  <2>3. ASSUME NEW i \in Items
        PROVE  Cardinality(ItemAdded(i)) <= IF told[i].late THEN 2 ELSE 1
    <3>1. /\ AtMostTwo(ItemAdded(i))
          /\ ~told[i].late => AtMostOne(ItemAdded(i))
      BY <2>1, <2>2, ForwardedIsOut DEF Announcements
    <3> QED
      BY <3>1, FewMembers
  <2>4. ASSUME NEW i \in Items, NEW c \in Parts
        PROVE  Cardinality(PartAdded(i, c)) <= IF c \in told[i].lateParts THEN 2 ELSE 1
    <3>1. /\ AtMostTwo(PartAdded(i, c))
          /\ c \notin told[i].lateParts => AtMostOne(PartAdded(i, c))
      BY <2>1, <2>2, ForwardedIsOut DEF Announcements
    <3> QED
      BY <3>1, FewMembers
  <2> QED
    BY <2>3, <2>4 DEF AnnouncedOnce
<1> QED
  BY <1>1, BridgeInductive, PTL

\* The client and the store are given one id for the response.
THEOREM IdIsOne == Spec => []OneResponseId
<1>1. BridgeInv => OneResponseId
  <2> SUFFICES ASSUME TypeOK, Shapes, Beginning, Identity PROVE OneResponseId
    BY DEF BridgeInv
  <2>1. \A k \in DOMAIN forwarded :
           forwarded[k].type \in Lifecycle => forwarded[k].id = RewriteId
    BY ForwardedIsOut DEF Shapes
  <2>2. ASSUME forwarded # <<>>
        PROVE  forwarded[1].id = RewriteId /\ final.id = RewriteId
    <3>1. forwarded \in Seq(Event) /\ 1 \in DOMAIN forwarded
      BY <2>2 DEF TypeOK
    <3>2. Out # <<>> /\ Out[1] = forwarded[1]
      BY <3>1, ForwardedIsOut
    <3>3. count # 0
      BY <3>2 DEF Beginning
    <3>4. Out[1].type = "created"
      BY <3>3 DEF Beginning
    <3> QED
      BY <2>1, <2>2, <3>1, <3>2, <3>4 DEF Lifecycle, Identity
  <2>3. \A k \in DOMAIN forwarded : forwarded # <<>>
    OBVIOUS
  <2>4. Finished => forwarded # <<>>
    <3> SUFFICES ASSUME ended, pending = <<>> PROVE forwarded # <<>>
      BY DEF Finished
    <3>1. Out # <<>>
      BY DEF Beginning
    <3> QED
      BY <3>1 DEF Out
  <2> QED
    BY <2>1, <2>2, <2>3, <2>4 DEF OneResponseId
<1> QED
  BY <1>1, BridgeInductive, PTL

-----------------------------------------------------------------------------
\* What is stored lists what was announced to the client, in that order.
THEOREM ListsWhatWasAnnounced == Spec => []FinalListsItems
<1>1. BridgeInv => FinalListsItems
  <2> SUFFICES ASSUME TypeOK, Shapes, Listing PROVE FinalListsItems
    BY DEF BridgeInv
  <2>1. AddedAt \in SUBSET Nat /\ IsFiniteSet(AddedAt) /\ Cardinality(AddedAt) \in Nat
    BY AddedAtIs, FS_CardinalityType
  <2>2. /\ DOMAIN order = 1..Cardinality(AddedAt) /\ Len(order) = Cardinality(AddedAt)
        /\ \A k \in DOMAIN order : order[k] = forwarded[Nth(AddedAt, k)].item
    BY DEF TypeOK, Listing
  <2>3. UNION {ItemAdded(i) : i \in Items} = AddedAt
    <3>1. \A k \in AddedAt : forwarded[k].item \in Items
      BY ForwardedIsOut DEF AddedAt, Shapes, Lifecycle, Ends
    <3>2. \A i : ItemAdded(i) = {k \in AddedAt : forwarded[k].item = i}
      BY DEF ItemAdded, ItemIn, AddedAt
    <3> QED
      BY <3>1, <3>2
  <2>4. /\ DOMAIN FinalOutput = DOMAIN order /\ Len(FinalOutput) = Len(order)
        /\ \A k \in DOMAIN order : FinalOutput[k].id = order[k]
    BY <2>1, <2>2 DEF FinalOutput
  <2>5. ASSUME NEW k \in DOMAIN FinalOutput, NEW l \in DOMAIN FinalOutput, k < l
        PROVE  \E a \in ItemAdded(FinalOutput[k].id), b \in ItemAdded(FinalOutput[l].id) : a < b
    <3>1. k \in 1..Cardinality(AddedAt) /\ l \in 1..Cardinality(AddedAt)
      BY <2>2, <2>4
    <3>2. Nth(AddedAt, k) < Nth(AddedAt, l)
      BY <2>1, <2>5, <3>1, NthOrder
    <3>3. \A j \in DOMAIN order : Nth(AddedAt, j) \in ItemAdded(order[j])
      <4> SUFFICES ASSUME NEW j \in DOMAIN order
                   PROVE  Nth(AddedAt, j) \in ItemAdded(order[j])
        OBVIOUS
      <4>1. Nth(AddedAt, j) \in AddedAt
        BY <2>1, <2>2, NthIsThere
      <4> QED
        BY <2>2, <4>1 DEF AddedAt, ItemAdded, ItemIn
    <3> QED
      BY <2>4, <3>2, <3>3
  <2> QED
    BY <2>2, <2>3, <2>4, <2>5 DEF FinalListsItems
<1> QED
  BY <1>1, BridgeInductive, PTL

\* A closed item is stored as it was closed, unless stray text hit it.
THEOREM ClosedIsKept == Spec => []ClosedIsExact
<1>1. BridgeInv => ClosedIsExact
  <2> SUFFICES ASSUME TypeOK, Closed,
                      NEW k \in DOMAIN FinalOutput, NEW l \in DOMAIN forwarded,
                      forwarded[l].type = "item.done",
                      forwarded[l].item = FinalOutput[k].id,
                      \A m \in Strays : m > l => MessageBefore(m) # FinalOutput[k].id
               PROVE  FinalOutput[k].content = forwarded[l].content
    BY DEF BridgeInv, ClosedIsExact
  <2>1. \A m \in Strays : l < m => m > l
    BY DEF TypeOK, Strays
  <2>2. items[forwarded[l].item] = Known(forwarded[l].content)
    BY <2>1 DEF Closed
  <2>3. FinalOutput[k].id = order[k] /\ FinalOutput[k].content = items[order[k]].content
    BY DEF FinalOutput
  <2> QED
    BY <2>2, <2>3 DEF Known
<1> QED
  BY <1>1, BridgeInductive, PTL

(***************************************************************************)
(* An item that came in order is stored with what the client received of   *)
(* it (FinalMirrorsStream): if it was closed, with what output_item.done   *)
(* held, which is the same pieces sorted by part; if it was cut off, with  *)
(* what its deltas left.                                                   *)
(***************************************************************************)
THEOREM StoredIsReceived == Spec => []FinalMirrorsStream
<1>1. BridgeInv => FinalMirrorsStream
  <2> SUFFICES ASSUME TypeOK, Shapes, Closed, Retold, Gathered, pending = <<>>,
                      NEW k \in DOMAIN FinalOutput, Orderly(FinalOutput[k].id)
               PROVE  ByPart(FlattenSeq(FinalOutput[k].content))
                      = ByPart(Received(FinalOutput[k].id))
    BY DEF BridgeInv, FinalMirrorsStream, Finished
  <2> DEFINE i == order[k]
  <2>1. /\ i \in Items /\ i # NoItem
        /\ FinalOutput[k].id = i /\ FinalOutput[k].content = items[i].content
    BY BridgeAssumption DEF FinalOutput, TypeOK
  <2> HIDE DEF i
  <2>2. CASE \A l \in DOMAIN forwarded :
                forwarded[l].of = i => forwarded[l].type # "item.done"
    <3>1. FlattenSeq(items[i].content) = Received(i)
      BY <2>1, <2>2 DEF Gathered
    <3> QED
      BY <2>1, <3>1
  <2>3. ASSUME NEW l \in DOMAIN forwarded, forwarded[l].of = i,
               forwarded[l].type = "item.done"
        PROVE  ByPart(FlattenSeq(items[i].content)) = ByPart(Received(i))
    <3>1. Out = forwarded
      BY DEF Out, TypeOK
    <3>2. forwarded[l].item = i
      BY <2>3, <3>1 DEF Shapes
    <3>3. items[i] = Known(forwarded[l].content)
      <4>1. \A m \in Strays : i # MessageBefore(m)
        BY <2>1 DEF Orderly
      <4> QED
        BY <2>3, <3>2, <4>1 DEF Closed
    <3>4. forwarded[l].content = ByPart(told[i].pieces)
      BY <2>3, <3>1 DEF Retold
    <3>5. told[i].pieces = Received(i) /\ told[i].pieces \in Seq(Piece)
      BY <2>1, <3>1 DEF Retold, Received, TypeOK, Telling
    <3> QED
      BY <3>3, <3>4, <3>5, SortedStays DEF Known
  <2> QED
    BY <2>1, <2>2, <2>3
<1> QED
  BY <1>1, BridgeInductive, PTL

\* Everything shown is stored, but for a call the provider never announced.
THEOREM LostCallsAreHidden == Spec => []OnlyHiddenCallsAreLost
<1>1. BridgeInv => OnlyHiddenCallsAreLost
  <2> SUFFICES ASSUME TypeOK, Shapes, Announcements, Accounted, Listing,
                      pending = <<>>, NEW l \in DOMAIN forwarded
               PROVE  LET i == forwarded[l].of IN
                      \/ i = NoItem
                      \/ i \in Calls /\ ~told[i].added
                      \/ \E k \in DOMAIN FinalOutput : FinalOutput[k].id = i
    BY DEF BridgeInv, OnlyHiddenCallsAreLost, Finished
  <2>1. Out = forwarded
    BY DEF Out, TypeOK
  <2> DEFINE i == forwarded[l].of
  <2>2. i \in {NoItem} \cup announcedItems \/ (i \in Calls /\ ~told[i].added)
    BY <2>1 DEF Accounted
  <2>3. ASSUME i \in announcedItems
        PROVE  \E k \in DOMAIN FinalOutput : FinalOutput[k].id = i
    <3>1. i \in Items
      BY <2>3 DEF TypeOK
    <3>2. PICK a \in ItemOut(i) : TRUE
      BY <2>3, <3>1 DEF Announcements
    <3>3. a \in AddedAt /\ forwarded[a].item = i
      BY <2>1, <3>2 DEF ItemOut, ItemIn, AddedAt
    <3>4. AddedAt \in SUBSET Nat /\ IsFiniteSet(AddedAt)
      BY AddedAtIs
    <3> DEFINE r == Cardinality(UpTo(AddedAt, a))
    <3>5. r \in 1..Cardinality(AddedAt) /\ Nth(AddedAt, r) = a
      BY <3>3, <3>4, NthIs
    <3> HIDE DEF r
    <3>6. r \in DOMAIN order /\ order[r] = i
      <4>1. DOMAIN order = 1..Cardinality(AddedAt)
        BY DEF TypeOK, Listing
      <4>2. \A k \in DOMAIN order : order[k] = forwarded[Nth(AddedAt, k)].item
        BY DEF Listing
      <4> QED
        BY <3>3, <3>5, <4>1, <4>2
    <3> QED
      BY <3>6 DEF FinalOutput
  <2> QED
    BY <2>2, <2>3
<1> QED
  BY <1>1, BridgeInductive, PTL

-----------------------------------------------------------------------------
(***************************************************************************)
(* FinalHasStatus is refuted, and not by rare streams: whatever the        *)
(* upstream does and however it ends, what is stored of a stream is        *)
(* "in_progress", the status of response.created, as _consume has nothing  *)
(* that would change it.                                                   *)
(***************************************************************************)
StatusIsStale == Finished => final.status = "in_progress"

\* From the first event on that is forwarded.
Stale == forwarded # <<>> => final.status = "in_progress"

\* Every stream is stored as "in_progress" (StatusIsStale).
THEOREM StatusNeverFollows == Spec => []StatusIsStale
<1>1. Init => Stale
  BY DEF Init, Stale
<1>2. BridgeInv /\ Stale /\ [Next]_vars => Stale'
  <2> SUFFICES ASSUME BridgeInv, Stale, [Next]_vars PROVE Stale'
    OBVIOUS
  <2>0. TypeOK /\ Shapes /\ Beginning
    BY DEF BridgeInv
  <2>1. CASE Upstream
    <3>1. PICK e \in Event : Take(e)
      BY <2>0, <2>1, Spoken
    <3> QED
      BY <3>1 DEF Take, Stale
  <2>2. CASE UNCHANGED vars
    BY <2>2 DEF vars, Stale
  <2>3. CASE Yield
    <3>1. PICK e \in Event :
             /\ Len(forwarded) + 1 \in DOMAIN Out /\ Out[Len(forwarded) + 1] = e
             /\ final' = IF e.type = "created"
                         THEN [id |-> e.id, status |-> "in_progress"] ELSE final
      BY <2>0, <2>3, Consumed
    <3>2. CASE forwarded = <<>>
      <4>1. Out # <<>> /\ Out[1] = e /\ count \in Nat
        BY <2>0, <3>1, <3>2, BridgeAssumption DEF TypeOK
      <4>2. e.type = "created"
        BY <2>0, <4>1 DEF Beginning
      <4> QED
        BY <3>1, <4>2 DEF Stale
    <3>3. CASE forwarded # <<>>
      BY <3>1, <3>3 DEF Stale
    <3> QED
      BY <3>2, <3>3
  <2> QED
    BY <2>1, <2>2, <2>3 DEF Next
<1>3. BridgeInv /\ Stale => StatusIsStale
  <2> SUFFICES ASSUME BridgeInv, Stale, ended, pending = <<>>
               PROVE  forwarded # <<>>
    BY DEF StatusIsStale, Stale, Finished
  <2>1. Out # <<>>
    BY BridgeAssumption DEF BridgeInv, TypeOK, Beginning
  <2> QED
    BY <2>1 DEF Out
<1> QED
  BY <1>1, <1>2, <1>3, BridgeInductive, PTL DEF Spec

================================================================================
