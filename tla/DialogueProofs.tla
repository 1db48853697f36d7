----------------------------- MODULE DialogueProofs -----------------------------
(***************************************************************************)
(* What a provider is told of a conversation: DialogueInv is an inductive  *)
(* invariant of RequestPath beside RequestInv, and DialogueInOrder,        *)
(* DialogueIsWhole and CallsComeFirst follow from it, however long the     *)
(* chain of rows.  First the walk along the rows and what it collects,     *)
(* then the steps, then what the theorems say.                             *)
(***************************************************************************)
EXTENDS RequestPathProofs

\* A table of rows numbered up to N, each after the row it continues.
Linked(T, N) ==
    /\ N \in Nat
    /\ DOMAIN T \subseteq 1..N
    /\ \A q \in DOMAIN T : T[q].parent \in DOMAIN T \cup {0} /\ T[q].parent < q

\* The walk along a linked table comes to an end at every row.
LEMMA ChainIs ==
    ASSUME NEW T, NEW N, Linked(T, N)
    PROVE  /\ Chain(T, 0) = <<>>
           /\ \A q \in DOMAIN T : Chain(T, q) = Append(Chain(T, T[q].parent), T[q])
<1> DEFINE D == DOMAIN T \cup {0}
           V == Seq({T[q] : q \in DOMAIN T})
           Walk(f) == [q \in D |-> IF q = 0 THEN <<>> ELSE Append(f[T[q].parent], T[q])]
           chain == CHOOSE f : f = Walk(f)
           par == [n \in 1..N |-> IF n \in DOMAIN T THEN T[n].parent ELSE 0]
           G == [x \in (1..N) \X V |-> IF x[1] \in DOMAIN T THEN Append(x[2], T[x[1]]) ELSE <<>>]
<1>1. /\ N \in Nat /\ DOMAIN T \subseteq 1..N
      /\ \A q \in DOMAIN T : T[q].parent \in D /\ T[q].parent < q
  BY DEF Linked
<1>2. D \subseteq 0..N
  BY <1>1
<1>3. par \in [1..N -> Nat] /\ \A n \in 1..N : par[n] < n
  <2>1. \A q \in DOMAIN T : T[q].parent \in Nat
    BY <1>1, <1>2
  <2> QED
    BY <1>1, <2>1
<1>4. \A v \in V, q \in DOMAIN T : Append(v, T[q]) \in V
  OBVIOUS
<1>5. <<>> \in V
  OBVIOUS
<1> HIDE DEF V
<1>6. G \in [(1..N) \X V -> V]
  BY <1>4, <1>5
<1>7. \A n \in DOMAIN T, v \in V : n \in 1..N /\ par[n] = T[n].parent /\ G[<<n, v>>] = Append(v, T[n])
  BY <1>1
<1> HIDE DEF par, G
<1>8. PICK h \in [0..N -> V] :
         h[0] = <<>> /\ \A n \in 1..N : h[n] = G[<<n, h[par[n]]>>]
  <2>1. Recursive(V, <<>>, N, par, G)
    BY <1>1, <1>3, <1>5, <1>6, Recursion
  <2> QED
    BY <2>1 DEF Recursive
<1>9. \E f : f = Walk(f)
  <2> DEFINE f == [q \in D |-> h[q]]
  <2>1. ASSUME NEW q \in D
        PROVE  f[q] = IF q = 0 THEN <<>> ELSE Append(f[T[q].parent], T[q])
    <3>1. CASE q = 0
      BY <1>8, <3>1
    <3>2. CASE q # 0
      <4>1. q \in DOMAIN T /\ T[q].parent \in D
        BY <1>1, <3>2
      <4>2. h[T[q].parent] \in V
        BY <1>2, <1>8, <4>1
      <4>3. h[q] = Append(h[T[q].parent], T[q])
        BY <1>7, <1>8, <4>1, <4>2
      <4> QED
        BY <3>2, <4>1, <4>3
    <3> QED
      BY <3>1, <3>2
  <2>2. f = [q \in D |-> f[q]]
    BY SMTT(60)
  <2> HIDE DEF f
  <2>3. f = Walk(f)
    BY <2>1, <2>2, SMTT(60)
  <2> QED
    BY <2>3
<1>10. chain = Walk(chain)
  BY <1>9
<1>11. \A q : Chain(T, q) = chain[q]
  BY DEF Chain
<1> HIDE DEF chain
<1>12. 0 \notin DOMAIN T
  BY <1>1
<1> QED
  BY <1>10, <1>11, <1>12

\* What the walk collects are rows of the table.
LEMMA ChainType ==
    ASSUME NEW T, NEW N, Linked(T, N), NEW q \in DOMAIN T \cup {0}
    PROVE  Chain(T, q) \in Seq({T[p] : p \in DOMAIN T})
<1> DEFINE V == Seq({T[p] : p \in DOMAIN T})
           Bad == {p \in DOMAIN T \cup {0} : Chain(T, p) \notin V}
<1>1. SUFFICES ASSUME Bad # {} PROVE FALSE
  OBVIOUS
<1>2. PICK p \in Bad : \A m \in Bad : p <= m
  <2>1. Bad \in SUBSET Nat
    BY DEF Linked
  <2> HIDE DEF Bad
  <2> QED
    BY <1>1, <2>1, Least
<1>3. <<>> \in V /\ \A v \in V, k \in DOMAIN T : Append(v, T[k]) \in V
  OBVIOUS
<1> HIDE DEF V
<1>4. p \in DOMAIN T
  BY <1>2, <1>3, ChainIs
<1>5. T[p].parent \in DOMAIN T \cup {0} /\ T[p].parent < p /\ T[p].parent \in Nat /\ p \in Nat
  BY <1>4 DEF Linked
<1>6. Chain(T, T[p].parent) \in V
  BY <1>2, <1>5
<1> QED
  BY <1>2, <1>3, <1>4, <1>6, ChainIs

\* Rows that are added change no walk.
LEMMA ChainGrows ==
    ASSUME NEW T, NEW N, Linked(T, N), NEW U, NEW M, Linked(U, M),
           DOMAIN T \subseteq DOMAIN U, \A k \in DOMAIN T : U[k] = T[k],
           NEW q \in DOMAIN T \cup {0}
    PROVE  Chain(U, q) = Chain(T, q)
<1> DEFINE Bad == {p \in DOMAIN T \cup {0} : Chain(U, p) # Chain(T, p)}
<1>1. SUFFICES ASSUME Bad # {} PROVE FALSE
  OBVIOUS
<1>2. PICK p \in Bad : \A m \in Bad : p <= m
  <2>1. Bad \in SUBSET Nat
    BY DEF Linked
  <2> HIDE DEF Bad
  <2> QED
    BY <1>1, <2>1, Least
<1>3. p \in DOMAIN T
  BY <1>2, ChainIs
<1>4. T[p].parent \in DOMAIN T \cup {0} /\ T[p].parent < p /\ T[p].parent \in Nat /\ p \in Nat
  BY <1>3 DEF Linked
<1>5. Chain(U, T[p].parent) = Chain(T, T[p].parent)
  BY <1>2, <1>4
<1>6. Chain(T, p) = Append(Chain(T, T[p].parent), T[p])
  BY <1>3, ChainIs
<1>7. Chain(U, p) = Append(Chain(U, U[p].parent), U[p])
  BY <1>3, ChainIs
<1> QED
  BY <1>2, <1>3, <1>5, <1>6, <1>7

-----------------------------------------------------------------------------
\* Items of turn q in the order in which they belong.
OfTurn(s, q) ==
    /\ s \in Seq(Item)
    /\ \A k \in DOMAIN s : s[k].of = q
    /\ \A i, j \in DOMAIN s : i < j => Precedes(s[i], s[j])

\* An item other than a message of an answer is sent as it is.
LEMMA OriginalIs ==
    ASSUME NEW x \in Item
    PROVE  /\ AsSent(x) \in Item
           /\ AsSent(x).of = x.of /\ AsSent(x).side = x.side /\ AsSent(x).at = x.at
           /\ x.role \in {"message", "function_call"} =>
                AsSent(x).role \in {"assistant", "function_call"}
           /\ x.role = "function_call" => AsSent(x).role = "function_call"
           /\ x.side = "out" /\ x.role \in {"message", "function_call"} => Original(AsSent(x)) = x
           /\ x.side = "in" => Original(x) = x
<1>1. /\ x.role \in STRING \cup {"assistant"} /\ x.of \in Nat /\ x.side \in {"in", "out"} /\ x.at \in Nat
      /\ x = [role |-> x.role, of |-> x.of, side |-> x.side, at |-> x.at]
  BY DEF Item
<1>2. CASE x.role = "message"
  <2>1. AsSent(x) = [role |-> "assistant", of |-> x.of, side |-> x.side, at |-> x.at]
    BY <1>1, <1>2 DEF AsSent
  <2>2. AsSent(x) \in Item
    BY <1>1, <2>1 DEF Item
  <2>3. x.side = "out" => Original(AsSent(x)) = x
    <3>1. [AsSent(x) EXCEPT !.role = "message"] = x
      BY <1>1, <1>2, <2>1
    <3> QED
      BY <2>1, <3>1 DEF Original
  <2> QED
    BY <1>2, <2>1, <2>2, <2>3 DEF Original
<1>3. CASE x.role # "message"
  <2>1. AsSent(x) = x
    BY <1>3 DEF AsSent
  <2> QED
    BY <1>3, <2>1 DEF Original
<1> QED
  BY <1>2, <1>3

\* The items of an input as they came, and without the system's.
LEMMA InputIs ==
    ASSUME NEW q, NEW input, AreItems(Normalize(input), q, "in")
    PROVE  LET items == Normalize(input)
               s     == ExtractNonSystem(input)
           IN  /\ OfTurn(items, q)
               /\ OfTurn(s, q) /\ \A k \in DOMAIN s : s[k].side = "in"
               /\ {Original(x) : x \in ToSet(items)} = ToSet(items)
               /\ {Original(x) : x \in ToSet(s)} = {x \in ToSet(items) : x.role # "system"}
               /\ \A role : HasRole(s, role) => HasRole(items, role)
<1> DEFINE items == Normalize(input)
           P == {k \in DOMAIN items : items[k].role # "system"}
           s == ExtractNonSystem(input)
<1>1. items \in Seq(Item)
  BY DEF AreItems
<1>2. \A k \in DOMAIN items : /\ items[k] \in Item /\ items[k].of = q
                              /\ items[k].side = "in" /\ items[k].at = k
  BY <1>1 DEF AreItems
<1>3. s = Pick(items, P) /\ P \in SUBSET (DOMAIN items)
  BY DEF ExtractNonSystem
<1> HIDE DEF items, s
<1>4. s \in Seq(Item) /\ Selects(s, items, P)
  <2> HIDE DEF P
  <2> QED
    BY <1>1, <1>3, PickType, PickIs
<1>5. \A n \in DOMAIN s : \E k \in P : s[n] = items[k]
  BY <1>4 DEF Selects
<1>6. \A k \in P : \E n \in DOMAIN s : s[n] = items[k]
  BY <1>4 DEF Selects
<1>7. OfTurn(items, q)
  BY <1>1, <1>2 DEF OfTurn, Precedes
<1>8. OfTurn(s, q) /\ \A k \in DOMAIN s : s[k].side = "in"
  BY <1>2, <1>4, <1>5, SMTT(60) DEF OfTurn, Precedes, Selects
<1>9. \A x \in ToSet(items) : x \in Item /\ Original(x) = x
  BY <1>2, OriginalIs DEF ToSet
<1>10. ToSet(s) = {x \in ToSet(items) : x.role # "system"}
  <2>1. ASSUME NEW x \in ToSet(s) PROVE x \in ToSet(items) /\ x.role # "system"
    BY <1>5 DEF ToSet
  <2>2. ASSUME NEW x \in ToSet(items), x.role # "system" PROVE x \in ToSet(s)
    BY <1>6, <2>2 DEF ToSet
  <2> QED
    BY <2>1, <2>2
<1>11. \A role : HasRole(s, role) => HasRole(items, role)
  BY <1>5 DEF HasRole
<1>12. {Original(x) : x \in ToSet(items)} = ToSet(items)
  BY <1>9
<1>13. {Original(x) : x \in ToSet(s)} = ToSet(s)
  BY <1>9, <1>10
<1> QED
  BY <1>7, <1>8, <1>10, <1>11, <1>12, <1>13 DEF items, s

\* The messages and function calls of an output.
LEMMA OutputIs ==
    ASSUME NEW q, NEW output, AreItems(output, q, "out")
    PROVE  LET s == OutputMessages(output)
           IN  /\ OfTurn(s, q) /\ \A k \in DOMAIN s : s[k].side = "out"
               /\ {Original(x) : x \in ToSet(s)} =
                     {x \in ToSet(output) : x.role \in {"message", "function_call"}}
               /\ HasRole(output, "function_call") => HasRole(s, "function_call")
               /\ ~HasRole(s, "function_call_output")
<1> DEFINE P == {k \in DOMAIN output : output[k].role \in {"message", "function_call"}}
           kept == Pick(output, P)
           s == OutputMessages(output)
<1>1. output \in Seq(Item)
  BY DEF AreItems
<1>2. \A k \in DOMAIN output : /\ output[k] \in Item /\ output[k].of = q
                               /\ output[k].side = "out" /\ output[k].at = k
  BY <1>1 DEF AreItems
<1>3. s = [k \in DOMAIN kept |-> AsSent(kept[k])] /\ P \in SUBSET (DOMAIN output)
  BY DEF OutputMessages
<1>4. kept \in Seq(Item) /\ Selects(kept, output, P)
  <2> HIDE DEF P
  <2> QED
    BY <1>1, <1>3, PickType, PickIs
<1> HIDE DEF s, kept
<1>5. \A n \in DOMAIN kept : \E k \in P : kept[n] = output[k]
  BY <1>4 DEF Selects
<1>6. \A k \in P : \E n \in DOMAIN kept : kept[n] = output[k]
  BY <1>4 DEF Selects
<1>7. DOMAIN s = DOMAIN kept /\ \A n \in DOMAIN kept : kept[n] \in Item /\ s[n] = AsSent(kept[n])
  BY <1>3, <1>4
<1>8. \A n \in DOMAIN s : /\ s[n] \in Item /\ s[n].of = q /\ s[n].side = "out"
                          /\ s[n].at = kept[n].at /\ s[n].role \in {"assistant", "function_call"}
                          /\ Original(s[n]) = kept[n]
  BY <1>2, <1>5, <1>7, OriginalIs
<1>9. s \in Seq(Item)
  <2>1. DOMAIN kept = 1..Len(kept) /\ Len(kept) \in Nat
    BY <1>4
  <2>2. s = [n \in 1..Len(kept) |-> s[n]]
    BY <1>3, <2>1
  <2> QED
    BY <1>7, <1>8, <2>1, <2>2
<1>10. \A i, j \in DOMAIN s : i < j => Precedes(s[i], s[j])
  <2>1. \A i, j \in DOMAIN s : i < j => kept[i].at < kept[j].at
    BY <1>2, <1>4, <1>7, SMTT(60) DEF Selects
  <2> QED
    BY <1>8, <2>1 DEF Precedes
<1>11. {Original(x) : x \in ToSet(s)} =
          {x \in ToSet(output) : x.role \in {"message", "function_call"}}
  <2>1. ASSUME NEW x \in ToSet(s)
        PROVE  Original(x) \in ToSet(output) /\ Original(x).role \in {"message", "function_call"}
    <3>1. PICK n \in DOMAIN s : x = s[n]
      BY DEF ToSet
    <3>2. PICK k \in P : kept[n] = output[k]
      BY <1>5, <1>7
    <3> QED
      BY <1>8, <3>1, <3>2 DEF ToSet
  <2>2. ASSUME NEW x \in ToSet(output), x.role \in {"message", "function_call"}
        PROVE  \E y \in ToSet(s) : x = Original(y)
    <3>1. PICK k \in P : x = output[k]
      BY <2>2 DEF ToSet
    <3>2. PICK n \in DOMAIN kept : kept[n] = output[k]
      BY <1>6
    <3>3. s[n] \in ToSet(s)
      BY <1>7 DEF ToSet
    <3> QED
      BY <1>7, <1>8, <3>1, <3>2, <3>3
  <2> QED
    BY <2>1, <2>2
<1>12. HasRole(output, "function_call") => HasRole(s, "function_call")
  <2>1. ASSUME NEW k \in DOMAIN output, output[k].role = "function_call"
        PROVE  HasRole(s, "function_call")
    <3>1. PICK n \in DOMAIN kept : kept[n] = output[k]
      BY <1>6, <2>1
    <3>2. s[n].role = "function_call"
      BY <1>2, <1>7, <2>1, <3>1, OriginalIs
    <3> QED
      BY <1>7, <3>2 DEF HasRole
  <2> QED
    BY <2>1 DEF HasRole
<1>13. ~HasRole(s, "function_call_output")
  BY <1>8 DEF HasRole
<1> QED
  BY <1>8, <1>9, <1>10, <1>11, <1>12, <1>13 DEF OfTurn, s

-----------------------------------------------------------------------------
\* Two orderly sequences joined, where the second is of a later turn.
LEMMA JoinedInOrder ==
    ASSUME NEW s \in Seq(Item), NEW t \in Seq(Item),
           \A i, j \in DOMAIN s : i < j => Precedes(s[i], s[j]),
           \A i, j \in DOMAIN t : i < j => Precedes(t[i], t[j]),
           \A i \in DOMAIN s, j \in DOMAIN t : Precedes(s[i], t[j])
    PROVE  \A i, j \in DOMAIN (s \o t) : i < j => Precedes((s \o t)[i], (s \o t)[j])
<1> DEFINE st == s \o t
           N == Len(s)
           M == Len(t)
<1>1. /\ N \in Nat /\ M \in Nat /\ DOMAIN s = 1..N /\ DOMAIN t = 1..M /\ DOMAIN st = 1..N + M
      /\ \A k \in 1..N : st[k] = s[k]
      /\ \A k \in 1..M : st[N + k] = t[k]
  <2> HIDE DEF Item
  <2> QED
    BY Joined
<1> HIDE DEF st, N, M
<1>2. ASSUME NEW j \in DOMAIN st, j > N PROVE j - N \in DOMAIN t /\ st[j] = t[j - N]
  <2>1. j - N \in 1..M /\ N + (j - N) = j
    BY <1>1, <1>2
  <2> QED
    BY <1>1, <2>1
<1>3. ASSUME NEW i \in DOMAIN st, NEW j \in DOMAIN st, i < j PROVE Precedes(st[i], st[j])
  <2>1. CASE j <= N
    <3>1. i \in 1..N /\ j \in 1..N
      BY <1>1, <1>3, <2>1
    <3> QED
      BY <1>1, <1>3, <3>1
  <2>2. CASE i <= N /\ j > N
    <3>1. i \in 1..N
      BY <1>1, <2>2
    <3> QED
      BY <1>1, <1>2, <2>2, <3>1
  <2>3. CASE i > N
    <3>1. j > N /\ i - N < j - N
      BY <1>1, <1>3, <2>3
    <3> QED
      BY <1>2, <2>3, <3>1
  <2> QED
    BY <1>1, <2>1, <2>2, <2>3
<1> QED
  BY <1>3 DEF st

\* The members of two sequences joined, as a set.
LEMMA JoinedSet ==
    ASSUME NEW S, NEW s \in Seq(S), NEW t \in Seq(S)
    PROVE  ToSet(s \o t) = ToSet(s) \cup ToSet(t)
<1> DEFINE st == s \o t
           N == Len(s)
           M == Len(t)
<1>1. /\ N \in Nat /\ M \in Nat /\ DOMAIN s = 1..N /\ DOMAIN t = 1..M /\ DOMAIN st = 1..N + M
      /\ \A k \in 1..N : st[k] = s[k]
      /\ \A k \in 1..M : st[N + k] = t[k]
  BY Joined
<1> HIDE DEF st, N, M
<1>2. ASSUME NEW x \in ToSet(st) PROVE x \in ToSet(s) \cup ToSet(t)
  <2>1. PICK k \in DOMAIN st : x = st[k]
    BY DEF ToSet
  <2>2. k \in 1..N \/ (k - N \in 1..M /\ N + (k - N) = k)
    BY <1>1
  <2> QED
    BY <1>1, <2>1, <2>2 DEF ToSet
<1>3. ASSUME NEW x \in ToSet(s) PROVE x \in ToSet(st)
  <2>1. PICK k \in DOMAIN s : x = s[k]
    BY DEF ToSet
  <2>2. k \in DOMAIN st
    BY <1>1
  <2> QED
    BY <1>1, <2>1, <2>2 DEF ToSet
<1>4. ASSUME NEW x \in ToSet(t) PROVE x \in ToSet(st)
  <2>1. PICK k \in DOMAIN t : x = t[k]
    BY DEF ToSet
  <2>2. N + k \in DOMAIN st
    BY <1>1
  <2> QED
    BY <1>1, <2>1, <2>2 DEF ToSet
<1> QED
  BY <1>2, <1>3, <1>4 DEF st

\* What a row adds to the messages.
LEMMA SaidIs ==
    ASSUME NEW q \in Nat, NEW row,
           AreItems(Normalize(row.input), q, "in"), AreItems(row.output, q, "out")
    PROVE  /\ OfTurn(Said(row), q)
           /\ {Original(x) : x \in ToSet(Said(row))} =
                 {x \in ToSet(Normalize(row.input)) : x.role # "system"}
                 \cup {x \in ToSet(row.output) : x.role \in {"message", "function_call"}}
           /\ HasRole(row.output, "function_call") => HasRole(Said(row), "function_call")
           /\ HasRole(Said(row), "function_call_output") =>
                 HasRole(Normalize(row.input), "function_call_output")
<1> DEFINE s == ExtractNonSystem(row.input)
           t == OutputMessages(row.output)
<1>1. /\ OfTurn(s, q) /\ \A k \in DOMAIN s : s[k].side = "in"
      /\ {Original(x) : x \in ToSet(s)} = {x \in ToSet(Normalize(row.input)) : x.role # "system"}
      /\ \A role : HasRole(s, role) => HasRole(Normalize(row.input), role)
  BY InputIs
<1>2. /\ OfTurn(t, q) /\ \A k \in DOMAIN t : t[k].side = "out"
      /\ {Original(x) : x \in ToSet(t)} =
            {x \in ToSet(row.output) : x.role \in {"message", "function_call"}}
      /\ HasRole(row.output, "function_call") => HasRole(t, "function_call")
      /\ ~HasRole(t, "function_call_output")
  BY OutputIs
<1> HIDE DEF s, t
<1>3. Said(row) = s \o t
  BY DEF Said, s, t
<1>4. s \in Seq(Item) /\ t \in Seq(Item)
  BY <1>1, <1>2 DEF OfTurn
<1>5. \A i, j \in DOMAIN (s \o t) : i < j => Precedes((s \o t)[i], (s \o t)[j])
  <2>1. \A i \in DOMAIN s, j \in DOMAIN t : Precedes(s[i], t[j])
    BY <1>1, <1>2 DEF OfTurn, Precedes
  <2> QED
    BY <1>1, <1>2, <1>4, <2>1, JoinedInOrder DEF OfTurn
<1>6. ToSet(s \o t) = ToSet(s) \cup ToSet(t)
  <2> HIDE DEF Item
  <2> QED
    BY <1>4, JoinedSet
<1>7. s \o t \in Seq(Item)
  <2> HIDE DEF Item
  <2> QED
    BY <1>4
<1>8. \A x \in ToSet(s \o t) : x.of = q
  BY <1>1, <1>2, <1>6 DEF ToSet, OfTurn
<1>9. OfTurn(s \o t, q)
  BY <1>5, <1>7, <1>8 DEF OfTurn, ToSet
<1>10. {Original(x) : x \in ToSet(s \o t)} =
          {Original(x) : x \in ToSet(s)} \cup {Original(x) : x \in ToSet(t)}
  BY <1>6
<1>11. \A role : HasRole(s \o t, role) <=> HasRole(s, role) \/ HasRole(t, role)
  <2>1. \A u, role : HasRole(u, role) <=> \E x \in ToSet(u) : x.role = role
    BY DEF HasRole, ToSet
  <2> QED
    BY <1>6, <2>1
<1> QED
  BY <1>1, <1>2, <1>3, <1>9, <1>10, <1>11

-----------------------------------------------------------------------------
\* A linked table whose rows hold the items of their turns and answer the calls
\* of the row before.
Conversation(T, N) ==
    /\ Linked(T, N)
    /\ \A q \in DOMAIN T :
          /\ AreItems(Normalize(T[q].input), q, "in")
          /\ AreItems(T[q].output, q, "out")
          /\ HasRole(Normalize(T[q].input), "function_call_output") =>
                T[q].parent # 0 /\ HasRole(T[T[q].parent].output, "function_call")

History(T, q) == Reconstruct(Chain(T, q))

\* Each row adds what it says to what the rows before it said.
LEMMA HistoryIs ==
    ASSUME NEW T, NEW N, Conversation(T, N)
    PROVE  /\ History(T, 0) = <<>>
           /\ \A q \in DOMAIN T :
                /\ History(T, T[q].parent) \in Seq(Item)
                /\ History(T, q) = History(T, T[q].parent) \o Said(T[q])
<1> DEFINE R == {T[q] : q \in DOMAIN T}
           W == Seq(Item)
           Says(c) == [k \in DOMAIN c |-> Said(c[k])]
<1>1. Linked(T, N) /\ DOMAIN T \subseteq Nat
  BY DEF Conversation, Linked
<1>2. \A r \in R : Said(r) \in W
  BY <1>1, SaidIs DEF Conversation, OfTurn
<1>3. \A c : Reconstruct(c) = FlattenSeq(Says(c))
  BY DEF Reconstruct
<1>4. Chain(T, 0) = <<>> /\ Says(<<>>) = <<>> /\ FlattenSeq(<<>>) = <<>>
  BY <1>1, ChainIs DEF FlattenSeq
<1>5. ASSUME NEW q \in DOMAIN T
      PROVE  /\ History(T, T[q].parent) \in Seq(Item)
             /\ History(T, q) = History(T, T[q].parent) \o Said(T[q])
  <2> DEFINE c == Chain(T, T[q].parent)
             r == T[q]
             d == Append(c, r)
  <2>1. c \in Seq(R) /\ r \in R
    BY <1>1, <1>5, ChainType DEF Linked
  <2>2. Chain(T, q) = d
    BY <1>1, ChainIs
  <2> HIDE DEF c, r, R, W
  <2>3. /\ DOMAIN c = 1..Len(c) /\ Len(c) \in Nat /\ DOMAIN d = 1..Len(c) + 1
        /\ d[Len(c) + 1] = r
        /\ \A k \in 1..Len(c) : d[k] = c[k] /\ c[k] \in R
    BY <2>1
  <2> HIDE DEF d
  <2>4. Says(c) \in Seq(W) /\ Said(r) \in W
    BY <1>2, <2>1, <2>3
  <2>5. Says(d) = Append(Says(c), Said(r))
    <3> DEFINE e == Append(Says(c), Said(r))
    <3>1. Len(Says(c)) = Len(c)
      BY <2>3
    <3>2. /\ DOMAIN e = 1..Len(c) + 1 /\ e[Len(c) + 1] = Said(r)
          /\ \A k \in 1..Len(c) : e[k] = Says(c)[k]
          /\ e \in Seq(W)
      <4> HIDE DEF Says
      <4> QED
        BY <2>3, <2>4, <3>1
    <3>3. e = [k \in 1..Len(c) + 1 |-> e[k]]
      <4> HIDE DEF e
      <4> QED
        BY <2>3, <3>2
    <3> HIDE DEF e
    <3>4. \A k \in 1..Len(c) + 1 : e[k] = Said(d[k])
      <4>1. \A k \in 1..Len(c) + 1 : k = Len(c) + 1 \/ k \in 1..Len(c)
        BY <2>3
      <4> QED
        BY <2>3, <3>2, <4>1
    <3>5. Says(d) = e
      BY <2>3, <3>3, <3>4
    <3> QED
      BY <3>5 DEF e
  <2> HIDE DEF Says
  <2>6. /\ FlattenSeq(Says(c)) \in Seq(Item)
        /\ FlattenSeq(Append(Says(c), Said(r))) = FlattenSeq(Says(c)) \o Said(r)
    <3> HIDE DEF Item
    <3> QED
      BY <2>4, FlattenAppend DEF W
  <2> QED
    BY <1>3, <2>2, <2>5, <2>6 DEF History, c, r
<1>6. History(T, 0) = <<>>
  BY <1>3, <1>4 DEF History
<1> QED
  BY <1>5, <1>6

(***************************************************************************)
(* What is told up to turn n: every item once and in its place, and no     *)
(* result of a function call before a call.                                *)
(***************************************************************************)
Tale(h, n) ==
    /\ h \in Seq(Item)
    /\ \A k \in DOMAIN h : h[k].of <= n
    /\ \A i, j \in DOMAIN h : i < j => Precedes(h[i], h[j])
    /\ \A j \in DOMAIN h : h[j].role = "function_call_output" =>
          \E i \in 1..j - 1 : h[i].role = "function_call"

LEMMA TaleGoesOn ==
    ASSUME NEW n \in Nat, NEW h, Tale(h, n), NEW q \in Nat, n < q, NEW s, OfTurn(s, q),
           HasRole(s, "function_call_output") => HasRole(h, "function_call")
    PROVE  Tale(h \o s, q)
<1> DEFINE hs == h \o s
<1>1. h \in Seq(Item) /\ s \in Seq(Item)
  BY DEF Tale, OfTurn
<1>2. /\ hs \in Seq(Item) /\ Len(h) \in Nat /\ DOMAIN h = 1..Len(h)
      /\ DOMAIN s = 1..Len(s) /\ Len(s) \in Nat
      /\ DOMAIN hs = 1..Len(h) + Len(s)
      /\ \A k \in 1..Len(h) : hs[k] = h[k]
      /\ \A k \in 1..Len(s) : hs[Len(h) + k] = s[k]
  <2> HIDE DEF Item
  <2> QED
    BY <1>1, Joined
<1>3. ASSUME NEW k \in DOMAIN h PROVE h[k].of \in Nat /\ h[k].of < q
  <2>1. h[k] \in Item /\ h[k].of <= n
    BY <1>1 DEF Tale
  <2>2. h[k].of \in Nat
    BY <2>1 DEF Item
  <2> QED
    BY <2>1, <2>2
<1>4. \A i, j \in DOMAIN hs : i < j => Precedes(hs[i], hs[j])
  <2>1. \A i \in DOMAIN h, j \in DOMAIN s : Precedes(h[i], s[j])
    BY <1>3 DEF OfTurn, Precedes
  <2> QED
    BY <1>1, <2>1, JoinedInOrder DEF Tale, OfTurn
<1> HIDE DEF hs
<1>5. ASSUME NEW j \in DOMAIN hs, j > Len(h) PROVE j - Len(h) \in DOMAIN s /\ hs[j] = s[j - Len(h)]
  <2>1. j - Len(h) \in 1..Len(s) /\ Len(h) + (j - Len(h)) = j
    BY <1>2, <1>5
  <2> QED
    BY <1>2, <2>1
<1>6. \A j \in DOMAIN hs : j > Len(h) \/ j \in DOMAIN h
  BY <1>2
<1>7. ASSUME NEW k \in DOMAIN hs PROVE hs[k].of <= q
  <2>1. CASE k > Len(h)
    BY <1>5, <2>1 DEF OfTurn
  <2>2. CASE k \in DOMAIN h
    BY <1>2, <1>3, <2>2
  <2> QED
    BY <1>6, <2>1, <2>2
<1>8. ASSUME NEW j \in DOMAIN hs, hs[j].role = "function_call_output"
      PROVE  \E i \in 1..j - 1 : hs[i].role = "function_call"
  <2>1. CASE j > Len(h)
    <3>1. HasRole(h, "function_call")
      BY <1>5, <1>8, <2>1 DEF HasRole
    <3>2. PICK i \in DOMAIN h : h[i].role = "function_call"
      BY <3>1 DEF HasRole
    <3>3. i \in 1..j - 1
      BY <1>2, <2>1
    <3> QED
      BY <1>2, <3>2, <3>3
  <2>2. CASE j \in DOMAIN h
    <3>1. PICK i \in 1..j - 1 : h[i].role = "function_call"
      BY <1>2, <1>8, <2>2 DEF Tale
    <3>2. i \in 1..Len(h)
      BY <1>2, <2>2
    <3> QED
      BY <1>2, <3>1, <3>2
  <2> QED
    BY <1>6, <2>1, <2>2
<1> QED
  BY <1>2, <1>4, <1>7, <1>8 DEF Tale, hs

\* A row that made a call has told of it.
LEMMA CallsAreTold ==
    ASSUME NEW T, NEW N, Conversation(T, N), NEW q \in DOMAIN T,
           HasRole(T[q].output, "function_call")
    PROVE  HasRole(History(T, q), "function_call")
<1> DEFINE h == History(T, T[q].parent)
           s == Said(T[q])
<1>1. h \in Seq(Item) /\ History(T, q) = h \o s
  BY HistoryIs
<1>2. s \in Seq(Item) /\ HasRole(s, "function_call")
  <2>1. q \in Nat
    BY DEF Conversation, Linked
  <2> QED
    BY <2>1, SaidIs DEF Conversation, OfTurn
<1> HIDE DEF h, s
<1>3. ToSet(h \o s) = ToSet(h) \cup ToSet(s)
  <2> HIDE DEF Item
  <2> QED
    BY <1>1, <1>2, JoinedSet
<1>4. \A u, role : HasRole(u, role) <=> \E x \in ToSet(u) : x.role = role
  BY DEF HasRole, ToSet
<1> QED
  BY <1>1, <1>2, <1>3, <1>4

\* However long the chain of rows, its history is in order.
LEMMA HistoryInOrder ==
    ASSUME NEW T, NEW N, Conversation(T, N), NEW q \in DOMAIN T \cup {0}
    PROVE  Tale(History(T, q), q)
<1> DEFINE Bad == {p \in DOMAIN T \cup {0} : ~Tale(History(T, p), p)}
<1>1. SUFFICES ASSUME Bad # {} PROVE FALSE
  OBVIOUS
<1>0. Linked(T, N)
  BY DEF Conversation
<1>2. PICK p \in Bad : \A m \in Bad : p <= m
  <2>1. Bad \in SUBSET Nat
    BY <1>0 DEF Linked
  <2> HIDE DEF Bad
  <2> QED
    BY <1>1, <2>1, Least
<1>3. p \in DOMAIN T
  <2>1. History(T, 0) = <<>>
    BY HistoryIs
  <2>2. Tale(<<>>, 0)
    BY DEF Tale
  <2> QED
    BY <1>2, <2>1, <2>2
<1> DEFINE m == T[p].parent
<1>4. m \in DOMAIN T \cup {0} /\ m < p /\ m \in Nat /\ p \in Nat
  BY <1>0, <1>3 DEF Linked
<1>5. Tale(History(T, m), m)
  <2>1. m \notin Bad
    <3>1. ~(p <= m)
      BY <1>4
    <3> HIDE DEF m, Bad
    <3> QED
      BY <1>2, <3>1
  <2> QED
    BY <1>4, <2>1
<1>6. History(T, p) = History(T, m) \o Said(T[p])
  BY <1>3, HistoryIs
<1>7. /\ OfTurn(Said(T[p]), p)
      /\ HasRole(Said(T[p]), "function_call_output") => HasRole(History(T, m), "function_call")
  <2>1. /\ AreItems(Normalize(T[p].input), p, "in") /\ AreItems(T[p].output, p, "out")
        /\ HasRole(Normalize(T[p].input), "function_call_output") =>
              m # 0 /\ HasRole(T[m].output, "function_call")
    BY <1>3 DEF Conversation
  <2>2. /\ OfTurn(Said(T[p]), p)
        /\ HasRole(Said(T[p]), "function_call_output") =>
              HasRole(Normalize(T[p].input), "function_call_output")
    BY <1>4, <2>1, SaidIs
  <2> QED
    BY <1>4, <2>1, <2>2, CallsAreTold
<1> HIDE DEF m
<1>8. Tale(History(T, p), p)
  BY <1>4, <1>5, <1>6, <1>7, TaleGoesOn
<1> QED
  BY <1>2, <1>8

-----------------------------------------------------------------------------
\* The validator leaves the input alone or takes it out.
LEMMA InputStays ==
    ASSUME NEW cfg, NEW client
    PROVE  LET left == Validate(cfg, client).request
           IN  "input" \in DOMAIN left => "input" \in DOMAIN client /\ left.input = client.input
<1> DEFINE tooled == Tooled(cfg, client)
           names == Names(cfg, client)
           left == Validate(cfg, client).request
<1>1. left = Without(tooled, names)
  BY ValidateIs
<1>2. "input" \in DOMAIN tooled => "input" \in DOMAIN client /\ tooled["input"] = client["input"]
  <2>1. /\ DOMAIN Without(client, {"tools"}) = DOMAIN client \ {"tools"}
        /\ \A k \in DOMAIN client \ {"tools"} : Without(client, {"tools"})[k] = client[k]
    BY WithoutIs
  <2> DEFINE e == [tools |-> KeptTools(cfg, client)]
  <2>2. DOMAIN e = {"tools"}
    OBVIOUS
  <2> HIDE DEF e
  <2>3. /\ DOMAIN Update(client, e) = DOMAIN client \cup DOMAIN e
        /\ \A k \in DOMAIN client \ DOMAIN e : Update(client, e)[k] = client[k]
    BY UpdateIs
  <2> QED
    BY <2>1, <2>2, <2>3 DEF Tooled, e
<1> HIDE DEF tooled, names, left
<1>3. DOMAIN left = DOMAIN tooled \ names /\ \A k \in DOMAIN tooled \ names : left[k] = tooled[k]
  BY <1>1, WithoutIs
<1>4. "input" \in DOMAIN left => "input" \in DOMAIN client /\ left["input"] = client["input"]
  BY <1>2, <1>3
<1> QED
  BY <1>4 DEF left

\* The items of request t, as far as the validator left them.
LEMMA InputOfTurn ==
    ASSUME RequestInv, TurnsFollow, NEW t \in DOMAIN turns
    PROVE  LET items == Normalize(Input(Left(t)))  prev == turns[t].prev
           IN  /\ AreItems(items, t, "in")
               /\ HasRole(items, "function_call_output") =>
                     prev # 0 /\ HasRole(rows[prev].output, "function_call")
<1> DEFINE left == Left(t)
           client == turns[t].client
           items == Normalize(Input(left))
<1>1. "input" \in DOMAIN left => left.input = client.input
  <2>1. turns[t].verdict = Validate(Reject, client)
    BY DEF RequestInv, Judged
  <2> QED
    BY <2>1, InputStays DEF Left
<1>2. /\ AreItems(client.input.items, t, "in")
      /\ HasRole(client.input.items, "function_call_output") =>
            turns[t].prev # 0 /\ HasRole(rows[turns[t].prev].output, "function_call")
  BY DEF TurnsFollow
<1> HIDE DEF left, client
<1>3. items = <<>> \/ items = client.input.items
  BY <1>1 DEF Normalize, Input
<1>4. AreItems(<<>>, t, "in") /\ ~HasRole(<<>>, "function_call_output")
  BY DEF AreItems, HasRole
<1> HIDE DEF items
<1> QED
  BY <1>2, <1>3, <1>4 DEF items, left, client

\* The rows there are make up a conversation.
LEMMA RowsConverse ==
    ASSUME RequestInv, RowsAreTurns, TurnsFollow
    PROVE  Conversation(rows, This)
<1>1. This \in Nat /\ DOMAIN turns = 1..This
  BY ThisIs
<1>2. \A q \in DOMAIN rows :
         /\ q \in DOMAIN turns
         /\ rows[q].parent = turns[q].prev
         /\ rows[q].input = Input(Left(q))
         /\ AreItems(rows[q].output, q, "out")
  BY DEF RowsAreTurns, Called
<1>3. Linked(rows, This)
  BY <1>1, <1>2 DEF Linked, TurnsFollow
<1> QED
  BY <1>2, <1>3, InputOfTurn DEF Conversation

\* The requests before request t in its conversation.
LEMMA AncestorsAre ==
    ASSUME RequestInv, RowsAreTurns, TurnsFollow, NEW t \in DOMAIN turns
    PROVE  LET prev == turns[t].prev
           IN  Ancestors(t) = IF prev = 0 THEN {} ELSE {prev} \cup Ancestors(prev)
<1> DEFINE N == This
           V == SUBSET Nat
           D == DOMAIN turns
           Climb(f) == [q \in D |-> IF turns[q].prev = 0 THEN {}
                                    ELSE {turns[q].prev} \cup f[turns[q].prev]]
           before == CHOOSE f : f = Climb(f)
           par == [n \in 1..N |-> turns[n].prev]
           G == [x \in (1..N) \X V |-> IF turns[x[1]].prev = 0 THEN {}
                                       ELSE {turns[x[1]].prev} \cup x[2]]
<1>1. N \in Nat /\ D = 1..N
  BY ThisIs
<1>2. \A n \in D : /\ turns[n].prev \in D \cup {0} /\ turns[n].prev < n
                   /\ turns[n].prev \in Nat
  BY <1>1 DEF TurnsFollow, RowsAreTurns, Called
<1>3. par \in [1..N -> Nat] /\ \A n \in 1..N : par[n] = turns[n].prev /\ par[n] < n
  BY <1>1, <1>2
<1>4. \A n \in D, v \in V : /\ n \in 1..N
                            /\ G[<<n, v>>] = IF turns[n].prev = 0 THEN {} ELSE {turns[n].prev} \cup v
  BY <1>1
<1>5. G \in [(1..N) \X V -> V]
  BY <1>1, <1>2
<1>6. {} \in V
  OBVIOUS
<1> HIDE DEF N, V, par, G
<1>7. PICK h \in [0..N -> V] :
         h[0] = {} /\ \A n \in 1..N : h[n] = G[<<n, h[par[n]]>>]
  <2>1. Recursive(V, {}, N, par, G)
    BY <1>1, <1>3, <1>5, <1>6, Recursion
  <2> QED
    BY <2>1 DEF Recursive
<1> HIDE DEF D
<1>8. \E f : f = Climb(f)
  <2> DEFINE f == [q \in D |-> h[q]]
  <2>1. ASSUME NEW q \in D
        PROVE  f[q] = IF turns[q].prev = 0 THEN {}
                      ELSE {turns[q].prev} \cup f[turns[q].prev]
    <3>1. f[q] = G[<<q, h[turns[q].prev]>>]
      BY <1>1, <1>3, <1>7
    <3>2. turns[q].prev \in 0..N /\ h[turns[q].prev] \in V
      BY <1>1, <1>2, <1>7
    <3>3. f[q] = IF turns[q].prev = 0 THEN {}
                 ELSE {turns[q].prev} \cup h[turns[q].prev]
      BY <1>4, <3>1, <3>2
    <3>4. turns[q].prev # 0 => turns[q].prev \in D
      BY <1>2
    <3> QED
      BY <3>3, <3>4
  <2>2. f = [q \in D |-> f[q]]
    OBVIOUS
  <2> HIDE DEF f
  <2>3. f = Climb(f)
    BY <2>1, <2>2, SMTT(60)
  <2> QED
    BY <2>3
<1>9. before = Climb(before)
  BY <1>8
<1>10. \A q : Ancestors(q) = before[q]
  BY DEF Ancestors, D
<1> HIDE DEF before
<1>11. t \in D
  BY DEF D
<1>12. before[t] = IF turns[t].prev = 0 THEN {} ELSE {turns[t].prev} \cup before[turns[t].prev]
  BY <1>9, <1>11
<1> QED
  BY <1>10, <1>12

\* What the rows up to row q tell is what is kept of it and of its ancestors.
LEMMA HistoryIsWhole ==
    ASSUME RequestInv, RowsAreTurns, TurnsFollow, NEW q \in DOMAIN rows
    PROVE  {Original(x) : x \in ToSet(History(rows, q))} =
              UNION {Kept(p) : p \in {q} \cup Ancestors(q)}
<1> DEFINE All(s) == {Original(x) : x \in ToSet(s)}
           KeptOf(P) == UNION {Kept(p) : p \in P}
           Bad == {p \in DOMAIN rows : All(History(rows, p)) # KeptOf({p} \cup Ancestors(p))}
<1>0. Conversation(rows, This)
  BY RowsConverse
<1>1. SUFFICES ASSUME Bad # {} PROVE FALSE
  OBVIOUS
<1>2. PICK p \in Bad : \A m \in Bad : p <= m
  <2>1. Bad \in SUBSET Nat
    BY <1>0 DEF Conversation, Linked
  <2> HIDE DEF Bad
  <2> QED
    BY <1>1, <2>1, Least
<1>3. /\ p \in DOMAIN rows /\ p \in DOMAIN turns /\ p \in Nat
      /\ rows[p].parent = turns[p].prev /\ rows[p].input = Input(Left(p))
  BY <1>0 DEF RowsAreTurns, Called, Conversation, Linked
<1> DEFINE m == turns[p].prev
           h == History(rows, m)
           s == Said(rows[p])
<1>4. m \in DOMAIN rows \cup {0} /\ m < p /\ m \in Nat
  BY <1>0, <1>3 DEF Conversation, Linked
<1>5. History(rows, p) = h \o s /\ h \in Seq(Item)
  BY <1>0, <1>3, HistoryIs
<1>6. All(s) = Kept(p) /\ s \in Seq(Item)
  BY <1>0, <1>3, SaidIs DEF Conversation, Kept, OfTurn
<1>7. All(h) = IF m = 0 THEN {} ELSE KeptOf({m} \cup Ancestors(m))
  <2>1. CASE m = 0
    <3>1. h = <<>>
      BY <1>0, <2>1, HistoryIs
    <3>2. ToSet(<<>>) = {}
      BY DEF ToSet
    <3> QED
      BY <2>1, <3>1, <3>2
  <2>2. CASE m # 0
    <3>1. m \notin Bad
      <4>1. ~(p <= m)
        BY <1>3, <1>4
      <4> HIDE DEF m, Bad
      <4> QED
        BY <1>2, <4>1
    <3> QED
      BY <1>4, <2>2, <3>1
  <2> QED
    BY <2>1, <2>2
<1>8. Ancestors(p) = IF m = 0 THEN {} ELSE {m} \cup Ancestors(m)
  BY <1>3, AncestorsAre
<1> HIDE DEF m, h, s
<1>9. ToSet(h \o s) = ToSet(h) \cup ToSet(s)
  <2> HIDE DEF Item
  <2> QED
    BY <1>5, <1>6, JoinedSet
<1>10. All(History(rows, p)) = All(h) \cup All(s)
  BY <1>5, <1>9
<1>11. \A P : KeptOf({p} \cup P) = Kept(p) \cup KeptOf(P)
  OBVIOUS
<1>12. KeptOf({}) = {}
  OBVIOUS
<1> HIDE DEF All, KeptOf
<1>13. All(History(rows, p)) = KeptOf({p} \cup Ancestors(p))
  BY <1>6, <1>7, <1>8, <1>10, <1>11, <1>12
<1> QED
  BY <1>2, <1>13

-----------------------------------------------------------------------------
\* Of a request that is as it was, the same is told, whatever rows are added.
LEMMA SameTold ==
    ASSUME RequestInv, RowsAreTurns, TurnsFollow, NEW t \in DOMAIN turns,
           turns'[t].prev = turns[t].prev, turns'[t].verdict = turns[t].verdict,
           NEW N, Linked(rows', N), DOMAIN rows \subseteq DOMAIN rows',
           \A q \in DOMAIN rows : rows'[q] = rows[q]
    PROVE  Told(t)' = Told(t)
<1>1. Left(t)' = Left(t)
  BY DEF Left
<1>2. turns[t].prev \in DOMAIN rows \cup {0}
  BY DEF TurnsFollow
<1>3. Linked(rows, This)
  BY RowsConverse DEF Conversation
<1>4. Chain(rows', turns[t].prev) = Chain(rows, turns[t].prev)
  BY <1>2, <1>3, ChainGrows
<1> QED
  BY <1>1, <1>4 DEF Told

LEMMA DialogueInit == ASSUME Init PROVE DialogueInv
<1>1. DOMAIN turns = {} /\ DOMAIN rows = {} /\ stage = "boot"
  BY DEF Init
<1> QED
  BY <1>1 DEF DialogueInv, RowsAreTurns, TurnsFollow, TellsAll, Continued, Called

LEMMA DialogueStart == ASSUME RequestInv, DialogueInv, Start PROVE DialogueInv'
<1>1. turns' = turns /\ rows' = rows /\ turns = <<>> /\ stage' \in {"refused", "ready"}
  BY DEF Start, RequestInv, Starting
<1>2. DOMAIN turns = {} /\ DOMAIN rows = {}
  BY <1>1 DEF DialogueInv, RowsAreTurns, Called
<1> QED
  BY <1>1, <1>2 DEF DialogueInv, RowsAreTurns, TurnsFollow, TellsAll, Continued, Called

\* Items are items of their turn.
LEMMA ItemsAre ==
    ASSUME NEW t \in Nat, NEW side \in {"in", "out"}, NEW roles \in Seq(STRING)
    PROVE  /\ AreItems(Items(t, side, roles), t, side)
           /\ \A role : HasRole(Items(t, side, roles), role) => role \in ToSet(roles)
<1> DEFINE items == Items(t, side, roles)
<1>1. DOMAIN roles = 1..Len(roles) /\ Len(roles) \in Nat
      /\ \A k \in 1..Len(roles) : roles[k] \in STRING
  OBVIOUS
<1>2. items = [k \in 1..Len(roles) |-> [role |-> roles[k], of |-> t, side |-> side, at |-> k]]
  BY <1>1 DEF Items
<1>3. \A k \in 1..Len(roles) :
         /\ items[k] \in Item /\ items[k].of = t /\ items[k].side = side /\ items[k].at = k
         /\ items[k].role = roles[k]
  BY <1>1, <1>2 DEF Item
<1>4. items \in Seq(Item) /\ DOMAIN items = 1..Len(roles)
  <2>1. items = [k \in 1..Len(roles) |-> items[k]]
    BY <1>2
  <2> HIDE DEF items, Item
  <2> QED
    BY <1>1, <1>3, <2>1
<1> HIDE DEF items
<1> QED
  BY <1>1, <1>3, <1>4 DEF AreItems, HasRole, ToSet, items

LEMMA DialogueReceive ==
    ASSUME SceneAssumption, RequestInv, DialogueInv, Receive PROVE DialogueInv'
<1>1. PICK fields, i, p :
        /\ i \in scene.inputs /\ p \in DOMAIN rows \cup {0} /\ Sensible(i, p)
        /\ LET client  == Update(fields, [input |->
                             [form |-> i.form, items |-> Items(This + 1, "in", i.roles)]])
               verdict == Validate(Reject, client)
           IN  /\ turns' = Append(turns, [client |-> client, prev |-> p, verdict |-> verdict,
                                          outcome |-> IF verdict.raises THEN "422" ELSE "open",
                                          sent |-> <<>>])
               /\ stage' = IF verdict.raises THEN "ready" ELSE "resolve"
  BY ZenonT(60) DEF Receive
<1>2. UNCHANGED <<scene, config, rows>> /\ scene \in Scenes
  BY DEF Receive, RequestInv
<1> DEFINE n == This
           items == Items(n + 1, "in", i.roles)
           e == [input |-> [form |-> i.form, items |-> items]]
           client == Update(fields, e)
           verdict == Validate(Reject, client)
           new == [client |-> client, prev |-> p, verdict |-> verdict,
                   outcome |-> IF verdict.raises THEN "422" ELSE "open", sent |-> <<>>]
<1>3. n \in Nat /\ DOMAIN turns = 1..n
  BY ThisIs
<1>4. i.roles \in Seq(STRING)
  BY <1>1, <1>2 DEF SceneAssumption
<1>5. /\ AreItems(items, n + 1, "in")
      /\ HasRole(items, "function_call_output") => "function_call_output" \in ToSet(i.roles)
  <2>1. n + 1 \in Nat
    BY <1>3
  <2> HIDE DEF n
  <2> QED
    BY <1>4, <2>1, ItemsAre
<1>6. "function_call_output" \in ToSet(i.roles) =>
         p # 0 /\ HasRole(rows[p].output, "function_call")
  BY <1>1 DEF Sensible, HasRole, ToSet
<1>7. "input" \in DOMAIN client /\ client.input.items = items
  <2>1. DOMAIN e = {"input"} /\ e["input"].items = items
    BY DEF e
  <2> HIDE DEF e, items
  <2>2. /\ DOMAIN Update(fields, e) = DOMAIN fields \cup DOMAIN e
        /\ \A k \in DOMAIN e : Update(fields, e)[k] = e[k]
        /\ \A k \in DOMAIN fields \ DOMAIN e : Update(fields, e)[k] = fields[k]
    BY UpdateIs
  <2> QED
    BY <2>1, <2>2
<1>8. p \in DOMAIN rows \cup {0} /\ p < n + 1
  BY <1>1, <1>3 DEF DialogueInv, RowsAreTurns, Called
<1>9. turns' = Append(turns, new) /\ stage' # "call"
  BY <1>1
<1> HIDE DEF items, client, verdict
<1>10. new.client = client /\ new.prev = p /\ new.outcome # "200"
  OBVIOUS
<1> HIDE DEF new
<1>11. /\ DOMAIN turns' = 1..n + 1
       /\ \A t \in 1..n : turns'[t] = turns[t]
       /\ turns'[n + 1] = new
  BY <1>9, TurnAdded DEF n
<1> HIDE DEF n
<1>12. Called' = Called
  <2>1. \A t \in 1..n + 1 : t \in 1..n \/ t = n + 1
    BY <1>3
  <2>2. \A t \in 1..n : t \in 1..n + 1
    BY <1>3
  <2> QED
    BY <1>3, <1>10, <1>11, <2>1, <2>2 DEF Called
<1>13. \A t \in DOMAIN turns : turns'[t] = turns[t] /\ Left(t)' = Left(t) /\ Params(t)' = Params(t)
  <2>1. \A t \in DOMAIN turns : turns'[t] = turns[t]
    BY <1>3, <1>11
  <2> QED
    BY <1>2, <2>1, SameVerdict
<1>14. RowsAreTurns'
  BY <1>2, <1>12, <1>13 DEF DialogueInv, RowsAreTurns, Called
<1>15. TurnsFollow'
  <2>1. ASSUME NEW t \in DOMAIN turns'
        PROVE  /\ turns'[t].prev \in DOMAIN rows' \cup {0} /\ turns'[t].prev < t
               /\ "input" \in DOMAIN turns'[t].client
               /\ AreItems(turns'[t].client.input.items, t, "in")
               /\ HasRole(turns'[t].client.input.items, "function_call_output") =>
                     /\ turns'[t].prev # 0
                     /\ HasRole(rows'[turns'[t].prev].output, "function_call")
    <3>1. CASE t \in DOMAIN turns
      BY <1>2, <1>13, <3>1 DEF DialogueInv, TurnsFollow
    <3>2. CASE t = n + 1
      BY <1>2, <1>5, <1>6, <1>7, <1>8, <1>10, <1>11, <3>2
    <3> QED
      BY <1>3, <1>11, <3>1, <3>2
  <2> QED
    BY <2>1 DEF TurnsFollow
<1>16. TellsAll'
  <2>1. ASSUME NEW t \in Continued' PROVE Dialogue(t)' = Told(t)'
    <3>1. t \in Continued /\ t \in DOMAIN turns
      BY <1>12, <1>13, <2>1 DEF Continued, Called
    <3>2. Dialogue(t)' = Dialogue(t)
      BY <1>13, <3>1 DEF Dialogue
    <3>3. Told(t)' = Told(t)
      BY <1>2, <1>13, <3>1 DEF Told
    <3> QED
      BY <3>1, <3>2, <3>3 DEF DialogueInv, TellsAll
  <2> QED
    BY <1>9, <2>1 DEF TellsAll
<1> QED
  BY <1>14, <1>15, <1>16 DEF DialogueInv

LEMMA DialogueResolve == ASSUME RequestInv, DialogueInv, Resolve PROVE DialogueInv'
<1> DEFINE m == This
           prev == turns[m].prev
           items == Normalize(Input(Left(m)))
<1>1. UNCHANGED <<scene, config, turns, rows>> /\ stage = "resolve" /\ stage' = "call"
  BY DEF Resolve
<1>2. m \in DOMAIN turns /\ request = PopStore(Left(m))
  BY <1>1, ThisIs DEF RequestInv, Underway
<1>3. Input(request) = Input(Left(m))
  <2> DEFINE left == Left(m)
  <2> HIDE DEF left
  <2>1. /\ DOMAIN Without(left, {"store"}) = DOMAIN left \ {"store"}
        /\ \A k \in DOMAIN left \ {"store"} : Without(left, {"store"})[k] = left[k]
    BY WithoutIs
  <2> QED
    BY <1>2, <2>1 DEF PopStore, Input, left
<1>4. Normalize(Input(request')) = Reconstruct(Chain(rows, prev)) \o items
  <2>1. CASE prev = 0
    <3>1. request' = request
      BY <2>1 DEF Resolve
    <3>2. Reconstruct(Chain(rows, prev)) = <<>>
      BY <2>1, RowsConverse, HistoryIs DEF History, DialogueInv
    <3>3. items \in Seq(Item)
      BY <1>2, InputOfTurn DEF AreItems, DialogueInv
    <3>4. <<>> \o items = items
      <4> HIDE DEF items, Item
      <4> QED
        BY <3>3
    <3> QED
      BY <1>3, <3>1, <3>2, <3>4
  <2>2. CASE prev # 0
    <3> DEFINE all == Reconstruct(Chain(rows, prev)) \o Normalize(Input(request))
               e == [input |-> [form |-> "list", items |-> all]]
    <3>1. request' = Update(request, e)
      BY <2>2 DEF Resolve
    <3>2. DOMAIN e = {"input"} /\ e["input"] = [form |-> "list", items |-> all]
      OBVIOUS
    <3> HIDE DEF e, all
    <3>3. /\ DOMAIN Update(request, e) = DOMAIN request \cup DOMAIN e
          /\ \A k \in DOMAIN e : Update(request, e)[k] = e[k]
          /\ \A k \in DOMAIN request \ DOMAIN e : Update(request, e)[k] = request[k]
      BY UpdateIs
    <3>4. Normalize(Input(request')) = all
      BY <3>1, <3>2, <3>3 DEF Input, Normalize
    <3> QED
      BY <1>3, <3>4 DEF all
  <2> QED
    BY <2>1, <2>2
<1>5. Told(This)' = Reconstruct(Chain(rows, prev)) \o items
  BY <1>1 DEF Told, This, Left
<1>6. RowsAreTurns' /\ TurnsFollow'
  BY <1>1 DEF DialogueInv, RowsAreTurns, TurnsFollow, Called, Left
<1>7. \A t \in Continued' : Dialogue(t)' = Told(t)'
  BY <1>1 DEF DialogueInv, TellsAll, Continued, Called, Params, Aliases, Left, Dialogue, Told
<1>8. Normalize(Input(request')) = Told(This)'
  BY <1>4, <1>5
<1> QED
  BY <1>6, <1>7, <1>8 DEF DialogueInv, TellsAll

LEMMA DialogueCall ==
    ASSUME SceneAssumption, RequestInv, DialogueInv, Call PROVE DialogueInv'
<1> DEFINE args == Arguments(Aliases, request)
<1>1. UNCHANGED <<scene, config>> /\ stage = "call" /\ stage' = "ready"
  BY DEF Call
<1>2. PICK m, o, sent :
        /\ m = This /\ turns' = Outcome(o, sent)
        /\ \/ o = "502" /\ rows' = rows
           \/ /\ o = "200" /\ sent = Update(args.spread, args.own)
              /\ \/ rows' = rows
                 \/ \E types \in scene.outputs :
                       rows' = Update(rows, [t \in {This} |->
                                  [parent |-> turns[t].prev, input |-> Recorded(t),
                                   output |-> Items(t, "out", types)]])
  BY DEF Call, Arguments
<1>3. This \in Nat /\ DOMAIN turns = 1..This /\ m \in DOMAIN turns
  BY <1>1, <1>2, ThisIs
<1>4. /\ DOMAIN turns' = DOMAIN turns
      /\ \A t \in DOMAIN turns \ {m} : turns'[t] = turns[t]
      /\ turns'[m].client = turns[m].client /\ turns'[m].verdict = turns[m].verdict
      /\ turns'[m].prev = turns[m].prev
      /\ turns'[m].outcome = o /\ turns'[m].sent = sent
  BY <1>1, <1>2, TurnEnded
<1>5. \A t \in DOMAIN turns : /\ turns'[t].client = turns[t].client
                              /\ turns'[t].verdict = turns[t].verdict
                              /\ turns'[t].prev = turns[t].prev
                              /\ Left(t)' = Left(t) /\ Params(t)' = Params(t)
  BY <1>1, <1>4, SameVerdict
<1>6. m \notin Called /\ m \notin DOMAIN rows
  <2>1. turns[m].outcome = "open"
    BY <1>1, <1>2 DEF RequestInv, Underway
  <2> QED
    BY <2>1 DEF DialogueInv, RowsAreTurns, Called
<1>7. /\ Called \subseteq Called' /\ Called' \subseteq Called \cup {m}
      /\ m \in Called' <=> o = "200"
  BY <1>3, <1>4, <1>6 DEF Called
<1>8. /\ DOMAIN rows \subseteq DOMAIN rows' /\ \A q \in DOMAIN rows : rows'[q] = rows[q]
      /\ \A q \in DOMAIN rows' \ DOMAIN rows :
            /\ q = m /\ o = "200"
            /\ rows'[q].parent = turns[q].prev /\ rows'[q].input = Input(Left(q))
            /\ AreItems(rows'[q].output, q, "out")
  <2>1. CASE rows' = rows
    BY <2>1
  <2>2. ASSUME NEW types \in scene.outputs, o = "200",
               rows' = Update(rows, [t \in {This} |->
                          [parent |-> turns[t].prev, input |-> Recorded(t),
                           output |-> Items(t, "out", types)]])
        PROVE  /\ DOMAIN rows' = DOMAIN rows \cup {m} /\ \A q \in DOMAIN rows : rows'[q] = rows[q]
               /\ rows'[m].parent = turns[m].prev /\ rows'[m].input = Input(Left(m))
               /\ AreItems(rows'[m].output, m, "out")
    <3> DEFINE e == [t \in {This} |-> [parent |-> turns[t].prev, input |-> Recorded(t),
                                       output |-> Items(t, "out", types)]]
    <3>1. /\ DOMAIN e = {m} /\ e[m].parent = turns[m].prev /\ e[m].input = Recorded(m)
          /\ e[m].output = Items(m, "out", types)
      BY <1>2
    <3>2. rows' = Update(rows, e)
      BY <2>2
    <3> HIDE DEF e
    <3>3. /\ DOMAIN Update(rows, e) = DOMAIN rows \cup DOMAIN e
          /\ \A k \in DOMAIN e : Update(rows, e)[k] = e[k]
          /\ \A k \in DOMAIN rows \ DOMAIN e : Update(rows, e)[k] = rows[k]
      BY UpdateIs
    <3>4. DOMAIN rows' = DOMAIN rows \cup {m} /\ \A q \in DOMAIN rows : rows'[q] = rows[q]
      BY <1>6, <3>1, <3>2, <3>3
    <3>5. rows'[m] = e[m]
      BY <3>1, <3>2, <3>3
    <3>6. AreItems(Items(m, "out", types), m, "out")
      <4>1. types \in Seq(STRING) /\ m \in Nat
        BY <1>3, <2>2 DEF SceneAssumption, RequestInv
      <4> QED
        BY <4>1, ItemsAre
    <3> QED
      BY <3>1, <3>4, <3>5, <3>6 DEF Recorded, Left
  <2>3. \/ rows' = rows
        \/ /\ o = "200"
           /\ \E types \in scene.outputs :
                 rows' = Update(rows, [t \in {This} |->
                            [parent |-> turns[t].prev, input |-> Recorded(t),
                             output |-> Items(t, "out", types)]])
    BY <1>2
  <2> QED
    BY <2>1, <2>2, <2>3
<1>9. RowsAreTurns'
  <2>1. ASSUME NEW q \in DOMAIN rows'
        PROVE  /\ q \in Called' /\ rows'[q].parent = turns'[q].prev
               /\ rows'[q].input = Input(Left(q)') /\ AreItems(rows'[q].output, q, "out")
    <3>1. CASE q \in DOMAIN rows
      <4>1. /\ q \in Called /\ q \in DOMAIN turns /\ rows[q].parent = turns[q].prev
            /\ rows[q].input = Input(Left(q)) /\ AreItems(rows[q].output, q, "out")
        BY <3>1 DEF DialogueInv, RowsAreTurns, Called
      <4> QED
        BY <1>5, <1>7, <1>8, <3>1, <4>1
    <3>2. CASE q \notin DOMAIN rows
      BY <1>3, <1>5, <1>7, <1>8, <3>2
    <3> QED
      BY <3>1, <3>2
  <2> QED
    BY <2>1 DEF RowsAreTurns
<1>10. TurnsFollow'
  <2>1. ASSUME NEW t \in DOMAIN turns
        PROVE  LET prev == turns[t].prev  client == turns[t].client
               IN  /\ prev \in DOMAIN rows' \cup {0} /\ prev < t
                   /\ "input" \in DOMAIN client /\ AreItems(client.input.items, t, "in")
                   /\ HasRole(client.input.items, "function_call_output") =>
                         prev # 0 /\ HasRole(rows'[prev].output, "function_call")
    BY <1>8 DEF DialogueInv, TurnsFollow
  <2> QED
    BY <1>4, <1>5, <2>1 DEF TurnsFollow
<1>11. Linked(rows', This)
  <2>1. ASSUME NEW q \in DOMAIN rows'
        PROVE  /\ q \in DOMAIN turns
               /\ rows'[q].parent \in DOMAIN rows' \cup {0} /\ rows'[q].parent < q
    <3>1. q \in DOMAIN turns /\ rows'[q].parent = turns[q].prev
      BY <1>4, <1>5, <1>9, <2>1 DEF RowsAreTurns, Called
    <3>2. turns[q].prev \in DOMAIN rows \cup {0} /\ turns[q].prev < q
      BY <3>1 DEF DialogueInv, TurnsFollow
    <3> QED
      BY <1>8, <3>1, <3>2
  <2> QED
    BY <1>3, <2>1 DEF Linked
<1>12. \A t \in DOMAIN turns : Told(t)' = Told(t)
  BY <1>5, <1>8, <1>11, SameTold DEF DialogueInv
<1>13. ASSUME NEW t \in Continued' PROVE Dialogue(t)' = Told(t)'
  <2>1. CASE t \in Called
    <3>1. t \in DOMAIN turns /\ t # m
      BY <1>6, <2>1 DEF Called
    <3>2. t \in Continued /\ turns'[t] = turns[t]
      BY <1>4, <1>5, <1>13, <2>1, <3>1 DEF Continued
    <3>3. Dialogue(t) = Told(t)
      BY <3>2 DEF DialogueInv, TellsAll
    <3> QED
      BY <1>12, <3>1, <3>2, <3>3 DEF Dialogue
  <2>2. CASE t = m /\ o = "200"
    <3> DEFINE left == Left(m)
    <3>1. sent = Update(args.spread, args.own)
      BY <1>2, <2>2
    <3>2. Without(request, {"input"}) = Without(left, {"store", "input"})
      BY <1>1, <1>2 DEF RequestInv, Underway
    <3>3. "input" \notin DOMAIN ParamsOf(Aliases, left)
      <4>1. Params(m) = ParamsOf(Aliases, left)
        BY DEF Params, ParamsOf
      <4> QED
        BY <1>3, <1>5, <1>13, <2>2, <4>1 DEF Continued
    <3> HIDE DEF left
    <3>4. /\ "input" \in DOMAIN sent <=> "input" \in DOMAIN request
          /\ "input" \in DOMAIN request => sent["input"] = request["input"]
      <4>1. "input" \notin DOMAIN ParamsOf(Aliases, left) =>
               LET all == Update(args.spread, args.own) IN
               /\ "input" \in DOMAIN all <=> "input" \in DOMAIN request
               /\ "input" \in DOMAIN request => all["input"] = request["input"]
        BY <3>2, ArgumentsAre
      <4> HIDE DEF args
      <4> QED
        BY <3>1, <3>3, <4>1
    <3>5. Input(sent) = Input(request)
      BY <3>4 DEF Input
    <3>6. Dialogue(t)' = Normalize(Input(request))
      BY <1>4, <2>2, <3>5 DEF Dialogue
    <3>7. Normalize(Input(request)) = Told(m)
      BY <1>1, <1>2 DEF DialogueInv, TellsAll
    <3> QED
      BY <1>3, <1>12, <2>2, <3>6, <3>7
  <2> QED
    BY <1>7, <1>13, <2>1, <2>2 DEF Continued
<1>14. TellsAll'
  BY <1>1, <1>13 DEF TellsAll
<1> QED
  BY <1>9, <1>10, <1>14 DEF DialogueInv

LEMMA DialogueStutter == ASSUME DialogueInv, UNCHANGED vars PROVE DialogueInv'
<1>1. UNCHANGED <<scene, config, turns, rows>> /\ stage' = stage /\ request' = request
  BY DEF vars
<1>2. RowsAreTurns' /\ TurnsFollow'
  BY <1>1 DEF DialogueInv, RowsAreTurns, TurnsFollow, Called, Left
<1>3. TellsAll'
  BY <1>1 DEF DialogueInv, TellsAll, Continued, Called, Params, Aliases, Left, Dialogue, Told, This
<1> QED
  BY <1>2, <1>3 DEF DialogueInv

-----------------------------------------------------------------------------
\* From the rows to what the provider is told, at every step of every request.
THEOREM DialoguesAreRebuilt == Spec => []DialogueInv
<1>1. Init => DialogueInv
  BY DialogueInit
<1>2. RequestInv /\ DialogueInv /\ [Next]_vars => DialogueInv'
  BY SceneAssumption, DialogueStart, DialogueReceive, DialogueResolve, DialogueCall,
     DialogueStutter DEF Next
<1> QED
  BY <1>1, <1>2, RequestsAreAccountedFor, PTL DEF Spec

\* What a request is called with, told as a tale.
LEMMA DialogueIs ==
    ASSUME RequestInv, DialogueInv, NEW t \in Continued
    PROVE  LET prev  == turns[t].prev
               items == Normalize(Input(Left(t)))
           IN  /\ t \in DOMAIN turns /\ t \in Nat /\ prev \in DOMAIN rows \cup {0}
               /\ Dialogue(t) = History(rows, prev) \o items
               /\ OfTurn(items, t) /\ {Original(x) : x \in ToSet(items)} = ToSet(items)
               /\ Tale(Dialogue(t), t)
<1> DEFINE prev == turns[t].prev
           items == Normalize(Input(Left(t)))
<1>1. t \in DOMAIN turns /\ t \in Nat
  BY ThisIs DEF Continued, Called
<1>2. Conversation(rows, This)
  BY RowsConverse DEF DialogueInv
<1>3. prev \in DOMAIN rows \cup {0} /\ prev < t /\ prev \in Nat
  BY <1>1, <1>2 DEF DialogueInv, TurnsFollow, Conversation, Linked
<1>4. Dialogue(t) = History(rows, prev) \o items
  BY DEF DialogueInv, TellsAll, Told, History
<1>5. /\ AreItems(items, t, "in")
      /\ HasRole(items, "function_call_output") =>
            prev # 0 /\ HasRole(rows[prev].output, "function_call")
  BY <1>1, InputOfTurn DEF DialogueInv
<1>6. OfTurn(items, t) /\ {Original(x) : x \in ToSet(items)} = ToSet(items)
  BY <1>5, InputIs
<1>7. Tale(History(rows, prev), prev)
  BY <1>2, <1>3, HistoryInOrder
<1>8. HasRole(items, "function_call_output") => HasRole(History(rows, prev), "function_call")
  BY <1>2, <1>3, <1>5, CallsAreTold
<1> HIDE DEF items
<1>9. Tale(History(rows, prev) \o items, t)
  <2> HIDE DEF prev
  <2> QED
    BY <1>1, <1>3, <1>6, <1>7, <1>8, TaleGoesOn
<1> QED
  BY <1>1, <1>3, <1>4, <1>6, <1>9 DEF items

\* However deep the conversation, no item is sent twice or out of place.
THEOREM DialoguesAreInOrder == Spec => []DialogueInOrder
<1>1. RequestInv /\ DialogueInv => DialogueInOrder
  BY DialogueIs DEF DialogueInOrder, Tale
<1> QED
  BY <1>1, RequestsAreAccountedFor, DialoguesAreRebuilt, PTL

\* A call comes before its result, in whatever turn it was made.
THEOREM ResultsFollowCalls == Spec => []CallsComeFirst
<1>1. RequestInv /\ DialogueInv => CallsComeFirst
  BY DialogueIs DEF CallsComeFirst, Tale
<1> QED
  BY <1>1, RequestsAreAccountedFor, DialoguesAreRebuilt, PTL

\* Nothing said is left out and nothing unsaid slips in.
THEOREM DialoguesAreWhole == Spec => []DialogueIsWhole
<1>1. ASSUME RequestInv, DialogueInv, NEW t \in Continued
      PROVE  {Original(x) : x \in ToSet(Dialogue(t))}
             = (UNION {Kept(p) : p \in Ancestors(t)}) \cup ToSet(Normalize(Input(Left(t))))
  <2> DEFINE prev == turns[t].prev
             items == Normalize(Input(Left(t)))
             h == History(rows, prev)
             All(s) == {Original(x) : x \in ToSet(s)}
             KeptOf(P) == UNION {Kept(p) : p \in P}
  <2>1. /\ t \in DOMAIN turns /\ prev \in DOMAIN rows \cup {0}
        /\ Dialogue(t) = h \o items
        /\ items \in Seq(Item) /\ All(items) = ToSet(items)
    BY <1>1, DialogueIs DEF OfTurn
  <2>2. Conversation(rows, This)
    BY <1>1, RowsConverse DEF DialogueInv
  <2>3. Ancestors(t) = IF prev = 0 THEN {} ELSE {prev} \cup Ancestors(prev)
    BY <1>1, <2>1, AncestorsAre DEF DialogueInv
  <2>4. h \in Seq(Item) /\ All(h) = KeptOf(Ancestors(t))
    <3>1. CASE prev = 0
      <4>1. h = <<>>
        BY <2>2, <3>1, HistoryIs
      <4>2. ToSet(<<>>) = {} /\ <<>> \in Seq(Item)
        BY DEF ToSet
      <4> QED
        BY <2>3, <3>1, <4>1, <4>2
    <3>2. CASE prev # 0
      <4>1. h \in Seq(Item)
        BY <2>1, <2>2, HistoryInOrder DEF Tale
      <4>2. All(h) = KeptOf({prev} \cup Ancestors(prev))
        BY <1>1, <2>1, <3>2, HistoryIsWhole DEF DialogueInv
      <4> QED
        BY <2>3, <3>2, <4>1, <4>2
    <3> QED
      BY <3>1, <3>2
  <2> HIDE DEF h, items
  <2>5. ToSet(h \o items) = ToSet(h) \cup ToSet(items)
    <3> HIDE DEF Item
    <3> QED
      BY <2>1, <2>4, JoinedSet
  <2>6. All(Dialogue(t)) = All(h) \cup All(items)
    BY <2>1, <2>5
  <2> HIDE DEF All, KeptOf
  <2>7. All(Dialogue(t)) = KeptOf(Ancestors(t)) \cup ToSet(items)
    BY <2>1, <2>4, <2>6
  <2> QED
    BY <2>7 DEF All, KeptOf, items
<1>2. RequestInv /\ DialogueInv => DialogueIsWhole
  BY <1>1 DEF DialogueIsWhole
<1> QED
  BY <1>2, RequestsAreAccountedFor, DialoguesAreRebuilt, PTL

===============================================================================
