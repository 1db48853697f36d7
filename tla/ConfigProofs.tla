------------------------------ MODULE ConfigProofs ------------------------------
(***************************************************************************)
(* What load_config makes of file and environment, proved for every file,  *)
(* every environment and every order of it, and what of it reaches the     *)
(* provider.                                                               *)
(***************************************************************************)
EXTENDS ConfiguredPath, RequestPathProofs, SequenceTheorems

-----------------------------------------------------------------------------
(***************************************************************************)
(* Paths, and the paths above them.                                        *)
(***************************************************************************)
\* Paths, those that the code itself names among them: the provers do not know
\* that these are strings.
Words == STRING \cup {"reject", "fields"}
Ways  == Seq(Words) \ {<<>>}

LEMMA PathsAreWays == Paths \subseteq Ways
BY DEF Paths, Ways, Words

LEMMA AboveIs ==
    ASSUME NEW p \in Ways
    PROVE  /\ Above(p) \subseteq Ways
           /\ \A q \in Above(p) : /\ Len(q) \in 1..Len(p) - 1
                                 /\ \A k \in 1..Len(q) : q[k] = p[k]
<1>1. p \in Seq(Words) /\ Len(p) \in Nat /\ \A k \in 1..Len(p) : p[k] \in Words
  BY DEF Ways
<1>2. ASSUME NEW n \in 1..Len(p) - 1
      PROVE  /\ SubSeq(p, 1, n) \in Ways /\ Len(SubSeq(p, 1, n)) = n
             /\ \A k \in 1..n : SubSeq(p, 1, n)[k] = p[k]
  <2>1. n \in Nat /\ n # 0 /\ \A k \in 1..n : k \in 1..Len(p)
    BY <1>1
  <2>2. SubSeq(p, 1, n) \in Seq(Words) /\ Len(SubSeq(p, 1, n)) = n
        /\ \A k \in 1..n : SubSeq(p, 1, n)[k] = p[k]
    BY <1>1, <2>1
  <2>3. SubSeq(p, 1, n) # <<>>
    BY <2>1, <2>2
  <2> QED
    BY <2>2, <2>3 DEF Ways
<1>3. ASSUME NEW q \in Above(p)
      PROVE  /\ q \in Ways /\ Len(q) \in 1..Len(p) - 1
             /\ \A k \in 1..Len(q) : q[k] = p[k]
  <2>1. PICK n \in 1..Len(p) - 1 : q = SubSeq(p, 1, n)
    BY <1>3, Zenon DEF Above
  <2>2. q \in Ways /\ Len(q) = n /\ \A k \in 1..n : q[k] = p[k]
    BY <1>2, <2>1, Zenon
  <2> QED
    BY <2>2
<1> QED
  BY <1>3, Zenon

\* Which paths are above one, by their members.
LEMMA AboveMeans ==
    ASSUME NEW p \in Ways, NEW q \in Ways
    PROVE  q \in Above(p) <=> Len(q) < Len(p) /\ \A k \in 1..Len(q) : q[k] = p[k]
<1>1. /\ p \in Seq(Words) /\ Len(p) \in Nat
      /\ q \in Seq(Words) /\ Len(q) \in Nat /\ Len(q) # 0
  <2>1. p \in Seq(Words) /\ q \in Seq(Words) /\ q # <<>>
    BY ZenonT(60) DEF Ways
  <2> QED
    BY <2>1, SMTT(60)
<1>2. ASSUME Len(q) < Len(p), \A k \in 1..Len(q) : q[k] = p[k]
      PROVE  q \in Above(p)
  <2>1. Len(q) \in 1..Len(p) - 1
    BY <1>1, <1>2
  <2>2. SubSeq(p, 1, Len(q)) = q
    BY <1>1, <1>2, <2>1
  <2> QED
    BY <2>1, <2>2 DEF Above
<1>3. ASSUME q \in Above(p)
      PROVE  Len(q) < Len(p) /\ \A k \in 1..Len(q) : q[k] = p[k]
  BY <1>1, <1>3, AboveIs
<1> QED
  BY <1>2, <1>3

\* Above is transitive, and no path is above itself.
LEMMA AboveOrder ==
    ASSUME NEW p \in Ways, NEW q \in Above(p)
    PROVE  /\ Above(q) \subseteq Above(p)
           /\ p \notin Above(q) /\ p # q
           /\ p \notin Above(p)
<1>1. q \in Ways /\ Len(q) \in 1..Len(p) - 1 /\ \A k \in 1..Len(q) : q[k] = p[k]
  BY AboveIs
<1>2. Len(p) \in Nat /\ Len(q) \in Nat
  BY <1>1 DEF Ways
<1>3. ASSUME NEW r \in Above(q) PROVE r \in Above(p) /\ r # p
  <2>1. r \in Ways /\ Len(r) \in 1..Len(q) - 1 /\ \A k \in 1..Len(r) : r[k] = q[k]
    BY <1>1, AboveIs
  <2>2. Len(r) < Len(p) /\ \A k \in 1..Len(r) : r[k] = p[k]
    BY <1>1, <1>2, <2>1
  <2> QED
    BY <1>2, <2>1, <2>2, AboveMeans
<1>4. p # q
  BY <1>1, <1>2
<1>5. p \notin Above(p)
  BY <1>2, AboveMeans
<1> QED
  BY <1>3, <1>4, <1>5

\* A prefix is the path itself or above it.
LEMMA PrefixIs ==
    ASSUME NEW p \in Ways, NEW q \in Ways
    PROVE  IsPrefix(q, p) <=> q = p \/ q \in Above(p)
<1>1. /\ p \in Seq(Words) /\ Len(p) \in Nat
      /\ q \in Seq(Words) /\ Len(q) \in Nat /\ Len(q) # 0
  BY DEF Ways
<1>2. SubSeq(q, 1, Len(q)) = q
  BY <1>1
<1>3. CASE Len(q) < Len(p)
  <2>1. Len(q) \in 1..Len(p) - 1
    BY <1>1, <1>3
  <2>2. SubSeq(p, 1, Len(q)) = q <=> \A k \in 1..Len(q) : q[k] = p[k]
    BY <1>1, <2>1
  <2>3. q # p
    BY <1>1, <1>3
  <2> QED
    BY <1>1, <1>2, <1>3, <2>2, <2>3, AboveMeans DEF IsPrefix
<1>4. CASE Len(q) = Len(p)
  <2>1. SubSeq(p, 1, Len(q)) = p
    BY <1>1, <1>4
  <2>2. q \notin Above(p)
    BY <1>1, <1>4, AboveMeans
  <2> QED
    BY <1>1, <1>2, <1>4, <2>1, <2>2 DEF IsPrefix
<1>5. CASE Len(q) > Len(p)
  <2>1. q # p /\ ~(Len(q) <= Len(p)) /\ ~(Len(q) < Len(p))
    BY <1>1, <1>5
  <2> QED
    BY <2>1, AboveMeans DEF IsPrefix
<1> QED
  BY <1>1, <1>3, <1>4, <1>5

\* The section above an option of two names.
LEMMA AboveFields ==
    /\ Fields \in Ways /\ Len(Fields) = 2
    /\ \A q \in Above(Fields) : Len(q) = 1
<1>1. Fields \in Ways /\ Len(Fields) = 2
  <2>1. "reject" \in Words /\ "fields" \in Words
    BY DEF Words
  <2> QED
    BY <2>1 DEF Fields, Ways
<1>2. ASSUME NEW q \in Above(Fields) PROVE Len(q) = 1
  <2>1. Len(q) \in 1..2 - 1
    BY <1>1, AboveIs
  <2> QED
    BY <2>1
<1> QED
  BY <1>1, <1>2

-----------------------------------------------------------------------------
(***************************************************************************)
(* What merging and setting leave, path by path.                           *)
(***************************************************************************)
Replaced(base, override) == {p \in DOMAIN base : Above(p) \cap Values(override) # {}}

\* m is base with override merged over it; s is d with v set at path.
IsMerge(m, base, override) ==
    /\ m = [p \in DOMAIN m |-> m[p]]
    /\ DOMAIN m = (DOMAIN base \ Replaced(base, override)) \cup DOMAIN override
    /\ \A p \in DOMAIN override : m[p] = override[p]
    /\ \A p \in DOMAIN base \ Replaced(base, override) :
          p \notin DOMAIN override => m[p] = base[p]

IsSet(s, d, path, v) ==
    /\ s = [p \in DOMAIN s |-> s[p]]
    /\ DOMAIN s = {p \in DOMAIN d : path \notin Above(p)} \cup Above(path) \cup {path}
    /\ s[path] = v
    /\ \A p \in Above(path) \ {path} : s[p] = Section
    /\ \A p \in DOMAIN d : path \notin Above(p) /\ p \notin Above(path) /\ p # path =>
          s[p] = d[p]

LEMMA MergedIs ==
    ASSUME NEW base, NEW override
    PROVE  IsMerge(DeepMerge(base, override), base, override)
BY DEF IsMerge, DeepMerge, Update, Without, Restrict, Replaced

LEMMA SetIs ==
    ASSUME NEW d, NEW path, NEW v
    PROVE  IsSet(SetAt(d, path, v), d, path, v)
BY DEF IsSet, SetAt, Update, Without, Restrict

-----------------------------------------------------------------------------
(***************************************************************************)
(* Parsing, variable by variable.                                          *)
(***************************************************************************)
\* What ConfigurationAssumption and SceneAssumption say of an environment.
Optional(env) ==
    /\ IsFiniteSet(env)
    /\ \A v \in env : v.path \in Ways /\ Coerced(v.text) # Section
    /\ \A v, w \in env : v.path = w.path => v = w
    /\ \A v, w \in env : v.path \in Above(w.path) => v.path = Fields \/ Len(v.path) = 1

\* An order of an environment has each variable once.
LEMMA OrderIsAll ==
    ASSUME NEW env, IsFiniteSet(env), NEW order \in SetToSeqs(env)
    PROVE  /\ Len(order) \in Nat /\ DOMAIN order = 1..Len(order)
           /\ order \in [1..Len(order) -> env]
           /\ \A v \in env : \E k \in 1..Len(order) : order[k] = v
           /\ \A k, l \in 1..Len(order) : k # l => order[k] # order[l]
<1> DEFINE N == Cardinality(env)
<1>1. N \in Nat
  BY FS_CardinalityType
<1>2. /\ order \in [1..N -> env]
      /\ \A k, l \in 1..N : k # l => order[k] # order[l]
  BY DEF SetToSeqs
<1>3. order \in Injection(1..N, env)
  BY <1>2 DEF Injection, IsInjective
<1>4. IsFiniteSet(1..N) /\ Cardinality(1..N) = N
  BY <1>1, FS_Interval
<1>5. order \in Surjection(1..N, env)
  BY <1>3, <1>4, FS_Injection
<1>6. \A v \in env : \E k \in 1..N : order[k] = v
  BY <1>5 DEF Surjection
<1>7. Len(order) = N /\ DOMAIN order = 1..N
  BY <1>1, <1>2
<1> QED
  BY <1>1, <1>2, <1>6, <1>7

\* What was parsed before variable v, and with it.
Step(r, v, t) ==
    \/ (r.raises \/ Len(v.path) = 1) /\ t = r
    \/ ~r.raises /\ Len(v.path) # 1 /\ Blocked(r.dict, v.path) /\ t.raises
    \/ /\ ~r.raises /\ Len(v.path) # 1 /\ ~Blocked(r.dict, v.path) /\ ~t.raises
       /\ IsSet(t.dict, r.dict, v.path, Coerced(v.text))

\* What was parsed of the first n variables, for each n.
Steps(f, env, order) ==
    /\ f[0] = [raises |-> FALSE, dict |-> <<>>]
    /\ \A n \in 1..Len(order) : Step(f[n - 1], order[n], f[n])
    /\ \A n \in 0..Len(order) : f[n].raises \in BOOLEAN /\ DOMAIN f[n].dict \subseteq Ways
    /\ ParseEnvOverrides(order) = f[Len(order)]

Parsed(env, order) == \E f : Steps(f, env, order)

LEMMA ParsesInSteps ==
    ASSUME NEW env, Optional(env), NEW order \in SetToSeqs(env)
    PROVE  Parsed(env, order)
<1> DEFINE N == Len(order)
           Texts == {Coerced(v.text) : v \in env} \cup {Section}
           Dicts1 == UNION {[X -> Texts] : X \in SUBSET Ways}
           V == [raises : BOOLEAN, dict : Dicts1]
           none == [raises |-> FALSE, dict |-> <<>>]
           par == [n \in 1..N |-> n - 1]
           G == [x \in (1..N) \X V |-> ParseVariable(x[2], order[x[1]])]
           Parse(f) == [n \in 0..N |-> IF n = 0 THEN none ELSE ParseVariable(f[n - 1], order[n])]
           parsed == CHOOSE f : f = Parse(f)
<1>1. N \in Nat /\ order \in [1..N -> env]
  BY OrderIsAll DEF Optional
<1>2. ASSUME NEW r \in V, NEW v \in env PROVE ParseVariable(r, v) \in V
  <2>1. PICK X \in SUBSET Ways : r.dict \in [X -> Texts]
    OBVIOUS
  <2>2. v.path \in Ways /\ Above(v.path) \subseteq Ways
    BY AboveIs DEF Optional
  <2> DEFINE s == SetAt(r.dict, v.path, Coerced(v.text))
  <2>3. s \in Dicts1
    <3>0. DOMAIN r.dict = X
      BY <2>1
    <3>1. IsSet(s, r.dict, v.path, Coerced(v.text))
      BY SetIs
    <3> HIDE DEF s
    <3>2. DOMAIN s \in SUBSET Ways
      BY <3>0, <2>2, <3>1 DEF IsSet
    <3>3. \A p \in DOMAIN s : s[p] \in Texts
      <4>1. Coerced(v.text) \in Texts /\ Section \in Texts
        OBVIOUS
      <4>2. \A p \in DOMAIN r.dict : r.dict[p] \in Texts
        BY <2>1, <3>0
      <4> HIDE DEF Texts
      <4> QED
        BY <3>1, <4>1, <4>2 DEF IsSet
    <3>4. s = [p \in DOMAIN s |-> s[p]]
      BY <3>1 DEF IsSet
    <3> QED
      BY <3>2, <3>3, <3>4
  <2> HIDE DEF s, Dicts1
  <2>4. [r EXCEPT !.raises = TRUE] \in V /\ [r EXCEPT !.dict = s] \in V
    BY <2>3
  <2> QED
    BY <2>4 DEF ParseVariable, s
<1>3. none \in V
  <2>1. <<>> \in [{} -> Texts] /\ {} \in SUBSET Ways
    OBVIOUS
  <2>2. <<>> \in Dicts1
    BY <2>1
  <2> QED
    BY <2>2
<1> HIDE DEF V
<1>4. G \in [(1..N) \X V -> V]
  BY <1>1, <1>2
<1>5. par \in [1..N -> Nat] /\ \A n \in 1..N : par[n] < n
  BY <1>1
<1>6. \A n \in 1..N, r \in V : par[n] = n - 1 /\ G[<<n, r>>] = ParseVariable(r, order[n])
  OBVIOUS
<1> HIDE DEF par, G, none
<1>7. PICK h \in [0..N -> V] : h[0] = none /\ \A n \in 1..N : h[n] = G[<<n, h[par[n]]>>]
  <2>1. Recursive(V, none, N, par, G)
    BY <1>1, <1>3, <1>4, <1>5, Recursion
  <2> QED
    BY <2>1 DEF Recursive
<1>8. ASSUME NEW n \in 1..N
      PROVE  n - 1 \in 0..N /\ h[n] = ParseVariable(h[n - 1], order[n])
  <2>1. n - 1 \in 0..N
    BY <1>1
  <2>2. h[n - 1] \in V
    BY <1>7, <2>1
  <2> QED
    BY <1>6, <1>7, <2>1, <2>2
<1>9. \E f : f = Parse(f)
  <2>1. h = [n \in 0..N |-> h[n]]
    BY <1>7
  <2>2. \A n \in 0..N : h[n] = IF n = 0 THEN none ELSE ParseVariable(h[n - 1], order[n])
    BY <1>1, <1>7, <1>8
  <2>3. h = Parse(h)
    BY <2>1, <2>2
  <2> QED
    BY <2>3
<1>10. parsed = Parse(parsed)
  BY <1>9
<1> HIDE DEF parsed
<1>11. \A n \in 0..N :
          parsed[n] = IF n = 0 THEN none ELSE ParseVariable(parsed[n - 1], order[n])
  BY <1>10
<1>12. \A n \in 0..N : parsed[n] \in V
  <2> DEFINE Bad == {n \in 0..N : parsed[n] \notin V}
  <2>1. SUFFICES ASSUME Bad # {} PROVE FALSE
    OBVIOUS
  <2>2. PICK n \in Bad : \A m \in Bad : n <= m
    <3>1. Bad \in SUBSET Nat
      BY <1>1
    <3> HIDE DEF Bad
    <3> QED
      BY <2>1, <3>1, Least
  <2>3. n # 0
    BY <1>3, <1>11, <2>2
  <2>4. n \in 1..N /\ n - 1 \in 0..N /\ ~(n <= n - 1)
    BY <1>1, <2>2, <2>3
  <2>5. parsed[n - 1] \in V
    BY <2>2, <2>4
  <2>6. order[n] \in env
    BY <1>1, <2>4
  <2> QED
    BY <1>2, <1>11, <2>2, <2>3, <2>5, <2>6
<1>13. \A r \in V : r.raises \in BOOLEAN /\ DOMAIN r.dict \subseteq Ways
  <2>1. ASSUME NEW r \in V PROVE r.raises \in BOOLEAN /\ DOMAIN r.dict \subseteq Ways
    <3>1. r.raises \in BOOLEAN /\ r.dict \in Dicts1
      BY DEF V
    <3>2. PICK X \in SUBSET Ways : r.dict \in [X -> Texts]
      BY <3>1
    <3> QED
      BY <3>1, <3>2
  <2> QED
    BY <2>1
<1>14. ParseEnvOverrides(order) = parsed[N]
  BY DEF ParseEnvOverrides, parsed, none
<1>15. ASSUME NEW r \in V, NEW v \in env PROVE Step(r, v, ParseVariable(r, v))
  <2> DEFINE s == SetAt(r.dict, v.path, Coerced(v.text))
  <2>1. IsSet(s, r.dict, v.path, Coerced(v.text))
    BY SetIs
  <2>2. r = [raises |-> r.raises, dict |-> r.dict] /\ r.raises \in BOOLEAN
    BY DEF V
  <2> HIDE DEF s
  <2>3. [r EXCEPT !.raises = TRUE].raises = TRUE
        /\ [r EXCEPT !.dict = s].raises = r.raises /\ [r EXCEPT !.dict = s].dict = s
    BY <2>2
  <2> QED
    BY <2>1, <2>2, <2>3 DEF Step, ParseVariable, s
<1>16. ASSUME NEW n \in 1..N PROVE Step(parsed[n - 1], order[n], parsed[n])
  <2>1. n - 1 \in 0..N /\ n \in 0..N /\ n # 0 /\ order[n] \in env
    BY <1>1
  <2>2. parsed[n - 1] \in V /\ parsed[n] = ParseVariable(parsed[n - 1], order[n])
    BY <1>11, <1>12, <2>1
  <2> QED
    BY <1>15, <2>1, <2>2
<1>17. Steps(parsed, env, order)
  <2>1. 0 \in 0..N
    BY <1>1
  <2> QED
    BY <1>11, <1>12, <1>13, <1>14, <1>16, <2>1 DEF Steps, none
<1> QED
  BY <1>17 DEF Parsed

-----------------------------------------------------------------------------
(***************************************************************************)
(* A variable that sets reject.fields itself: whatever else is set, and in *)
(* whatever order, the process does not start.                             *)
(***************************************************************************)
LEMMA FieldsRefuse ==
    ASSUME NEW env, Optional(env), NEW order \in SetToSeqs(env), NEW yaml,
           NEW v \in env, v.path = Fields
    PROVE  LoadConfig(yaml, order) = [refused |-> TRUE]
<1> DEFINE N == Len(order)
<1>1. /\ N \in Nat /\ order \in [1..N -> env]
      /\ \A k, l \in 1..N : k # l => order[k] # order[l]
  BY OrderIsAll DEF Optional
<1>2. PICK m \in 1..N : order[m] = v
  BY OrderIsAll DEF Optional
<1>3. PICK f : Steps(f, env, order)
  BY ParsesInSteps DEF Parsed
<1> DEFINE Lost(n) == f[n].raises \/ Fields \in Values(f[n].dict)
           Bad     == {n \in m..N : ~Lost(n)}
<1>4. Lost(m)
  <2>1. m - 1 \in 0..N /\ Step(f[m - 1], v, f[m])
    BY <1>1, <1>2, <1>3 DEF Steps
  <2>2. Len(v.path) # 1
    BY AboveFields
  <2>3. ASSUME IsSet(f[m].dict, f[m - 1].dict, v.path, Coerced(v.text))
        PROVE  Fields \in Values(f[m].dict)
    <3>1. Coerced(v.text) # Section
      BY DEF Optional
    <3> QED
      BY <2>3, <3>1 DEF IsSet, Values
  <2> QED
    BY <2>1, <2>2, <2>3 DEF Step
<1>5. ASSUME NEW n \in 1..N, m < n, Lost(n - 1) PROVE Lost(n)
  <2> DEFINE d == f[n - 1].dict
             w == order[n]
  <2>1. Step(f[n - 1], w, f[n])
    BY <1>3 DEF Steps
  <2>2. w \in env /\ w.path \in Ways /\ w.path # Fields
    <3>1. w \in env /\ w # v
      BY <1>1, <1>2, <1>5
    <3> QED
      BY <3>1 DEF Optional
  <2>3. ASSUME Fields \in Values(d), ~Blocked(d, w.path), Len(w.path) # 1,
               IsSet(f[n].dict, d, w.path, Coerced(w.text))
        PROVE  Fields \in Values(f[n].dict)
    <3>1. Fields \in DOMAIN d /\ d[Fields] # Section
      BY <2>3 DEF Values
    <3>2. Fields \notin Above(w.path)
      BY <2>3 DEF Blocked
    <3>3. w.path \notin Above(Fields)
      BY <2>3, AboveFields
    <3>4. Fields \in DOMAIN f[n].dict /\ f[n].dict[Fields] = d[Fields]
      BY <2>2, <2>3, <3>1, <3>2, <3>3 DEF IsSet
    <3> QED
      BY <3>1, <3>4 DEF Values
  <2> HIDE DEF w
  <2> QED
    BY <1>5, <2>1, <2>3 DEF Step
<1> HIDE DEF Lost
<1>6. Bad = {}
  <2>1. SUFFICES ASSUME Bad # {} PROVE FALSE
    OBVIOUS
  <2>2. PICK n \in Bad : \A k \in Bad : n <= k
    <3>1. Bad \in SUBSET Nat
      BY <1>1
    <3> HIDE DEF Bad
    <3> QED
      BY <2>1, <3>1, Least
  <2>3. n \in 1..N /\ m < n /\ n - 1 \in m..N /\ ~(n <= n - 1)
    BY <1>1, <1>4, <2>2
  <2> QED
    BY <1>5, <2>2, <2>3
<1>7. Lost(N)
  <2>1. N \in m..N
    BY <1>1
  <2> QED
    BY <1>6, <2>1
<1> DEFINE d == ParseEnvOverrides(order).dict
<1>8. ParseEnvOverrides(order).raises \/ Fields \in Values(d)
  BY <1>3, <1>7 DEF Steps, Lost
<1>9. CASE Fields \in Values(d)
  <2>1. IsMerge(Merged(yaml, order), yaml, d)
    BY MergedIs DEF Merged
  <2>2. Fields \in Values(Merged(yaml, order))
    BY <1>9, <2>1 DEF IsMerge, Values
  <2> QED
    BY <2>2 DEF LoadConfig, Construct
<1> QED
  BY <1>8, <1>9 DEF LoadConfig

-----------------------------------------------------------------------------
(***************************************************************************)
(* Without such a variable, what is parsed spells the variables, whatever  *)
(* their order.                                                            *)
(***************************************************************************)
Options(env) == {v \in env : Len(v.path) # 1}

Spells(d, W) ==
    /\ d = [p \in DOMAIN d |-> d[p]]
    /\ \A p : p \in DOMAIN d <=> \E v \in W : p = v.path \/ p \in Above(v.path)
    /\ \A v \in W : d[v.path] = Coerced(v.text)
    /\ \A p \in DOMAIN d : (\A v \in W : v.path # p) => d[p] = Section

LEMMA OneSpelling ==
    ASSUME NEW W, NEW d, NEW e, Spells(d, W), Spells(e, W)
    PROVE  d = e
<1>1. DOMAIN d = DOMAIN e
  <2>1. \A p : p \in DOMAIN d <=> p \in DOMAIN e
    BY DEF Spells
  <2> QED
    BY <2>1
<1>2. ASSUME NEW p \in DOMAIN d PROVE d[p] = e[p]
  <2>1. CASE \E v \in W : v.path = p
    BY <2>1 DEF Spells
  <2>2. CASE \A v \in W : v.path # p
    BY <1>1, <2>2 DEF Spells
  <2> QED
    BY <2>1, <2>2
<1>3. d = [p \in DOMAIN d |-> d[p]] /\ e = [p \in DOMAIN e |-> e[p]]
  BY DEF Spells
<1> QED
  BY <1>1, <1>2, <1>3

\* One variable more.
LEMMA SpellsMore ==
    ASSUME NEW env, Optional(env), \A v \in env : v.path # Fields,
           NEW W \in SUBSET Options(env), NEW w \in Options(env), w \notin W,
           NEW d, Spells(d, W)
    PROVE  /\ ~Blocked(d, w.path)
           /\ \A e : IsSet(e, d, w.path, Coerced(w.text)) => Spells(e, W \cup {w})
<1>1. /\ w.path \in Ways /\ w.path \notin Above(w.path)
      /\ Above(w.path) \subseteq Ways
  BY AboveMeans, AboveIs DEF Optional, Options, Ways
<1>2. ASSUME NEW v \in W
      PROVE  /\ v.path \in Ways /\ v.path # w.path
             /\ v.path \notin Above(w.path) /\ w.path \notin Above(v.path)
  BY DEF Optional, Options
<1>3. ~Blocked(d, w.path)
  BY <1>2 DEF Blocked, Values, Spells
<1>4. ASSUME NEW p \in DOMAIN d PROVE w.path \notin Above(p)
  <2>1. PICK v \in W : p = v.path \/ p \in Above(v.path)
    BY DEF Spells
  <2>2. CASE p = v.path
    BY <1>2, <2>2
  <2>3. CASE p \in Above(v.path)
    <3>1. Above(p) \subseteq Above(v.path)
      BY <1>2, <2>3, AboveOrder
    <3> QED
      BY <1>2, <3>1
  <2> QED
    BY <2>1, <2>2, <2>3
<1>5. ASSUME NEW e, IsSet(e, d, w.path, Coerced(w.text)) PROVE Spells(e, W \cup {w})
  <2>1. \A p : p \in DOMAIN e <=> p \in DOMAIN d \/ p \in Above(w.path) \/ p = w.path
    BY <1>4, <1>5 DEF IsSet
  <2>2. \A p : p \in DOMAIN e <=> \E v \in W \cup {w} : p = v.path \/ p \in Above(v.path)
    <3>1. \A p : p \in DOMAIN d <=> \E v \in W : p = v.path \/ p \in Above(v.path)
      BY DEF Spells
    <3> QED
      BY <2>1, <3>1
  <2>3. ASSUME NEW v \in W PROVE e[v.path] = Coerced(v.text)
    <3>1. v.path \in DOMAIN d /\ d[v.path] = Coerced(v.text)
      BY DEF Spells
    <3> QED
      BY <1>2, <1>4, <1>5, <3>1 DEF IsSet
  <2>4. e[w.path] = Coerced(w.text)
    BY <1>5 DEF IsSet
  <2>5. ASSUME NEW p \in DOMAIN e, \A v \in W \cup {w} : v.path # p PROVE e[p] = Section
    <3>1. p # w.path /\ \A v \in W : v.path # p
      BY <2>5
    <3>2. CASE p \in Above(w.path)
      BY <1>5, <3>1, <3>2 DEF IsSet
    <3>3. CASE p \notin Above(w.path)
      <4>1. p \in DOMAIN d /\ d[p] = Section
        BY <2>1, <3>1, <3>3 DEF Spells
      <4> QED
        BY <1>4, <1>5, <3>1, <3>3, <4>1 DEF IsSet
    <3> QED
      BY <3>2, <3>3
  <2>6. e = [p \in DOMAIN e |-> e[p]]
    BY <1>5 DEF IsSet
  <2> QED
    BY <2>2, <2>3, <2>4, <2>5, <2>6 DEF Spells
<1> QED
  BY <1>3, <1>5

LEMMA ParsedSpells ==
    ASSUME NEW env, Optional(env), \A v \in env : v.path # Fields,
           NEW order \in SetToSeqs(env)
    PROVE  /\ ~ParseEnvOverrides(order).raises
           /\ Spells(ParseEnvOverrides(order).dict, Options(env))
<1> DEFINE N    == Len(order)
           W(n) == {v \in Options(env) : \E k \in 1..n : order[k] = v}
<1>1. /\ N \in Nat /\ order \in [1..N -> env]
      /\ \A v \in env : \E k \in 1..N : order[k] = v
      /\ \A k, l \in 1..N : k # l => order[k] # order[l]
  BY OrderIsAll DEF Optional
<1>2. PICK f : Steps(f, env, order)
  BY ParsesInSteps DEF Parsed
<1> DEFINE Good(n) == ~f[n].raises /\ Spells(f[n].dict, W(n))
           Bad     == {n \in 0..N : ~Good(n)}
<1>3. Good(0)
  <2>1. W(0) = {}
    OBVIOUS
  <2>2. f[0].raises = FALSE /\ f[0].dict = <<>>
    BY <1>2 DEF Steps
  <2>3. Spells(<<>>, {})
    BY DEF Spells
  <2> QED
    BY <2>1, <2>2, <2>3
<1>4. ASSUME NEW n \in 1..N, Good(n - 1) PROVE Good(n)
  <2> DEFINE w == order[n]
  <2>1. Step(f[n - 1], w, f[n])
    BY <1>2 DEF Steps
  <2>2. w \in env
    BY <1>1
  <2>3. \A k : k \in 1..n <=> k \in 1..n - 1 \/ k = n
    BY <1>1
  <2>4. CASE Len(w.path) = 1
    <3>1. W(n) = W(n - 1)
      BY <2>3, <2>4 DEF Options
    <3>2. f[n] = f[n - 1]
      BY <2>1, <2>4 DEF Step
    <3> HIDE DEF W
    <3> QED
      BY <1>4, <3>1, <3>2
  <2>5. CASE Len(w.path) # 1
    <3>1. w \in Options(env)
      BY <2>2, <2>5 DEF Options
    <3>2. W(n) = W(n - 1) \cup {w}
      BY <2>3, <3>1
    <3>3. w \notin W(n - 1)
      <4>1. \A k \in 1..n - 1 : k \in 1..N /\ k # n
        BY <1>1
      <4> QED
        BY <1>1, <4>1
    <3>4. W(n - 1) \in SUBSET Options(env)
      OBVIOUS
    <3> HIDE DEF W, w
    <3>5. /\ ~Blocked(f[n - 1].dict, w.path)
          /\ \A e : IsSet(e, f[n - 1].dict, w.path, Coerced(w.text))
                   => Spells(e, W(n - 1) \cup {w})
      BY <1>4, <3>1, <3>3, <3>4, SpellsMore
    <3> QED
      BY <1>4, <2>1, <2>5, <3>2, <3>5 DEF Step
  <2> QED
    BY <2>4, <2>5
<1> HIDE DEF Good
<1>5. Bad = {}
  <2>1. SUFFICES ASSUME Bad # {} PROVE FALSE
    OBVIOUS
  <2>2. PICK n \in Bad : \A k \in Bad : n <= k
    <3>1. Bad \in SUBSET Nat
      BY <1>1
    <3> HIDE DEF Bad
    <3> QED
      BY <2>1, <3>1, Least
  <2>3. n \in 1..N /\ n - 1 \in 0..N /\ ~(n <= n - 1)
    BY <1>1, <1>3, <2>2
  <2> QED
    BY <1>4, <2>2, <2>3
<1>6. Good(N)
  <2>1. N \in 0..N
    BY <1>1
  <2> QED
    BY <1>5, <2>1
<1>7. W(N) = Options(env)
  BY <1>1 DEF Options
<1> HIDE DEF W
<1> QED
  BY <1>2, <1>6, <1>7 DEF Steps, Good

\* The order in which the environment is read decides nothing.
LEMMA AnyOrder ==
    ASSUME NEW env, Optional(env), NEW yaml,
           NEW order \in SetToSeqs(env), NEW other \in SetToSeqs(env)
    PROVE  LoadConfig(yaml, order) = LoadConfig(yaml, other)
<1>1. CASE \E v \in env : v.path = Fields
  BY <1>1, FieldsRefuse
<1>2. CASE \A v \in env : v.path # Fields
  <2>1. ~ParseEnvOverrides(order).raises /\ ~ParseEnvOverrides(other).raises
    BY <1>2, ParsedSpells
  <2>2. Spells(ParseEnvOverrides(order).dict, Options(env))
        /\ Spells(ParseEnvOverrides(other).dict, Options(env))
    BY <1>2, ParsedSpells
  <2>3. ParseEnvOverrides(order).dict = ParseEnvOverrides(other).dict
    BY <2>2, OneSpelling
  <2> QED
    BY <2>1, <2>3 DEF LoadConfig, Merged
<1> QED
  BY <1>1, <1>2

-----------------------------------------------------------------------------
(***************************************************************************)
(* What the process runs with.                                             *)
(***************************************************************************)
Loaded ==
    /\ scene \in Scenes /\ environ \in SetToSeqs(scene.env)
    /\ stage # "boot" => config = LoadConfig(scene.yaml, environ)
    /\ stage \notin {"boot", "refused"} => ~config.refused

LEMMA SceneIs ==
    ASSUME NEW s \in Scenes
    PROVE  /\ Optional(s.env)
           /\ DOMAIN s.yaml \subseteq Ways
           /\ \A order \in SetToSeqs(s.env) : Load(s.yaml, order) = LoadConfig(s.yaml, order)
<1>1. IsFiniteSet(s.env)
  BY ConfigurationAssumption
<1>2. \A v \in s.env : v.path \in Ways /\ Coerced(v.text) # Section
  BY ConfigurationAssumption, PathsAreWays
<1>3. \A v, w \in s.env : v.path = w.path => v = w
  BY SceneAssumption
<1>4. \A v, w \in s.env : v.path \in Above(w.path) => v.path = Fields \/ Len(v.path) = 1
  BY ConfigurationAssumption
<1>5. DOMAIN s.yaml \subseteq Ways
  BY ConfigurationAssumption, PathsAreWays DEF Nested
<1>6. \A order \in SetToSeqs(s.env) : Load(s.yaml, order) = LoadConfig(s.yaml, order)
  BY ConfigurationAssumption
<1> QED
  BY <1>1, <1>2, <1>3, <1>4, <1>5, <1>6 DEF Optional

LEMMA LoadedInvariant == Spec => []Loaded
<1>1. Init => Loaded
  BY DEF Init, Loaded
<1>2. Loaded /\ [Next]_vars => Loaded'
  <2>1. SUFFICES ASSUME Loaded, [Next]_vars PROVE Loaded'
    OBVIOUS
  <2>2. CASE Start
    <3>1. config' = LoadConfig(scene.yaml, environ)
      BY <2>1, <2>2, SceneIs DEF Loaded, Start
    <3> QED
      BY <2>1, <2>2, <3>1 DEF Loaded, Start
  <2>3. CASE Receive
    BY <2>1, <2>3 DEF Loaded, Receive
  <2>4. CASE Resolve
    BY <2>1, <2>4 DEF Loaded, Resolve
  <2>5. CASE Call
    BY <2>1, <2>5 DEF Loaded, Call
  <2>6. CASE UNCHANGED vars
    BY <2>1, <2>6 DEF Loaded, vars
  <2> QED
    BY <2>1, <2>2, <2>3, <2>4, <2>5, <2>6 DEF Next
<1> QED
  BY <1>1, <1>2, PTL DEF Spec

-----------------------------------------------------------------------------
(***************************************************************************)
(* The configuration, and whether the process starts at all, are the same  *)
(* for every order in which os.environ may give its variables              *)
(* (_parse_env_overrides, load_config).                                    *)
(***************************************************************************)
THEOREM OrderInvariant == Spec => []OrderIsIrrelevant
<1>1. Loaded => OrderIsIrrelevant
  BY AnyOrder, SceneIs DEF Loaded, OrderIsIrrelevant
<1> QED
  BY <1>1, LoadedInvariant, PTL

\* What is merged over a file, where the variables are spelled.
LEMMA OverYaml ==
    ASSUME NEW env, Optional(env), NEW yaml, DOMAIN yaml \subseteq Ways,
           NEW d, Spells(d, Options(env)), NEW merged, IsMerge(merged, yaml, d)
    PROVE  LET set  == {v.path : v \in Options(env)}
               kept == {p \in Values(yaml) : \A q \in set : ~IsPrefix(p, q) /\ ~IsPrefix(q, p)}
           IN  /\ Values(merged) = set \cup kept
               /\ \A v \in Options(env) : merged[v.path] = Coerced(v.text)
               /\ \A p \in kept : merged[p] = yaml[p]
<1> DEFINE set  == {v.path : v \in Options(env)}
           kept == {p \in Values(yaml) : \A q \in set : ~IsPrefix(p, q) /\ ~IsPrefix(q, p)}
<1>1. set \subseteq Ways /\ \A v \in Options(env) : Coerced(v.text) # Section
  BY DEF Optional, Options
<1>2. /\ \A p : p \in DOMAIN d <=> \E q \in set : p = q \/ p \in Above(q)
      /\ Values(d) = set
  <2>1. \A p : p \in DOMAIN d <=> \E q \in set : p = q \/ p \in Above(q)
    BY DEF Spells
  <2>2. set \subseteq Values(d)
    BY <1>1 DEF Spells, Values
  <2>3. Values(d) \subseteq set
    BY DEF Spells, Values
  <2> QED
    BY <2>1, <2>2, <2>3
<1>3. \A v \in Options(env) : merged[v.path] = Coerced(v.text) /\ v.path \in DOMAIN merged
  BY DEF IsMerge, Spells
<1> HIDE DEF set
<1>4. ASSUME NEW p \in kept PROVE p \in DOMAIN merged /\ merged[p] = yaml[p]
  <2>1. p \in DOMAIN yaml /\ p \in Ways
    BY DEF Values
  <2>2. \A q \in set : p # q /\ p \notin Above(q) /\ q \notin Above(p)
    BY <1>1, <2>1, PrefixIs
  <2>3. p \notin DOMAIN d /\ p \notin Replaced(yaml, d)
    BY <1>2, <2>2 DEF Replaced
  <2> QED
    BY <2>1, <2>3 DEF IsMerge
<1>5. ASSUME NEW p \in Values(merged), p \notin set PROVE p \in kept
  <2>1. p \in DOMAIN merged /\ merged[p] # Section
    BY DEF Values
  <2>2. p \notin DOMAIN d
    <3>1. p \in DOMAIN d => merged[p] = d[p] /\ p \notin Values(d)
      BY <1>2, <1>5 DEF IsMerge
    <3> QED
      BY <2>1, <3>1 DEF Values
  <2>3. p \in DOMAIN yaml \ Replaced(yaml, d) /\ merged[p] = yaml[p]
    BY <2>1, <2>2 DEF IsMerge
  <2>4. p \in Values(yaml) /\ p \in Ways
    BY <2>1, <2>3 DEF Values
  <2>5. \A q \in set : p # q /\ p \notin Above(q) /\ q \notin Above(p)
    BY <1>2, <1>5, <2>2, <2>3 DEF Replaced
  <2> QED
    BY <1>1, <2>4, <2>5, PrefixIs
<1>6. set \subseteq Values(merged)
  BY <1>1, <1>3 DEF Values, set
<1>7. kept \subseteq Values(merged)
  BY <1>4 DEF Values
<1>8. Values(merged) = set \cup kept
  BY <1>5, <1>6, <1>7
<1> QED
  BY <1>3, <1>4, <1>8 DEF set

(***************************************************************************)
(* "Env vars take precedence over YAML values" (load_config), for every    *)
(* file and every environment of options: whenever the process runs, what  *)
(* was merged is what the environment sets and what of the file it leaves. *)
(***************************************************************************)
THEOREM PrecedenceInvariant == Spec => []EnvironmentOverYaml
<1>1. ASSUME Loaded, stage \notin {"boot", "refused"}
      PROVE  /\ Spells(ParseEnvOverrides(environ).dict, Options(scene.env))
             /\ Optional(scene.env) /\ DOMAIN scene.yaml \subseteq Ways
  <2>1. ~LoadConfig(scene.yaml, environ).refused
    BY <1>1 DEF Loaded
  <2>2. /\ Optional(scene.env) /\ DOMAIN scene.yaml \subseteq Ways
        /\ environ \in SetToSeqs(scene.env)
    BY <1>1, SceneIs DEF Loaded
  <2>3. \A v \in scene.env : v.path # Fields
    <3>1. SUFFICES ASSUME NEW v \in scene.env, v.path = Fields PROVE FALSE
      OBVIOUS
    <3>2. LoadConfig(scene.yaml, environ) = [refused |-> TRUE]
      BY <2>2, <3>1, FieldsRefuse
    <3> QED
      BY <2>1, <3>2
  <2> QED
    BY <2>2, <2>3, ParsedSpells
<1>2. ASSUME Loaded, stage \notin {"boot", "refused"}
      PROVE  LET merged == Merged(scene.yaml, environ)
                 set    == {var.path : var \in {v \in scene.env : Len(v.path) > 1}}
                 kept   == {p \in Values(scene.yaml) :
                              \A q \in set : ~IsPrefix(p, q) /\ ~IsPrefix(q, p)}
             IN  /\ Values(merged) = set \cup kept
                 /\ \A var \in scene.env : Len(var.path) > 1 =>
                       merged[var.path] = Coerced(var.text)
                 /\ \A p \in kept : merged[p] = scene.yaml[p]
  <2>1. PICK options : options = Options(scene.env)
    OBVIOUS
  <2>2. options = {v \in scene.env : Len(v.path) > 1}
    <3>1. \A v \in scene.env : Len(v.path) \in Nat /\ Len(v.path) # 0
      BY <1>1, <1>2 DEF Optional, Ways
    <3>2. ASSUME NEW v \in scene.env PROVE Len(v.path) # 1 <=> Len(v.path) > 1
      <4>1. \A n \in Nat : n # 0 => (n # 1 <=> n > 1)
        OBVIOUS
      <4> QED
        BY <3>1, <4>1
    <3> QED
      BY <2>1, <3>2 DEF Options
  <2>3. \A v \in scene.env : Len(v.path) > 1 <=> v \in options
    BY <2>2
  <2>4. IsMerge(Merged(scene.yaml, environ), scene.yaml, ParseEnvOverrides(environ).dict)
    BY MergedIs DEF Merged
  <2>5. LET merged == Merged(scene.yaml, environ)
            set    == {v.path : v \in options}
            kept   == {p \in Values(scene.yaml) :
                         \A q \in set : ~IsPrefix(p, q) /\ ~IsPrefix(q, p)}
        IN  /\ Values(merged) = set \cup kept
            /\ \A v \in options : merged[v.path] = Coerced(v.text)
            /\ \A p \in kept : merged[p] = scene.yaml[p]
    BY <1>1, <1>2, <2>1, <2>4, OverYaml
  <2> QED
    BY <2>2, <2>3, <2>5
<1>3. Loaded => EnvironmentOverYaml
  BY <1>2 DEF EnvironmentOverYaml
<1> QED
  BY <1>3, LoadedInvariant, PTL

-----------------------------------------------------------------------------
(***************************************************************************)
(* DeepMerge says path by path what _deep_merge does key by key.  The dict *)
(* a nested dict has under a key is given by what its paths have below it. *)
(***************************************************************************)
Below(d, key) ==
    [p \in {q \in Paths : <<key>> \o q \in DOMAIN d} |-> d[<<key>> \o p]]

\* key in d and isinstance(d[key], dict)
IsDict(d, key) == <<key>> \in DOMAIN d /\ d[<<key>>] = Section

\* d and e have the same under a key.
SameUnder(d, e, key) ==
    /\ <<key>> \in DOMAIN d <=> <<key>> \in DOMAIN e
    /\ <<key>> \in DOMAIN d => d[<<key>>] = e[<<key>>]
    /\ Below(d, key) = Below(e, key)

\* A sequence with one name put before it.
LEMMA Before ==
    ASSUME NEW S, NEW key \in S, NEW p \in Seq(S)
    PROVE  /\ <<key>> \o p \in Seq(S) /\ Len(<<key>> \o p) = Len(p) + 1
           /\ (<<key>> \o p)[1] = key
           /\ \A k \in 1..Len(p) : (<<key>> \o p)[k + 1] = p[k]
<1> DEFINE t == <<key>>
<1>0. t \in Seq(S)
  OBVIOUS
<1>1. Len(t) = 1 /\ t[1] = key
  OBVIOUS
<1>2. Len(p) \in Nat
  OBVIOUS
<1> HIDE DEF t
<1>3. /\ t \o p \in Seq(S)
      /\ Len(t \o p) = Len(t) + Len(p)
      /\ \A k \in 1..Len(t) : (t \o p)[k] = t[k]
      /\ \A k \in 1..Len(p) : (t \o p)[Len(t) + k] = p[k]
  BY <1>0, Joined
<1>4. 1 \in 1..Len(t) /\ Len(t) + Len(p) = Len(p) + 1
  BY <1>1, <1>2
<1>5. \A k \in 1..Len(p) : Len(t) + k = k + 1
  BY <1>1, <1>2
<1>6. t \o p \in Seq(S) /\ Len(t \o p) = Len(p) + 1 /\ (t \o p)[1] = key
  BY <1>1, <1>3, <1>4
<1>7. \A k \in 1..Len(p) : (t \o p)[k + 1] = p[k]
  BY <1>3, <1>5
<1> QED
  BY <1>6, <1>7 DEF t

\* A sequence of one name.
LEMMA Single ==
    ASSUME NEW S, NEW x \in Seq(S), Len(x) = 1
    PROVE  x = <<x[1]>>
<1> DEFINE c == x[1]
<1>1. c \in S
  OBVIOUS
<1> HIDE DEF c
<1>2. <<c>> \in Seq(S) /\ Len(<<c>>) = 1 /\ <<c>>[1] = c
  BY <1>1
<1>3. x[1] = c
  BY DEF c
<1>4. \A k \in 1..1 : x[k] = <<c>>[k]
  BY <1>2, <1>3
<1> QED
  BY <1>2, <1>3, <1>4

\* P: the paths of a set of names.
UnderKey(P, key, p) ==
    /\ <<key>> \o p \in P /\ <<key>> \in P
    /\ Above(p) \subseteq P
    /\ Above(<<key>> \o p) = {<<key>>} \cup {<<key>> \o q : q \in Above(p)}

LEMMA AboveBelow ==
    ASSUME NEW S, NEW key \in S, NEW p \in Seq(S) \ {<<>>}
    PROVE  UnderKey(Seq(S) \ {<<>>}, key, p)
<1> DEFINE x == <<key>> \o p
           P == Seq(S) \ {<<>>}
<1>1. p \in Seq(S) /\ Len(p) \in Nat /\ Len(p) # 0
  OBVIOUS
<1>2. x \in Seq(S) /\ Len(x) = Len(p) + 1 /\ x[1] = key
      /\ \A k \in 1..Len(p) : x[k + 1] = p[k]
  BY <1>1, Before
<1>3. ASSUME NEW n \in 1..Len(p) - 1
      PROVE  /\ SubSeq(p, 1, n) \in P
             /\ SubSeq(x, 1, n + 1) = <<key>> \o SubSeq(p, 1, n)
  <2>1. n \in Nat /\ n # 0 /\ n + 1 \in 1..Len(x) /\ \A k \in 1..n : k \in 1..Len(p)
    BY <1>1, <1>2
  <2>2. SubSeq(p, 1, n) \in Seq(S) /\ Len(SubSeq(p, 1, n)) = n
        /\ \A k \in 1..n : SubSeq(p, 1, n)[k] = p[k]
    BY <1>1, <2>1
  <2> HIDE DEF x
  <2> DEFINE a == SubSeq(x, 1, n + 1)
             b == <<key>> \o SubSeq(p, 1, n)
  <2>3. a \in Seq(S) /\ Len(a) = n + 1 /\ \A k \in 1..n + 1 : a[k] = x[k]
    BY <1>2, <2>1
  <2>4. b \in Seq(S) /\ Len(b) = n + 1 /\ b[1] = key
        /\ \A k \in 1..n : b[k + 1] = SubSeq(p, 1, n)[k]
    <3> DEFINE t == SubSeq(p, 1, n)
    <3>1. t \in Seq(S) /\ Len(t) = n
      BY <2>2
    <3> HIDE DEF t
    <3>2. /\ <<key>> \o t \in Seq(S) /\ Len(<<key>> \o t) = Len(t) + 1
          /\ (<<key>> \o t)[1] = key
          /\ \A k \in 1..Len(t) : (<<key>> \o t)[k + 1] = t[k]
      BY <3>1, Before
    <3> QED
      BY <3>1, <3>2 DEF t
  <2> HIDE DEF a, b
  <2>5. ASSUME NEW k \in 1..n + 1 PROVE a[k] = b[k]
    <3>1. CASE k = 1
      BY <1>2, <2>3, <2>4, <3>1
    <3>2. CASE k # 1
      <4>1. k - 1 \in 1..n /\ k = (k - 1) + 1
        BY <2>1, <3>2
      <4>2. a[k] = p[k - 1] /\ b[k] = p[k - 1]
        BY <1>2, <2>1, <2>2, <2>3, <2>4, <4>1
      <4> QED
        BY <4>2
    <3> QED
      BY <3>1, <3>2
  <2>6. a = b
    BY <2>1, <2>3, <2>4, <2>5
  <2>7. SubSeq(p, 1, n) # <<>>
    BY <2>1, <2>2
  <2> QED
    BY <2>2, <2>6, <2>7 DEF a, b
<1> HIDE DEF x
<1>4. SubSeq(x, 1, 1) = <<key>>
  <2>1. 1 \in 1..Len(x)
    BY <1>1, <1>2
  <2> DEFINE z == SubSeq(x, 1, 1)
  <2>2. z \in Seq(S) /\ Len(z) = 1 /\ z[1] = x[1]
    BY <1>2, <2>1
  <2> HIDE DEF z
  <2>3. z = <<z[1]>>
    BY <2>2, Single
  <2> QED
    BY <1>2, <2>2, <2>3 DEF z
<1>5. x \in P /\ <<key>> \in P
  <2>1. x # <<>> /\ <<key>> # <<>>
    BY <1>1, <1>2
  <2>2. <<key>> \in Seq(S)
    OBVIOUS
  <2> QED
    BY <1>2, <2>1, <2>2
<1>6. Above(p) \subseteq P
  BY <1>3 DEF Above
<1>7. Above(x) \subseteq {<<key>>} \cup {<<key>> \o q : q \in Above(p)}
  <2>1. SUFFICES ASSUME NEW n \in 1..Len(x) - 1
                 PROVE  SubSeq(x, 1, n) \in {<<key>>} \cup {<<key>> \o q : q \in Above(p)}
    BY DEF Above
  <2>2. CASE n = 1
    BY <1>4, <2>2
  <2>3. CASE n # 1
    <3>1. n - 1 \in 1..Len(p) - 1 /\ (n - 1) + 1 = n
      BY <1>1, <1>2, <2>3
    <3>2. SubSeq(x, 1, n) = <<key>> \o SubSeq(p, 1, n - 1)
      BY <1>3, <3>1
    <3>3. SubSeq(p, 1, n - 1) \in Above(p)
      BY <3>1 DEF Above
    <3> QED
      BY <3>2, <3>3
  <2> QED
    BY <2>2, <2>3
<1>8. <<key>> \in Above(x)
  <2>1. 1 \in 1..Len(x) - 1
    BY <1>1, <1>2
  <2> QED
    BY <1>4, <2>1 DEF Above
<1>9. ASSUME NEW q \in Above(p) PROVE <<key>> \o q \in Above(x)
  <2>1. PICK n \in 1..Len(p) - 1 : q = SubSeq(p, 1, n)
    BY DEF Above
  <2>2. n + 1 \in 1..Len(x) - 1
    BY <1>1, <1>2
  <2>3. <<key>> \o q = SubSeq(x, 1, n + 1)
    BY <1>3, <2>1
  <2> QED
    BY <2>2, <2>3 DEF Above
<1>10. {<<key>> \o q : q \in Above(p)} \subseteq Above(x)
  BY <1>9
<1> QED
  BY <1>5, <1>6, <1>7, <1>8, <1>10 DEF x, UnderKey

LEMMA PathsBelow ==
    ASSUME NEW key \in STRING, NEW p \in Paths
    PROVE  UnderKey(Paths, key, p)
BY AboveBelow, Zenon DEF Paths

\* What replaces what below a key.
LEMMA ReplacedBelow ==
    ASSUME NEW base, NEW override, Nested(override), NEW key \in STRING, NEW p \in Paths,
           <<key>> \o p \in DOMAIN base
    PROVE  <<key>> \o p \in Replaced(base, override) <=>
              \/ <<key>> \in Values(override)
              \/ p \in Replaced(Below(base, key), Below(override, key))
<1> DEFINE b == Below(base, key)
           o == Below(override, key)
<1>1. p \in DOMAIN b
  BY DEF Below
<1>2. Above(<<key>> \o p) = {<<key>>} \cup {<<key>> \o q : q \in Above(p)}
      /\ Above(p) \subseteq Paths
  BY PathsBelow DEF UnderKey
<1>3. \A q \in Paths : q \in Values(o) <=> <<key>> \o q \in Values(override)
  BY DEF Values, Below
<1>4. p \in Replaced(b, o) <=> \E q \in Above(p) : q \in Values(o)
  BY <1>1 DEF Replaced
<1>5. <<key>> \o p \in Replaced(base, override) <=>
         <<key>> \in Values(override) \/ \E q \in Above(p) : <<key>> \o q \in Values(override)
  BY <1>2 DEF Replaced
<1> QED
  BY <1>2, <1>3, <1>4, <1>5

\* A dict has nothing below a key that it does not have, or has with a value.
LEMMA NothingBelow ==
    ASSUME NEW d, Nested(d), NEW key \in STRING, ~IsDict(d, key), NEW p \in Paths
    PROVE  <<key>> \o p \notin DOMAIN d
<1>1. <<key>> \in Above(<<key>> \o p)
  BY PathsBelow DEF UnderKey
<1> QED
  BY <1>1 DEF Nested, IsDict, Values

\* What is below a key, by its paths.
LEMMA BelowIs ==
    ASSUME NEW d, NEW key
    PROVE  /\ Below(d, key) = [p \in DOMAIN Below(d, key) |-> Below(d, key)[p]]
           /\ \A p : p \in DOMAIN Below(d, key) <=> p \in Paths /\ <<key>> \o p \in DOMAIN d
           /\ \A p \in DOMAIN Below(d, key) : Below(d, key)[p] = d[<<key>> \o p]
BY DEF Below

\* Dicts with the same paths and the same values are the same.
LEMMA SameDict ==
    ASSUME NEW d, NEW e, d = [p \in DOMAIN d |-> d[p]], e = [p \in DOMAIN e |-> e[p]],
           \A p : p \in DOMAIN d <=> p \in DOMAIN e,
           \A p \in DOMAIN d : d[p] = e[p]
    PROVE  d = e
<1>1. DOMAIN d = DOMAIN e
  OBVIOUS
<1> QED
  BY <1>1

\* result[key] = _deep_merge(result[key], value), where both have dicts.
LEMMA MergedBelow ==
    ASSUME NEW base, Nested(base), NEW override, Nested(override),
           NEW key \in STRING, IsDict(base, key), IsDict(override, key)
    PROVE  Below(DeepMerge(base, override), key)
           = DeepMerge(Below(base, key), Below(override, key))
<1> DEFINE m == DeepMerge(base, override)
           b == Below(base, key)
           o == Below(override, key)
           x == Below(m, key)
           y == DeepMerge(b, o)
<1>1. IsMerge(m, base, override) /\ IsMerge(y, b, o)
  BY MergedIs
<1>2. <<key>> \notin Values(override)
  BY DEF Values, IsDict
<1> HIDE DEF m, y
<1>3. /\ x = [p \in DOMAIN x |-> x[p]]
      /\ \A p : p \in DOMAIN x <=> p \in Paths /\ <<key>> \o p \in DOMAIN m
      /\ \A p \in DOMAIN x : x[p] = m[<<key>> \o p]
  BY BelowIs
<1>4. /\ \A p : p \in DOMAIN b <=> p \in Paths /\ <<key>> \o p \in DOMAIN base
      /\ \A p \in DOMAIN b : b[p] = base[<<key>> \o p]
  BY BelowIs
<1>5. /\ \A p : p \in DOMAIN o <=> p \in Paths /\ <<key>> \o p \in DOMAIN override
      /\ \A p \in DOMAIN o : o[p] = override[<<key>> \o p]
  BY BelowIs
<1>6. \A p \in Paths : <<key>> \o p \in DOMAIN base =>
         (<<key>> \o p \in Replaced(base, override) <=> p \in Replaced(b, o))
  BY <1>2, ReplacedBelow
<1> HIDE DEF b, o, x
<1>7. y = [p \in DOMAIN y |-> y[p]]
  BY <1>1 DEF IsMerge
<1>8. ASSUME NEW p PROVE p \in DOMAIN x <=> p \in DOMAIN y
  <2>1. p \in DOMAIN y <=> (p \in DOMAIN b /\ p \notin Replaced(b, o)) \/ p \in DOMAIN o
    BY <1>1 DEF IsMerge
  <2>2. <<key>> \o p \in DOMAIN m <=>
           \/ <<key>> \o p \in DOMAIN base /\ <<key>> \o p \notin Replaced(base, override)
           \/ <<key>> \o p \in DOMAIN override
    BY <1>1 DEF IsMerge
  <2> QED
    BY <1>3, <1>4, <1>5, <1>6, <2>1, <2>2
<1>9. ASSUME NEW p \in DOMAIN x PROVE x[p] = y[p]
  <2>1. p \in Paths /\ <<key>> \o p \in DOMAIN m /\ x[p] = m[<<key>> \o p] /\ p \in DOMAIN y
    BY <1>3, <1>8
  <2>2. CASE p \in DOMAIN o
    <3>1. y[p] = o[p] /\ m[<<key>> \o p] = override[<<key>> \o p]
      BY <1>1, <1>5, <2>2 DEF IsMerge
    <3> QED
      BY <1>5, <2>1, <2>2, <3>1
  <2>3. CASE p \notin DOMAIN o
    <3>1. p \in DOMAIN b \ Replaced(b, o) /\ y[p] = b[p]
      BY <1>1, <2>1, <2>3 DEF IsMerge
    <3>2. /\ <<key>> \o p \in DOMAIN base \ Replaced(base, override)
          /\ <<key>> \o p \notin DOMAIN override
      BY <1>4, <1>5, <1>6, <2>1, <2>3, <3>1
    <3>3. m[<<key>> \o p] = base[<<key>> \o p]
      BY <1>1, <3>2 DEF IsMerge
    <3> QED
      BY <1>4, <2>1, <3>1, <3>3
  <2> QED
    BY <2>2, <2>3
<1>10. x = y
  BY <1>3, <1>7, <1>8, <1>9, SameDict
<1> QED
  BY <1>10 DEF x, y, m, b, o

\* What is under a key of one of the two alone, or that is a value in one.
LEMMA KeptUnder ==
    ASSUME NEW base, Nested(base), NEW override, Nested(override), NEW key \in STRING,
           ~(IsDict(base, key) /\ IsDict(override, key))
    PROVE  SameUnder(DeepMerge(base, override),
                     IF <<key>> \in DOMAIN override THEN override ELSE base, key)
<1> DEFINE d == IF <<key>> \in DOMAIN override THEN override ELSE base
           m == DeepMerge(base, override)
           x == Below(m, key)
           y == Below(d, key)
<1>1. IsMerge(m, base, override)
  BY MergedIs
<1>2. ~IsDict(base, key) => \A p \in Paths : <<key>> \o p \notin DOMAIN base
  BY NothingBelow
<1>3. ~IsDict(override, key) => \A p \in Paths : <<key>> \o p \notin DOMAIN override
  BY NothingBelow
<1>4. ASSUME NEW p \in Paths, <<key>> \o p \in DOMAIN base
      PROVE  <<key>> \o p \in Replaced(base, override) <=>
                \/ <<key>> \in Values(override)
                \/ \E q \in Paths : q \in Above(p) /\ <<key>> \o q \in Values(override)
  <2>1. Above(<<key>> \o p) = {<<key>>} \cup {<<key>> \o q : q \in Above(p)}
        /\ Above(p) \subseteq Paths
    BY PathsBelow DEF UnderKey
  <2> QED
    BY <1>4, <2>1 DEF Replaced
<1>5. <<key>> \in DOMAIN base => <<key>> \notin Replaced(base, override)
  <2>1. Above(<<key>>) = {}
    <3>1. Len(<<key>>) = 1 /\ 1..1 - 1 = {}
      OBVIOUS
    <3> QED
      BY <3>1 DEF Above
  <2> QED
    BY <2>1 DEF Replaced
<1> HIDE DEF m
<1>6. <<key>> \in DOMAIN m <=> <<key>> \in DOMAIN base \/ <<key>> \in DOMAIN override
  BY <1>1, <1>5 DEF IsMerge
<1>7. ASSUME NEW p \in Paths
      PROVE  /\ <<key>> \o p \in DOMAIN m <=> <<key>> \o p \in DOMAIN d
             /\ <<key>> \o p \in DOMAIN d => m[<<key>> \o p] = d[<<key>> \o p]
  <2>1. CASE <<key>> \notin DOMAIN override
    <3>1. d = base
      BY <2>1
    <3>2. <<key>> \o p \notin DOMAIN override
      BY <1>3, <2>1 DEF IsDict
    <3>3. \A q \in Paths : <<key>> \o q \notin Values(override)
      BY <1>3, <2>1 DEF IsDict, Values
    <3>4. <<key>> \notin Values(override)
      BY <2>1 DEF Values
    <3>5. <<key>> \o p \in DOMAIN base => <<key>> \o p \notin Replaced(base, override)
      BY <1>4, <3>3, <3>4
    <3> QED
      BY <1>1, <3>1, <3>2, <3>5 DEF IsMerge
  <2>2. CASE <<key>> \in DOMAIN override
    <3>1. d = override /\ ~(IsDict(base, key) /\ IsDict(override, key))
      BY <2>2
    <3>2. <<key>> \o p \in DOMAIN override => m[<<key>> \o p] = override[<<key>> \o p]
      BY <1>1 DEF IsMerge
    <3>3. ASSUME <<key>> \o p \in DOMAIN base
          PROVE  <<key>> \o p \in Replaced(base, override)
      <4>1. ~IsDict(override, key)
        BY <1>2, <3>1, <3>3
      <4>2. <<key>> \in Values(override)
        BY <2>2, <4>1 DEF IsDict, Values
      <4> QED
        BY <1>4, <3>3, <4>2
    <3> QED
      BY <1>1, <3>1, <3>2, <3>3 DEF IsMerge
  <2> QED
    BY <2>1, <2>2
<1>8. /\ x = [p \in DOMAIN x |-> x[p]]
      /\ \A p : p \in DOMAIN x <=> p \in Paths /\ <<key>> \o p \in DOMAIN m
      /\ \A p \in DOMAIN x : x[p] = m[<<key>> \o p]
  BY BelowIs
<1>9. /\ y = [p \in DOMAIN y |-> y[p]]
      /\ \A p : p \in DOMAIN y <=> p \in Paths /\ <<key>> \o p \in DOMAIN d
      /\ \A p \in DOMAIN y : y[p] = d[<<key>> \o p]
  BY BelowIs
<1> HIDE DEF x, y
<1>10. x = y
  <2>1. \A p : p \in DOMAIN x <=> p \in DOMAIN y
    BY <1>7, <1>8, <1>9
  <2>2. \A p \in DOMAIN x : x[p] = y[p]
    BY <1>7, <1>8, <1>9, <2>1
  <2> QED
    BY <1>8, <1>9, <2>1, <2>2, SameDict
<1>11. /\ <<key>> \in DOMAIN m <=> <<key>> \in DOMAIN d
       /\ <<key>> \in DOMAIN m => m[<<key>>] = d[<<key>>]
  BY <1>1, <1>5, <1>6 DEF IsMerge
<1> QED
  BY <1>10, <1>11 DEF SameUnder, x, y, m, d

\* A nested dict merged over another is a nested dict.
LEMMA MergeIsNested ==
    ASSUME NEW base, Nested(base), NEW override, Nested(override)
    PROVE  Nested(DeepMerge(base, override))
<1> DEFINE m == DeepMerge(base, override)
<1>1. IsMerge(m, base, override)
  BY MergedIs
<1> HIDE DEF m
<1>2. SUFFICES ASSUME NEW p \in DOMAIN m, NEW q \in Above(p)
               PROVE  p \in Paths /\ q \in DOMAIN m /\ m[q] = Section
  <2>1. DOMAIN m \subseteq Paths
    BY <1>1 DEF IsMerge, Nested
  <2> QED
    BY <1>2, <2>1 DEF Nested, Values, m
<1>3. p \in Paths
  BY <1>1 DEF IsMerge, Nested
<1>4. CASE p \in DOMAIN override
  <2>1. q \in DOMAIN override /\ override[q] = Section
    BY <1>4 DEF Nested, Values
  <2> QED
    BY <1>1, <1>3, <2>1 DEF IsMerge
<1>5. CASE p \in DOMAIN base \ Replaced(base, override)
  <2>1. q \in DOMAIN base /\ base[q] = Section
    BY <1>5 DEF Nested, Values
  <2>2. q \notin Values(override) /\ Above(p) \cap Values(override) = {}
    BY <1>5 DEF Replaced
  <2>3. Above(q) \subseteq Above(p)
    BY <1>3, AboveOrder, PathsAreWays
  <2>4. q \notin Replaced(base, override)
    BY <2>2, <2>3 DEF Replaced
  <2> QED
    BY <1>1, <1>3, <2>1, <2>2, <2>4 DEF IsMerge, Values
<1> QED
  BY <1>1, <1>4, <1>5 DEF IsMerge

(***************************************************************************)
(* DeepMerge satisfies the recursion of _deep_merge, for every two nested  *)
(* dicts: under a key that both have with dicts is the merge of the two,   *)
(* under any other key of override what override has, and under a key of   *)
(* base alone what base has.                                               *)
(***************************************************************************)
THEOREM MergeIsRecursive ==
    ASSUME NEW base, Nested(base), NEW override, Nested(override)
    PROVE  LET m == DeepMerge(base, override) IN
           /\ Nested(m)
           /\ \A key \in STRING :
                 IF IsDict(base, key) /\ IsDict(override, key)
                 THEN /\ IsDict(m, key)
                      /\ Below(m, key) = DeepMerge(Below(base, key), Below(override, key))
                 ELSE SameUnder(m, IF <<key>> \in DOMAIN override THEN override ELSE base, key)
<1> DEFINE m == DeepMerge(base, override)
           Both(key) == IsDict(base, key) /\ IsDict(override, key)
           Merges(key) == /\ IsDict(m, key)
                          /\ Below(m, key) = DeepMerge(Below(base, key), Below(override, key))
           Keeps(key) ==
              SameUnder(m, IF <<key>> \in DOMAIN override THEN override ELSE base, key)
<1>1. Nested(m)
  BY MergeIsNested
<1>2. ASSUME NEW key \in STRING, IsDict(base, key), IsDict(override, key)
      PROVE  Merges(key)
  <2>1. IsDict(m, key)
    <3>1. IsMerge(m, base, override)
      BY MergedIs
    <3> QED
      BY <1>2, <3>1 DEF IsDict, IsMerge
  <2>2. Below(m, key) = DeepMerge(Below(base, key), Below(override, key))
    BY <1>2, MergedBelow, ZenonT(60)
  <2> QED
    BY <2>1, <2>2
<1>3. ASSUME NEW key \in STRING, ~Both(key)
      PROVE  Keeps(key)
  BY <1>3, KeptUnder
<1>4. ASSUME NEW key \in STRING
      PROVE  IF Both(key) THEN Merges(key) ELSE Keeps(key)
  <2> HIDE DEF Merges, Keeps
  <2> QED
    BY <1>2, <1>3
<1> QED
  BY <1>1, <1>4, Zenon

\* What spells options is nested: none of them stands above another.
LEMMA SpelledIsNested ==
    ASSUME NEW env, Optional(env), \A v \in env : v.path # Fields,
           \A v \in env : v.path \in Paths,
           NEW d, Spells(d, Options(env))
    PROVE  Nested(d)
<1>1. ASSUME NEW p \in Paths PROVE Above(p) \subseteq Paths
  <2>1. p \in Seq(STRING) /\ p # <<>>
    BY DEF Paths
  <2>2. PICK key \in STRING : TRUE
    <3>1. p[1] \in STRING
      BY <2>1
    <3> QED
      BY <3>1
  <2> QED
    BY PathsBelow DEF UnderKey
<1>2. ASSUME NEW p \in DOMAIN d, NEW q \in Above(p)
      PROVE  q \in DOMAIN d /\ d[q] = Section
  <2>1. PICK v \in Options(env) : p = v.path \/ p \in Above(v.path)
    BY DEF Spells
  <2>2. v.path \in Ways
    BY DEF Optional, Options
  <2>3. q \in Above(v.path)
    BY <2>1, <2>2, AboveOrder
  <2>4. \A w \in Options(env) : w.path # q
    BY <2>3 DEF Optional, Options
  <2> QED
    BY <2>3, <2>4 DEF Spells
<1>3. ASSUME NEW p \in DOMAIN d PROVE p \in Paths
  <2>1. PICK v \in Options(env) : p = v.path \/ p \in Above(v.path)
    BY DEF Spells
  <2>2. v.path \in Paths
    BY DEF Options
  <2> QED
    BY <1>1, <2>1, <2>2
<1> QED
  BY <1>2, <1>3 DEF Nested, Values

(***************************************************************************)
(* What MergeIsRecursive needs of the two dicts that load_config merges,   *)
(* and says of what it makes of them: whenever the process runs, the file, *)
(* what was parsed of the environment and what was merged are nested.      *)
(***************************************************************************)
MergesNested ==
    stage \notin {"boot", "refused"} =>
        /\ Nested(scene.yaml)
        /\ Nested(ParseEnvOverrides(environ).dict)
        /\ Nested(Merged(scene.yaml, environ))

THEOREM NestedInvariant == Spec => []MergesNested
<1>1. ASSUME Loaded, stage \notin {"boot", "refused"}
      PROVE  /\ Nested(scene.yaml) /\ Nested(ParseEnvOverrides(environ).dict)
             /\ Nested(Merged(scene.yaml, environ))
  <2>1. /\ Optional(scene.env) /\ environ \in SetToSeqs(scene.env) /\ scene \in Scenes
        /\ ~LoadConfig(scene.yaml, environ).refused
    BY <1>1, SceneIs DEF Loaded
  <2>2. Nested(scene.yaml) /\ \A v \in scene.env : v.path \in Paths
    BY <2>1, ConfigurationAssumption
  <2>3. ASSUME NEW v \in scene.env PROVE v.path # Fields
    <3>1. v.path = Fields => LoadConfig(scene.yaml, environ) = [refused |-> TRUE]
      BY <2>1, FieldsRefuse
    <3> QED
      BY <2>1, <3>1
  <2>4. Spells(ParseEnvOverrides(environ).dict, Options(scene.env))
    BY <2>1, <2>3, ParsedSpells
  <2>5. Nested(ParseEnvOverrides(environ).dict)
    BY <2>1, <2>2, <2>3, <2>4, SpelledIsNested
  <2> QED
    BY <2>2, <2>5, MergeIsNested DEF Merged
<1>2. Loaded => MergesNested
  BY <1>1 DEF MergesNested
<1> QED
  BY <1>2, LoadedInvariant, PTL

-----------------------------------------------------------------------------
(***************************************************************************)
(* From the environment to the provider.                                   *)
(***************************************************************************)
\* A third member after two.
LEMMA Third ==
    ASSUME NEW S, NEW s \in Seq(S), NEW x \in S, Len(s) = 2
    PROVE  /\ Len(Append(s, x)) = 3 /\ Append(s, x)[3] = x
           /\ SubSeq(Append(s, x), 1, 2) = s
<1>1. PICK a : a = Append(s, x)
  OBVIOUS
<1>2. a \in Seq(S) /\ Len(a) = 3 /\ a[3] = x /\ \A k \in 1..2 : a[k] = s[k]
  <2>1. /\ a \in Seq(S) /\ Len(a) = Len(s) + 1 /\ a[Len(s) + 1] = x
        /\ \A k \in 1..Len(s) : a[k] = s[k]
    BY <1>1, AppendProperties, SMTT(60)
  <2>2. Len(s) + 1 = 3
    OBVIOUS
  <2> QED
    BY <2>1, <2>2
<1>3. PICK b \in Seq(S) : b = SubSeq(a, 1, 2)
  BY <1>2
<1>4. Len(b) = 2 /\ \A k \in 1..2 : b[k] = s[k]
  BY <1>2, <1>3
<1>5. b = s
  BY <1>3, <1>4
<1> QED
  BY <1>1, <1>2, <1>3, <1>5

\* An option of reject.fields is found under its name.
LEMMA FieldPath ==
    ASSUME NEW f \in STRING, NEW path, path = Append(Fields, f)
    PROVE  Len(path) = 3 /\ path[3] = f /\ Fields \in Above(path)
<1>1. Fields \in Seq(Words) /\ Len(Fields) = 2 /\ f \in Words
  BY AboveFields DEF Ways, Words
<1>2. Len(path) = 3 /\ path[3] = f /\ SubSeq(path, 1, 2) = Fields
  BY <1>1, Third, ZenonT(60)
<1>3. 2 \in 1..Len(path) - 1
  BY <1>2
<1> QED
  BY <1>2, <1>3 DEF Above

\* What pydantic takes over from reject.fields.
IsTaken(merged, f) ==
    /\ f \in DOMAIN Construct(merged).fields
    /\ Construct(merged).fields[f] = merged[Append(Fields, f)]

LEMMA FieldsAreTaken ==
    ASSUME NEW merged, NEW f \in STRING, ~Construct(merged).refused,
           Fields \in DOMAIN merged, Append(Fields, f) \in DOMAIN merged
    PROVE  IsTaken(merged, f)
<1> DEFINE names == {p[3] : p \in {q \in DOMAIN merged : Len(q) = 3 /\ Fields \in Above(q)}}
<1>1. f \in names
  <2>1. PICK path : path = Append(Fields, f)
    OBVIOUS
  <2> QED
    BY <2>1, FieldPath, ZenonT(60)
<1>2. Construct(merged).fields = [g \in names |-> merged[Append(Fields, g)]]
  BY DEF Construct
<1> QED
  BY <1>1, <1>2 DEF IsTaken

(***************************************************************************)
(* A value of a field that the environment rejects is never sent: not past *)
(* a file that says otherwise (_deep_merge), not past strip mode, history  *)
(* or an alias that does not set the field.  The value is the text of the  *)
(* variable, or the number it spells; EnvironmentRejectsBooleans, which is *)
(* refuted, takes it for a boolean.                                        *)
(***************************************************************************)
EnvironmentRejects ==
    \A t \in Called, var \in scene.env, f \in STRING :
        /\ var.path = Append(Fields, f)
        /\ f \notin DOMAIN Params(t) \cup DOMAIN Own \cup {"input", "stream"}
        /\ f \in DOMAIN turns[t].sent
        => turns[t].sent[f] # Coerced(var.text)

(***************************************************************************)
(* What the environment rejects never reaches the provider                 *)
(* (EnvironmentRejects).                                                   *)
(***************************************************************************)
THEOREM EnvironmentIsHeeded == Spec => []EnvironmentRejects
<1>1. ASSUME Loaded, RequestInv, EnvironmentOverYaml, MergesNested,
             NothingRejectedIsSent
      PROVE  EnvironmentRejects
  <2> SUFFICES ASSUME NEW t \in Called, NEW var \in scene.env, NEW f \in STRING,
                      var.path = Append(Fields, f),
                      f \notin DOMAIN Params(t) \cup DOMAIN Own \cup {"input", "stream"},
                      f \in DOMAIN turns[t].sent
               PROVE  turns[t].sent[f] # Coerced(var.text)
    BY DEF EnvironmentRejects
  <2>1. stage \notin {"boot", "refused"}
    BY <1>1 DEF RequestInv, Starting, Called
  <2>2. ~config.refused /\ config = LoadConfig(scene.yaml, environ)
    BY <1>1, <2>1 DEF Loaded
  <2>3. PICK merged : merged = Merged(scene.yaml, environ)
    OBVIOUS
  <2>4. config = Construct(merged) /\ ~Construct(merged).refused
    BY <2>2, <2>3 DEF LoadConfig
  <2>5. Len(var.path) = 3 /\ Fields \in Above(var.path)
    BY FieldPath
  <2>6. var.path \in Values(merged) /\ merged[var.path] = Coerced(var.text)
    <3>1. Len(var.path) > 1
      BY <2>5
    <3> QED
      BY <1>1, <2>1, <2>3, <3>1 DEF EnvironmentOverYaml
  <2>7. var.path \in DOMAIN merged /\ Fields \in DOMAIN merged
    BY <1>1, <2>1, <2>3, <2>5, <2>6 DEF MergesNested, Nested, Values
  <2>8. f \in DOMAIN config.fields /\ config.fields[f] = Coerced(var.text)
    <3>1. IsTaken(merged, f)
      BY <2>4, <2>7, FieldsAreTaken, Zenon
    <3> QED
      BY <2>4, <2>6, <3>1 DEF IsTaken
  <2> QED
    BY <1>1, <2>8 DEF NothingRejectedIsSent
<1>2. Loaded /\ RequestInv /\ EnvironmentOverYaml /\ MergesNested /\ NothingRejectedIsSent
          => EnvironmentRejects
  BY <1>1
<1> QED
  BY <1>2, LoadedInvariant, RequestsAreAccountedFor, PrecedenceInvariant,
     NestedInvariant, RefusedFeaturesAreNotSent, PTL

=================================================================================
