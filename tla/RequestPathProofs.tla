--------------------------- MODULE RequestPathProofs ---------------------------
(***************************************************************************)
(* RequestInv is an inductive invariant of RequestPath, and implies what   *)
(* the validator and the router promise: ValidatorProofs says what one     *)
(* verdict leaves of a request, the lemmas here what becomes of it on the  *)
(* way to the provider.                                                    *)
(***************************************************************************)
EXTENDS RequestPathInvariant, ValidatorProofs

-----------------------------------------------------------------------------
\* The parameters of the alias a request names.
ParamsOf(aliases, r) ==
    IF Get(r, "model") \in DOMAIN aliases THEN aliases[Get(r, "model")] ELSE <<>>

LEMMA SpreadIs ==
    ASSUME NEW aliases, NEW r
    PROVE  LET spread == ResolveRequest(aliases, r)
               ps     == ParamsOf(aliases, r)
           IN  /\ DOMAIN spread = DOMAIN r \cup DOMAIN ps
               /\ \A k \in DOMAIN ps : spread[k] = ps[k]
               /\ \A k \in DOMAIN r \ DOMAIN ps : spread[k] = r[k]
<1>1. CASE Get(r, "model") \in DOMAIN aliases
  <2>1. ResolveRequest(aliases, r) = Update(r, ParamsOf(aliases, r))
    BY <1>1 DEF ResolveRequest, ParamsOf
  <2> DEFINE ps == ParamsOf(aliases, r)
  <2> HIDE DEF ps
  <2>2. /\ DOMAIN Update(r, ps) = DOMAIN r \cup DOMAIN ps
        /\ \A k \in DOMAIN ps : Update(r, ps)[k] = ps[k]
        /\ \A k \in DOMAIN r \ DOMAIN ps : Update(r, ps)[k] = r[k]
    BY UpdateIs
  <2> QED
    BY <2>1, <2>2 DEF ps
<1>2. CASE Get(r, "model") \notin DOMAIN aliases
  <2>1. ResolveRequest(aliases, r) = r /\ ParamsOf(aliases, r) = <<>>
    BY <1>2 DEF ResolveRequest, ParamsOf
  <2>2. DOMAIN <<>> = {}
    OBVIOUS
  <2> QED
    BY <2>1, <2>2
<1> QED
  BY <1>1, <1>2

\* What llm.call or llm.stream gives litellm for a request.
Arguments(aliases, r) ==
    IF Truthy(Get(r, "stream")) THEN StreamArguments(aliases, r) ELSE CallArguments(aliases, r)

(***************************************************************************)
(* The arguments made of a request r that is what the validator left of it *)
(* but for `store` and `input`.                                            *)
(***************************************************************************)
LEMMA ArgumentsAre ==
    ASSUME NEW aliases, NEW left, NEW r,
           Without(r, {"input"}) = Without(left, {"store", "input"})
    PROVE  LET args == Arguments(aliases, r)
               sent == Update(args.spread, args.own)
               ps   == ParamsOf(aliases, left)
               streams == Truthy(Get(left, "stream"))
           IN  /\ Collides(args) <=>
                    \/ DOMAIN Own \cap (DOMAIN left \cup DOMAIN ps) # {}
                    \/ streams /\ "stream" \in DOMAIN ps
               /\ ~Collides(args) =>
                    /\ \A k \in DOMAIN ps : k \in DOMAIN sent /\ sent[k] = ps[k]
                    /\ \A k \in DOMAIN left \ (DOMAIN ps \cup {"input", "stream", "store"}) :
                          k \in DOMAIN sent /\ sent[k] = left[k]
                    /\ \A k \in DOMAIN sent \ (DOMAIN ps \cup DOMAIN Own \cup {"input", "stream"}) :
                          k # "store" /\ k \in DOMAIN left /\ sent[k] = left[k]
               /\ "input" \notin DOMAIN ps =>
                    /\ "input" \in DOMAIN sent <=> "input" \in DOMAIN r
                    /\ "input" \in DOMAIN r => sent["input"] = r["input"]
<1> DEFINE ps == ParamsOf(aliases, left)
           streams == Truthy(Get(left, "stream"))
           asked == IF streams THEN Without(r, {"stream"}) ELSE r
           spread == ResolveRequest(aliases, asked)
           own == IF streams THEN Update(Own, [stream |-> "True"]) ELSE Own
           sent == Update(spread, own)
           args == Arguments(aliases, r)
<1>1. /\ DOMAIN r \ {"input"} = DOMAIN left \ {"store", "input"}
      /\ \A k \in DOMAIN r \ {"input"} : r[k] = left[k]
  <2>1. /\ DOMAIN Without(r, {"input"}) = DOMAIN r \ {"input"}
        /\ \A k \in DOMAIN r \ {"input"} : Without(r, {"input"})[k] = r[k]
    BY WithoutIs
  <2>2. /\ DOMAIN Without(left, {"store", "input"}) = DOMAIN left \ {"store", "input"}
        /\ \A k \in DOMAIN left \ {"store", "input"} :
              Without(left, {"store", "input"})[k] = left[k]
    BY WithoutIs
  <2> QED
    BY <2>1, <2>2
<1>2. /\ "stream" \in DOMAIN r <=> "stream" \in DOMAIN left
      /\ "stream" \in DOMAIN r => r["stream"] = left["stream"]
      /\ "model" \in DOMAIN r <=> "model" \in DOMAIN left
      /\ "model" \in DOMAIN r => r["model"] = left["model"]
  BY <1>1
<1>3. Get(r, "stream") = Get(left, "stream") /\ Get(r, "model") = Get(left, "model")
  BY <1>2 DEF Get
<1>4. /\ DOMAIN asked = IF streams THEN DOMAIN r \ {"stream"} ELSE DOMAIN r
      /\ \A k \in DOMAIN asked : asked[k] = r[k]
  <2>1. /\ DOMAIN Without(r, {"stream"}) = DOMAIN r \ {"stream"}
        /\ \A k \in DOMAIN r \ {"stream"} : Without(r, {"stream"})[k] = r[k]
    BY WithoutIs
  <2> HIDE DEF streams
  <2> QED
    BY <2>1
<1>5. Get(asked, "model") = Get(left, "model")
  BY <1>3, <1>4 DEF Get
<1>6. ParamsOf(aliases, asked) = ps
  BY <1>5 DEF ParamsOf
<1> HIDE DEF asked, ps
<1>7. /\ DOMAIN spread = DOMAIN asked \cup DOMAIN ps
      /\ \A k \in DOMAIN ps : spread[k] = ps[k]
      /\ \A k \in DOMAIN asked \ DOMAIN ps : spread[k] = asked[k]
  <2> DEFINE qs == ParamsOf(aliases, asked)
  <2>1. /\ DOMAIN spread = DOMAIN asked \cup DOMAIN qs
        /\ \A k \in DOMAIN qs : spread[k] = qs[k]
        /\ \A k \in DOMAIN asked \ DOMAIN qs : spread[k] = asked[k]
    BY SpreadIs
  <2> QED
    BY <2>1, <1>6
<1>8. DOMAIN Own = {"timeout", "num_retries"}
  BY DEF Own
<1>9. DOMAIN own = DOMAIN Own \cup (IF streams THEN {"stream"} ELSE {})
  <2> DEFINE e == [stream |-> "True"]
  <2>1. DOMAIN e = {"stream"}
    OBVIOUS
  <2> HIDE DEF e
  <2>2. DOMAIN Update(Own, e) = DOMAIN Own \cup DOMAIN e
    BY UpdateIs
  <2> QED
    BY <2>1, <2>2 DEF e
<1>10. args.spread = spread /\ args.own = own
  BY <1>3 DEF Arguments, StreamArguments, CallArguments, asked
<1> HIDE DEF spread, own, args, streams
<1>11. /\ DOMAIN sent = DOMAIN spread \cup DOMAIN own
       /\ \A k \in DOMAIN spread \ DOMAIN own : sent[k] = spread[k]
  BY UpdateIs
<1>12. Collides(args) <=> DOMAIN spread \cap DOMAIN own # {}
  BY <1>10 DEF Collides
<1> HIDE DEF sent
<1>13. \A k \in DOMAIN Own : k \in DOMAIN asked <=> k \in DOMAIN left
  BY <1>1, <1>4, <1>8
<1>14. streams => "stream" \notin DOMAIN asked
  BY <1>4
<1>15. Collides(args) <=>
          \/ DOMAIN Own \cap (DOMAIN left \cup DOMAIN ps) # {}
          \/ streams /\ "stream" \in DOMAIN ps
  BY <1>7, <1>9, <1>12, <1>13, <1>14
<1>16. ASSUME ~Collides(args), NEW k \in DOMAIN ps
       PROVE  k \in DOMAIN sent /\ sent[k] = ps[k]
  BY <1>16, <1>7, <1>11, <1>12
<1>17. ASSUME ~Collides(args),
              NEW k \in DOMAIN left \ (DOMAIN ps \cup {"input", "stream", "store"})
       PROVE  k \in DOMAIN sent /\ sent[k] = left[k]
  <2>1. k \in DOMAIN r /\ r[k] = left[k]
    BY <1>1
  <2>2. k \in DOMAIN asked /\ asked[k] = left[k]
    BY <2>1, <1>4
  <2>3. k \in DOMAIN spread /\ spread[k] = left[k]
    BY <2>2, <1>7
  <2> QED
    BY <2>3, <1>11, <1>12, <1>17
<1>18. ASSUME ~Collides(args),
              NEW k \in DOMAIN sent \ (DOMAIN ps \cup DOMAIN Own \cup {"input", "stream"})
       PROVE  k # "store" /\ k \in DOMAIN left /\ sent[k] = left[k]
  <2>1. k \notin DOMAIN own
    BY <1>9
  <2>2. k \in DOMAIN asked /\ sent[k] = asked[k]
    BY <2>1, <1>7, <1>11
  <2>3. k \in DOMAIN r \ {"input"} /\ sent[k] = r[k]
    BY <2>2, <1>4
  <2> QED
    BY <2>3, <1>1
<1>19. ASSUME "input" \notin DOMAIN ps
       PROVE  /\ "input" \in DOMAIN sent <=> "input" \in DOMAIN r
              /\ "input" \in DOMAIN r => sent["input"] = r["input"]
  <2>1. "input" \notin DOMAIN own
    BY <1>8, <1>9
  <2>2. /\ "input" \in DOMAIN asked <=> "input" \in DOMAIN r
        /\ "input" \in DOMAIN r => asked["input"] = r["input"]
    BY <1>4
  <2> QED
    BY <2>1, <2>2, <1>7, <1>11, <1>19
<1> QED
  BY <1>10, <1>15, <1>16, <1>17, <1>18, <1>19 DEF sent, ps, streams, args

-----------------------------------------------------------------------------
LEMMA RangeIs ==
    ASSUME NEW S, NEW s \in Seq(S)
    PROVE  s \in Seq(Range(s))
<1>1. \A i \in 1..Len(s) : s[i] \in Range(s)
  BY DEF Range
<1>2. s = [i \in 1..Len(s) |-> s[i]] /\ Len(s) \in Nat
  OBVIOUS
<1>3. [i \in 1..Len(s) |-> s[i]] \in Seq(Range(s))
  BY <1>1, <1>2
<1> QED
  BY <1>2, <1>3

\* A request underway is the last of those received.
LEMMA ThisIs ==
    ASSUME RequestInv
    PROVE  /\ This \in Nat /\ DOMAIN turns = 1..This
           /\ stage \in {"resolve", "call"} => This \in DOMAIN turns
<1>1. turns \in Seq(Range(turns))
  BY DEF RequestInv, Judged
<1>2. This \in Nat /\ DOMAIN turns = 1..This
  BY <1>1 DEF This
<1>3. ASSUME turns # <<>> PROVE This \in 1..This
  BY <1>1, <1>2, <1>3 DEF This
<1> QED
  BY <1>2, <1>3 DEF RequestInv, Underway

\* What is said of request t hangs on its verdict alone.
LEMMA SameVerdict ==
    ASSUME UNCHANGED <<scene, config>>, NEW t, turns'[t].verdict = turns[t].verdict
    PROVE  Reject' = Reject /\ Left(t)' = Left(t) /\ Params(t)' = Params(t)
           /\ Streams(t)' = Streams(t) /\ Aliases' = Aliases
<1>1. Left(t)' = Left(t)
  BY DEF Left
<1>2. Aliases' = Aliases /\ Reject' = Reject
  BY DEF Aliases, Reject
<1> QED
  BY <1>1, <1>2 DEF Params, Streams

\* What AliasDecides, NothingElseIsSent and OnlyTimeoutsCollide say of request t.
AliasesDecide(t) ==
    /\ \A k \in DOMAIN Params(t) :
          k \in DOMAIN turns[t].sent /\ turns[t].sent[k] = Params(t)[k]
    /\ \A k \in DOMAIN Left(t) \ (DOMAIN Params(t) \cup {"input", "stream", "store"}) :
          k \in DOMAIN turns[t].sent /\ turns[t].sent[k] = Left(t)[k]

NothingElse(t) ==
    \A k \in DOMAIN turns[t].sent \ (DOMAIN Params(t) \cup DOMAIN Own \cup {"input", "stream"}) :
        k # "store" /\ k \in DOMAIN Left(t) /\ turns[t].sent[k] = Left(t)[k]

Collision(t) ==
    turns[t].outcome = "502" <=>
        \/ DOMAIN Own \cap (DOMAIN Left(t) \cup DOMAIN Params(t)) # {}
        \/ Streams(t) /\ "stream" \in DOMAIN Params(t)

\* A request that is as it was keeps what the invariant says of it.
LEMMA KeptTurn ==
    ASSUME RequestInv, UNCHANGED <<scene, config>>,
           NEW t \in DOMAIN turns, turns'[t] = turns[t]
    PROVE  /\ DOMAIN turns'[t] = TurnFields
           /\ "tools" \in DOMAIN turns'[t].client => turns'[t].client.tools \in Seq(STRING)
           /\ turns'[t].verdict = Validate(Reject', turns'[t].client)
           /\ turns'[t].outcome = "422" <=> turns'[t].verdict.raises
           /\ turns'[t].outcome = "200" => AliasesDecide(t)' /\ NothingElse(t)'
           /\ turns'[t].outcome \in {"200", "502"} => Collision(t)'
<1>1. Reject' = Reject /\ Left(t)' = Left(t) /\ Params(t)' = Params(t) /\ Streams(t)' = Streams(t)
  BY SameVerdict
<1>2. /\ DOMAIN turns[t] = TurnFields
      /\ "tools" \in DOMAIN turns[t].client => turns[t].client.tools \in Seq(STRING)
      /\ turns[t].verdict = Validate(Reject, turns[t].client)
      /\ turns[t].outcome = "422" <=> turns[t].verdict.raises
  BY DEF RequestInv, Judged
<1>3. turns[t].outcome = "200" => AliasesDecide(t) /\ NothingElse(t)
  BY DEF RequestInv, AliasDecides, NothingElseIsSent, Called, AliasesDecide, NothingElse
<1>4. turns[t].outcome \in {"200", "502"} => Collision(t)
  BY DEF RequestInv, OnlyTimeoutsCollide, Collision
<1>5. AliasesDecide(t)' = AliasesDecide(t) /\ NothingElse(t)' = NothingElse(t)
      /\ Collision(t)' = Collision(t)
  BY <1>1 DEF AliasesDecide, NothingElse, Collision
<1> QED
  BY <1>1, <1>2, <1>3, <1>4, <1>5

\* The parts that speak of each request, from what they say of each.
LEMMA EachTurn ==
    ASSUME turns' \in Seq(Range(turns')),
           \A t \in DOMAIN turns' :
             /\ DOMAIN turns'[t] = TurnFields
             /\ "tools" \in DOMAIN turns'[t].client => turns'[t].client.tools \in Seq(STRING)
             /\ turns'[t].verdict = Validate(Reject', turns'[t].client)
             /\ turns'[t].outcome = "422" <=> turns'[t].verdict.raises
             /\ turns'[t].outcome = "200" => AliasesDecide(t)' /\ NothingElse(t)'
             /\ turns'[t].outcome \in {"200", "502"} => Collision(t)'
    PROVE  Judged' /\ AliasDecides' /\ NothingElseIsSent' /\ OnlyTimeoutsCollide'
<1>1. Judged'
  BY DEF Judged
<1>2. AliasDecides' /\ NothingElseIsSent'
  BY DEF AliasDecides, NothingElseIsSent, Called, AliasesDecide, NothingElse
<1>3. OnlyTimeoutsCollide'
  BY DEF OnlyTimeoutsCollide, Collision
<1> QED
  BY <1>1, <1>2, <1>3

-----------------------------------------------------------------------------
\* A request is received.
LEMMA TurnAdded ==
    ASSUME RequestInv, NEW new, turns' = Append(turns, new)
    PROVE  /\ DOMAIN turns' = 1..This + 1 /\ This' = This + 1 /\ turns' \in Seq(Range(turns'))
           /\ \A t \in 1..This : turns'[t] = turns[t]
           /\ turns'[This + 1] = new
<1> DEFINE n == This
<1>1. turns \in Seq(Range(turns)) /\ n \in Nat /\ DOMAIN turns = 1..n /\ n = Len(turns)
  BY ThisIs DEF RequestInv, Judged, This
<1>2. turns \in Seq(Range(turns) \cup {new}) /\ new \in Range(turns) \cup {new}
  BY <1>1
<1> HIDE DEF n, Range
<1>3. turns' \in Seq(Range(turns) \cup {new}) /\ Len(turns') = n + 1
  BY <1>1, <1>2
<1>4. /\ \A t \in 1..n : turns'[t] = turns[t]
      /\ turns'[n + 1] = new
  BY <1>1, <1>2
<1>5. DOMAIN turns' = 1..n + 1 /\ This' = n + 1
  BY <1>3 DEF This
<1>6. turns' \in Seq(Range(turns'))
  BY <1>3, RangeIs
<1> QED
  BY <1>4, <1>5, <1>6 DEF n

\* The request underway comes to its end.
LEMMA TurnEnded ==
    ASSUME RequestInv, stage = "call", NEW m, m = This,
           NEW o, NEW sent, turns' = Outcome(o, sent)
    PROVE  /\ DOMAIN turns' = DOMAIN turns /\ turns' \in Seq(Range(turns'))
           /\ \A t \in DOMAIN turns \ {m} : turns'[t] = turns[t]
           /\ DOMAIN turns'[m] = TurnFields
           /\ turns'[m].client = turns[m].client /\ turns'[m].verdict = turns[m].verdict
           /\ turns'[m].prev = turns[m].prev
           /\ turns'[m].outcome = o /\ turns'[m].sent = sent
<1> DEFINE new == [[turns[m] EXCEPT !.outcome = o] EXCEPT !.sent = sent]
<1>1. m \in DOMAIN turns /\ turns \in Seq(Range(turns)) /\ DOMAIN turns[m] = TurnFields
  BY ThisIs DEF RequestInv, Judged
<1>2. turns' = [turns EXCEPT ![m] = new]
  BY <1>1 DEF Outcome
<1>3. /\ DOMAIN new = TurnFields /\ new.client = turns[m].client
      /\ new.verdict = turns[m].verdict /\ new.prev = turns[m].prev
      /\ new.outcome = o /\ new.sent = sent
  BY <1>1 DEF TurnFields
<1> HIDE DEF new
<1>4. turns \in Seq(Range(turns) \cup {new}) /\ new \in Range(turns) \cup {new}
  BY <1>1
<1>5. turns' \in Seq(Range(turns) \cup {new})
  <2> HIDE DEF Range
  <2> QED
    BY <1>1, <1>2, <1>4
<1>6. turns' \in Seq(Range(turns'))
  BY <1>5, RangeIs
<1> QED
  BY <1>1, <1>2, <1>3, <1>6

-----------------------------------------------------------------------------
LEMMA InvInit == ASSUME SceneAssumption, Init PROVE RequestInv
<1>1. turns = <<>> /\ DOMAIN turns = {} /\ turns \in Seq(Range(turns)) /\ stage = "boot"
  BY DEF Init
<1>2. Starting /\ Underway
  BY <1>1 DEF Starting, Underway
<1>3. Judged
  BY <1>1 DEF Judged
<1>4. AliasDecides /\ NothingElseIsSent /\ OnlyTimeoutsCollide
  BY <1>1 DEF AliasDecides, NothingElseIsSent, OnlyTimeoutsCollide, Called
<1> QED
  BY <1>2, <1>3, <1>4 DEF RequestInv, Init

LEMMA StartStep == ASSUME RequestInv, Start PROVE RequestInv'
<1>1. turns' = turns /\ turns = <<>> /\ scene' = scene /\ stage' \in {"refused", "ready"}
  BY DEF Start, RequestInv, Starting
<1>2. DOMAIN turns' = {} /\ turns' \in Seq(Range(turns'))
  BY <1>1
<1>3. Judged' /\ AliasDecides' /\ NothingElseIsSent' /\ OnlyTimeoutsCollide'
  BY <1>2, EachTurn
<1>4. Starting' /\ Underway'
  BY <1>1 DEF Starting, Underway
<1> QED
  BY <1>1, <1>3, <1>4 DEF RequestInv

LEMMA ReceiveStep == ASSUME SceneAssumption, RequestInv, Receive PROVE RequestInv'
<1>1. PICK fields, i, p :
        /\ fields \in scene.requests
        /\ LET client  == Update(fields, [input |-> i])
               verdict == Validate(Reject, client)
           IN  /\ turns' = Append(turns, [client |-> client, prev |-> p, verdict |-> verdict,
                                          outcome |-> IF verdict.raises THEN "422" ELSE "open",
                                          sent |-> <<>>])
               /\ stage' = IF verdict.raises THEN "ready" ELSE "resolve"
               /\ request' = IF verdict.raises THEN <<>> ELSE PopStore(verdict.request)
  BY ZenonT(60) DEF Receive
<1>2. UNCHANGED <<scene, config>> /\ scene \in Scenes
  BY DEF Receive, RequestInv
<1> DEFINE client == Update(fields, [input |-> i])
           verdict == Validate(Reject, client)
           new == [client |-> client, prev |-> p, verdict |-> verdict,
                   outcome |-> IF verdict.raises THEN "422" ELSE "open", sent |-> <<>>]
           n == This
<1>3. turns' = Append(turns, new)
  BY <1>1
<1>4. turns \in Seq(Range(turns)) /\ n \in Nat /\ DOMAIN turns = 1..n /\ n = Len(turns)
  BY ThisIs DEF RequestInv, Judged, This
<1>5. "tools" \in DOMAIN client => client.tools \in Seq(STRING)
  <2> DEFINE e == [input |-> i]
  <2>1. DOMAIN e = {"input"}
    OBVIOUS
  <2> HIDE DEF e
  <2>2. /\ DOMAIN Update(fields, e) = DOMAIN fields \cup DOMAIN e
        /\ \A k \in DOMAIN fields \ DOMAIN e : Update(fields, e)[k] = fields[k]
    BY UpdateIs
  <2>3. "tools" \in DOMAIN fields => fields.tools \in Seq(STRING)
    BY <1>1, <1>2 DEF SceneAssumption
  <2> QED
    BY <2>1, <2>2, <2>3 DEF e
<1>6. /\ new.client = client /\ new.verdict = verdict /\ DOMAIN new = TurnFields
      /\ new.outcome = IF verdict.raises THEN "422" ELSE "open"
  BY DEF TurnFields
<1> HIDE DEF client, verdict, new, n
<1>7. /\ DOMAIN turns' = 1..n + 1 /\ This' = n + 1 /\ turns' \in Seq(Range(turns'))
      /\ \A t \in 1..n : turns'[t] = turns[t]
      /\ turns'[n + 1] = new
  <2>1. turns' = Append(turns, new)
    BY <1>3 DEF new, client, verdict
  <2> QED
    BY <2>1, TurnAdded DEF n
<1>9. Reject' = Reject
  BY <1>2 DEF Reject
<1>10. ASSUME NEW t \in DOMAIN turns'
       PROVE  /\ DOMAIN turns'[t] = TurnFields
              /\ "tools" \in DOMAIN turns'[t].client => turns'[t].client.tools \in Seq(STRING)
              /\ turns'[t].verdict = Validate(Reject', turns'[t].client)
              /\ turns'[t].outcome = "422" <=> turns'[t].verdict.raises
              /\ turns'[t].outcome = "200" => AliasesDecide(t)' /\ NothingElse(t)'
              /\ turns'[t].outcome \in {"200", "502"} => Collision(t)'
  <2>1. CASE t \in 1..n
    <3>1. t \in DOMAIN turns /\ turns'[t] = turns[t]
      BY <2>1, <1>4, <1>7
    <3> QED
      BY <3>1, <1>2, KeptTurn
  <2>2. CASE t = n + 1
    <3>1. turns'[t] = new
      BY <2>2, <1>7
    <3> QED
      BY <3>1, <1>5, <1>6, <1>9 DEF verdict
  <2> QED
    BY <2>1, <2>2, <1>4, <1>7
<1>11. Judged' /\ AliasDecides' /\ NothingElseIsSent' /\ OnlyTimeoutsCollide'
  BY <1>7, <1>10, EachTurn
<1>12. stage' = (IF verdict.raises THEN "ready" ELSE "resolve")
       /\ request' = (IF verdict.raises THEN <<>> ELSE PopStore(verdict.request))
  BY <1>1 DEF verdict, client
<1>13. Starting'
  BY <1>12 DEF Starting
<1>14. Underway'
  <2>1. Left(This)' = verdict.request
    BY <1>6, <1>7 DEF Left
  <2>2. turns' # <<>> /\ turns'[This'] = new
    BY <1>4, <1>7
  <2> QED
    BY <1>6, <1>12, <2>1, <2>2 DEF Underway
<1> QED
  BY <1>2, <1>11, <1>13, <1>14 DEF RequestInv

LEMMA ResolveStep == ASSUME RequestInv, Resolve PROVE RequestInv'
<1>1. UNCHANGED <<scene, config, turns>> /\ stage = "resolve" /\ stage' = "call"
  BY DEF Resolve
<1>2. PICK i : request' = request \/ request' = Update(request, [input |-> i])
  BY DEF Resolve
<1>3. turns' \in Seq(Range(turns')) /\ DOMAIN turns' = DOMAIN turns
  BY <1>1 DEF RequestInv, Judged
<1>4. Judged' /\ AliasDecides' /\ NothingElseIsSent' /\ OnlyTimeoutsCollide'
  <2>1. \A t \in DOMAIN turns' : turns'[t] = turns[t] /\ t \in DOMAIN turns
    BY <1>1
  <2> QED
    BY <1>1, <1>3, <2>1, KeptTurn, EachTurn
<1>5. request = PopStore(Left(This)) /\ turns # <<>> /\ turns[This].outcome = "open"
  BY <1>1 DEF RequestInv, Underway
<1>6. This' = This /\ Left(This)' = Left(This)
  BY <1>1 DEF This, Left
<1>7. Without(request', {"input"}) = Without(Left(This), {"store", "input"})
  <2> DEFINE left == Left(This)
             e == [input |-> i]
  <2>1. DOMAIN e = {"input"}
    OBVIOUS
  <2> HIDE DEF left, e
  <2>2. /\ DOMAIN request = DOMAIN left \ {"store"}
        /\ \A k \in DOMAIN left \ {"store"} : request[k] = left[k]
    <3>1. /\ DOMAIN Without(left, {"store"}) = DOMAIN left \ {"store"}
          /\ \A k \in DOMAIN left \ {"store"} : Without(left, {"store"})[k] = left[k]
      BY WithoutIs
    <3> QED
      BY <3>1, <1>5 DEF left, PopStore
  <2>3. /\ DOMAIN Update(request, e) = DOMAIN request \cup DOMAIN e
        /\ \A k \in DOMAIN request \ DOMAIN e : Update(request, e)[k] = request[k]
    BY UpdateIs
  <2>4. /\ DOMAIN request' \ {"input"} = DOMAIN left \ {"store", "input"}
        /\ \A k \in DOMAIN left \ {"store", "input"} : request'[k] = left[k]
    <3>1. CASE request' = request
      BY <3>1, <2>2
    <3>2. CASE request' = Update(request, e)
      BY <3>2, <2>1, <2>2, <2>3
    <3> QED
      BY <3>1, <3>2, <1>2 DEF e
  <2>5. Without(request', {"input"}) = Without(left, {"store", "input"})
    BY <2>4 DEF Without, Restrict
  <2> QED
    BY <2>5 DEF left
<1>8. Starting' /\ Underway'
  BY <1>1, <1>5, <1>6, <1>7 DEF Starting, Underway
<1> QED
  BY <1>1, <1>4, <1>8 DEF RequestInv

LEMMA CallStep == ASSUME RequestInv, Call PROVE RequestInv'
<1> DEFINE args == Arguments(Aliases, request)
           left == Left(This)
           ps == Params(This)
           n == This
<1>1. UNCHANGED <<scene, config>> /\ stage = "call" /\ stage' = "ready"
  BY DEF Call
<1>2. \/ Collides(args) /\ turns' = Outcome("502", <<>>)
      \/ ~Collides(args) /\ turns' = Outcome("200", Update(args.spread, args.own))
  BY DEF Call, Arguments
<1>3. Without(request, {"input"}) = Without(left, {"store", "input"})
  BY <1>1 DEF RequestInv, Underway
<1>4. ps = ParamsOf(Aliases, left) /\ Streams(n) = Truthy(Get(left, "stream"))
  BY DEF Params, ParamsOf, Streams
<1>5. n \in DOMAIN turns /\ turns \in Seq(Range(turns)) /\ DOMAIN turns[n] = TurnFields
  BY <1>1, ThisIs DEF RequestInv, Judged
<1>6. ~turns[n].verdict.raises
  <2>1. turns[n].outcome = "open"
    BY <1>1 DEF RequestInv, Underway
  <2> QED
    BY <2>1, <1>5 DEF RequestInv, Judged
<1>7. /\ Collides(args) <=>
            \/ DOMAIN Own \cap (DOMAIN left \cup DOMAIN ps) # {}
            \/ Streams(n) /\ "stream" \in DOMAIN ps
      /\ ~Collides(args) =>
            LET sent == Update(args.spread, args.own) IN
            /\ \A k \in DOMAIN ps : k \in DOMAIN sent /\ sent[k] = ps[k]
            /\ \A k \in DOMAIN left \ (DOMAIN ps \cup {"input", "stream", "store"}) :
                  k \in DOMAIN sent /\ sent[k] = left[k]
            /\ \A k \in DOMAIN sent \ (DOMAIN ps \cup DOMAIN Own \cup {"input", "stream"}) :
                  k # "store" /\ k \in DOMAIN left /\ sent[k] = left[k]
  <2> HIDE DEF left
  <2> QED
    BY <1>3, <1>4, ArgumentsAre
<1> HIDE DEF args, left, ps, n
<1>8. PICK m : m = n
  OBVIOUS
<1>9. PICK o, sent : turns' = Outcome(o, sent) /\
        \/ Collides(args) /\ o = "502" /\ sent = <<>>
        \/ ~Collides(args) /\ o = "200" /\ sent = Update(args.spread, args.own)
  BY <1>2
<1>10. /\ DOMAIN turns' = DOMAIN turns /\ turns' \in Seq(Range(turns'))
       /\ \A t \in DOMAIN turns \ {m} : turns'[t] = turns[t]
       /\ DOMAIN turns'[m] = TurnFields
       /\ turns'[m].client = turns[m].client /\ turns'[m].verdict = turns[m].verdict
       /\ turns'[m].outcome = o /\ turns'[m].sent = sent
  BY <1>1, <1>8, <1>9, TurnEnded DEF n
<1>11. Reject' = Reject
  BY <1>1 DEF Reject
<1>12. Left(m)' = left /\ Params(m)' = ps /\ Streams(m)' = Streams(n)
  <2>1. Left(m)' = Left(m) /\ Params(m)' = Params(m) /\ Streams(m)' = Streams(m)
    BY <1>1, <1>10, SameVerdict
  <2> QED
    BY <2>1, <1>8 DEF left, ps, n
<1>13. ASSUME NEW t \in DOMAIN turns'
       PROVE  /\ DOMAIN turns'[t] = TurnFields
              /\ "tools" \in DOMAIN turns'[t].client => turns'[t].client.tools \in Seq(STRING)
              /\ turns'[t].verdict = Validate(Reject', turns'[t].client)
              /\ turns'[t].outcome = "422" <=> turns'[t].verdict.raises
              /\ turns'[t].outcome = "200" => AliasesDecide(t)' /\ NothingElse(t)'
              /\ turns'[t].outcome \in {"200", "502"} => Collision(t)'
  <2>1. CASE t # m
    <3>1. t \in DOMAIN turns /\ turns'[t] = turns[t]
      BY <2>1, <1>10
    <3> QED
      BY <3>1, <1>1, KeptTurn
  <2>2. CASE t = m
    <3>1. /\ "tools" \in DOMAIN turns[m].client => turns[m].client.tools \in Seq(STRING)
          /\ turns[m].verdict = Validate(Reject, turns[m].client)
      BY <1>5, <1>8 DEF RequestInv, Judged
    <3>2. turns'[m].outcome # "422" /\ ~turns'[m].verdict.raises
      BY <1>6, <1>8, <1>9, <1>10
    <3>3. ASSUME turns'[m].outcome = "200" PROVE AliasesDecide(m)' /\ NothingElse(m)'
      <4>1. ~Collides(args) /\ turns'[m].sent = Update(args.spread, args.own)
        BY <1>9, <1>10, <3>3
      <4> QED
        BY <4>1, <1>7, <1>12 DEF AliasesDecide, NothingElse
    <3>4. Collision(m)'
      <4>1. turns'[m].outcome = "502" <=> Collides(args)
        BY <1>9, <1>10
      <4> QED
        BY <4>1, <1>7, <1>12 DEF Collision
    <3> QED
      BY <2>2, <3>1, <3>2, <3>3, <3>4, <1>10, <1>11
  <2> QED
    BY <2>1, <2>2
<1>14. Judged' /\ AliasDecides' /\ NothingElseIsSent' /\ OnlyTimeoutsCollide'
  BY <1>10, <1>13, EachTurn
<1>15. Starting' /\ Underway'
  BY <1>1 DEF Starting, Underway
<1> QED
  BY <1>1, <1>14, <1>15 DEF RequestInv

LEMMA StutterStep == ASSUME RequestInv, UNCHANGED vars PROVE RequestInv'
<1>1. UNCHANGED <<scene, config, turns>> /\ stage' = stage /\ request' = request
  BY DEF vars
<1>2. turns' \in Seq(Range(turns'))
  BY <1>1 DEF RequestInv, Judged
<1>3. \A t \in DOMAIN turns' : turns'[t] = turns[t] /\ t \in DOMAIN turns
  BY <1>1
<1>4. Judged' /\ AliasDecides' /\ NothingElseIsSent' /\ OnlyTimeoutsCollide'
  BY <1>1, <1>2, <1>3, KeptTurn, EachTurn
<1>5. This' = This /\ Left(This)' = Left(This)
  BY <1>1 DEF This, Left
<1>6. Starting' /\ Underway'
  BY <1>1, <1>5 DEF RequestInv, Starting, Underway
<1> QED
  BY <1>1, <1>4, <1>6 DEF RequestInv

(***************************************************************************)
(* From verdict to arguments, every request is accounted for, in every     *)
(* deployment and however many requests are made.                          *)
(***************************************************************************)
THEOREM RequestsAreAccountedFor == Spec => []RequestInv
<1>1. Init => RequestInv
  BY SceneAssumption, InvInit
<1>2. RequestInv /\ [Next]_vars => RequestInv'
  BY SceneAssumption, StartStep, ReceiveStep, ResolveStep, CallStep, StutterStep DEF Next
<1> QED
  BY <1>1, <1>2, PTL DEF Spec

\* What an operator's alias sets is sent as it sets it, all else as asked for.
THEOREM AliasesDecideAlone == Spec => []AliasDecides
<1>1. RequestInv => AliasDecides
  BY DEF RequestInv
<1> QED
  BY <1>1, RequestsAreAccountedFor, PTL

\* A call that fails before the provider is never the fault of a client's stream.
THEOREM StreamsDoNotCollide == Spec => []OnlyTimeoutsCollide
<1>1. RequestInv => OnlyTimeoutsCollide
  BY DEF RequestInv
<1> QED
  BY <1>1, RequestsAreAccountedFor, PTL

-----------------------------------------------------------------------------
\* What Validator is given of the configuration.
LEMMA RejectIs ==
    ASSUME SceneAssumption, RequestInv
    PROVE  /\ Reject.mode = config.mode /\ Reject.fields = config.fields
           /\ Reject.tools = scene.reject.tools
           /\ Reject.present_fields = scene.reject.present_fields
           /\ Reject.strip_mode_allowed_tool_types = scene.reject.strip_mode_allowed_tool_types
<1>1. DOMAIN scene.reject = RejectLists
  BY DEF SceneAssumption, RequestInv
<1> DEFINE e == [mode |-> config.mode, fields |-> config.fields]
<1>2. DOMAIN e = {"mode", "fields"} /\ e.mode = config.mode /\ e.fields = config.fields
  OBVIOUS
<1>3. Reject = Update(scene.reject, e)
  BY DEF Reject
<1> HIDE DEF e
<1>4. /\ \A k \in DOMAIN e : Reject[k] = e[k]
      /\ \A k \in DOMAIN scene.reject \ DOMAIN e : Reject[k] = scene.reject[k]
  <2> DEFINE d == scene.reject
  <2> HIDE DEF d
  <2>1. /\ DOMAIN Update(d, e) = DOMAIN d \cup DOMAIN e
        /\ \A k \in DOMAIN e : Update(d, e)[k] = e[k]
        /\ \A k \in DOMAIN d \ DOMAIN e : Update(d, e)[k] = d[k]
    BY UpdateIs
  <2> QED
    BY <2>1, <1>3 DEF d
<1> QED
  BY <1>1, <1>2, <1>4 DEF RejectLists

\* The tools of a request, a list of strings.
LEMMA ToolsAre ==
    ASSUME RequestInv, NEW t \in DOMAIN turns
    PROVE  /\ Tools(turns[t].client) \in Seq(STRING)
           /\ turns[t].verdict = Validate(Reject, turns[t].client)
<1>1. /\ "tools" \in DOMAIN turns[t].client => turns[t].client.tools \in Seq(STRING)
      /\ turns[t].verdict = Validate(Reject, turns[t].client)
  BY DEF RequestInv, Judged
<1>2. <<>> \in Seq(STRING)
  OBVIOUS
<1> QED
  BY <1>1, <1>2, Zenon DEF Tools

(***************************************************************************)
(* "rejects features the gateway can't honor": nothing that a client asked *)
(* for and the configuration rules out is sent, in either mode.            *)
(***************************************************************************)
THEOREM RefusedFeaturesAreNotSent == Spec => []NothingRejectedIsSent
<1>1. ASSUME SceneAssumption, RequestInv, NEW t \in Called
      PROVE  LET sent   == turns[t].sent
                 asked  == DOMAIN sent \ (DOMAIN Params(t) \cup DOMAIN Own \cup {"input", "stream"})
             IN  /\ \A f \in DOMAIN config.fields \cap asked : sent[f] # config.fields[f]
                 /\ \A f \in scene.reject.present_fields \cap asked : sent[f] = "None"
                 /\ "tools" \in asked => \A k \in DOMAIN sent.tools :
                       /\ sent.tools[k] \notin scene.reject.tools
                       /\ config.mode = "strip" /\ scene.reject.strip_mode_allowed_tool_types # {} =>
                             sent.tools[k] \in scene.reject.strip_mode_allowed_tool_types \cup {"None"}
  <2> DEFINE sent == turns[t].sent
             left == Left(t)
             asked == DOMAIN sent \ (DOMAIN Params(t) \cup DOMAIN Own \cup {"input", "stream"})
  <2>1. t \in DOMAIN turns
    BY DEF Called
  <2>2. \A k \in asked : k \in DOMAIN left /\ sent[k] = left[k]
    BY <1>1 DEF RequestInv, NothingElseIsSent
  <2>3. /\ \A f \in DOMAIN Reject.fields \cap DOMAIN left : left[f] # Reject.fields[f]
        /\ \A f \in Reject.present_fields \cap DOMAIN left : left[f] = "None"
        /\ "tools" \in DOMAIN left => \A k \in DOMAIN left.tools : ~ToolHit(Reject, left.tools[k])
    BY <1>1, <2>1, ToolsAre, LeftIsClean DEF Left
  <2> HIDE DEF asked, left, sent
  <2>4. \A f \in DOMAIN config.fields \cap asked : sent[f] # config.fields[f]
    BY <1>1, <2>2, <2>3, RejectIs
  <2>5. \A f \in scene.reject.present_fields \cap asked : sent[f] = "None"
    BY <1>1, <2>2, <2>3, RejectIs
  <2>6. ASSUME "tools" \in asked, NEW k \in DOMAIN sent.tools
        PROVE  /\ sent.tools[k] \notin scene.reject.tools
               /\ config.mode = "strip" /\ scene.reject.strip_mode_allowed_tool_types # {} =>
                     sent.tools[k] \in scene.reject.strip_mode_allowed_tool_types \cup {"None"}
    <3>1. sent.tools = left.tools /\ "tools" \in DOMAIN left
      BY <2>2, <2>6
    <3>2. ~ToolHit(Reject, sent.tools[k])
      BY <2>3, <2>6, <3>1
    <3> QED
      BY <1>1, <3>2, RejectIs DEF ToolHit, Strips
  <2> QED
    BY <2>4, <2>5, <2>6 DEF asked, sent
<1>2. RequestInv => NothingRejectedIsSent
  BY <1>1, SceneAssumption DEF NothingRejectedIsSent
<1> QED
  BY <1>2, RequestsAreAccountedFor, PTL

(***************************************************************************)
(* The report of strip mode and what is left of a request make up what the *)
(* client sent, tool for tool and field for field.                         *)
(***************************************************************************)
THEOREM NothingIsLostInStripping == Spec => []StrippedAddsUp
<1>1. ASSUME RequestInv, NEW t \in DOMAIN turns
      PROVE  LET came    == turns[t].client
                 verdict == turns[t].verdict
                 left    == Left(t)
                 tools   == IF "tools" \in DOMAIN came THEN came.tools ELSE <<>>
                 Place(i) == i - Cardinality({j \in verdict.indices : j < i})
             IN  /\ DOMAIN left \subseteq DOMAIN came
                 /\ \A f \in DOMAIN came \ {"tools"} :
                       f \notin verdict.names => f \in DOMAIN left /\ left[f] = came[f]
                 /\ "tools" \notin verdict.names => \A i \in DOMAIN tools \ verdict.indices :
                       "tools" \in DOMAIN left /\ left.tools[Place(i)] = tools[i]
                 /\ "tools" \in DOMAIN left =>
                       Len(left.tools) = Len(tools) - Cardinality(verdict.indices)
  <2> DEFINE came == turns[t].client
  <2>1. Tools(came) \in Seq(STRING) /\ turns[t].verdict = Validate(Reject, came)
    BY <1>1, ToolsAre
  <2> HIDE DEF came
  <2>2. LET verdict == Validate(Reject, came)
            left    == verdict.request
            Place(i) == i - Cardinality({j \in verdict.indices : j < i})
        IN  /\ DOMAIN left \subseteq DOMAIN came
            /\ \A f \in DOMAIN came \ {"tools"} :
                  f \notin verdict.names => f \in DOMAIN left /\ left[f] = came[f]
            /\ "tools" \notin verdict.names =>
                  \A i \in DOMAIN Tools(came) \ verdict.indices :
                     "tools" \in DOMAIN left /\ left.tools[Place(i)] = Tools(came)[i]
            /\ "tools" \in DOMAIN left =>
                  Len(left.tools) = Len(Tools(came)) - Cardinality(verdict.indices)
    BY <2>1, LeftAddsUp
  <2>3. Left(t) = Validate(Reject, came).request
    BY <2>1 DEF Left
  <2>4. Tools(came) = IF "tools" \in DOMAIN came THEN came.tools ELSE <<>>
    BY DEF Tools
  <2> QED
    BY <2>1, <2>2, <2>3, <2>4, Zenon DEF came
<1>2. RequestInv => StrippedAddsUp
  BY <1>1, Zenon DEF StrippedAddsUp
<1> QED
  BY <1>2, RequestsAreAccountedFor, PTL

===============================================================================
