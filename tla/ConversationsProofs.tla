-------------------------- MODULE ConversationsProofs --------------------------
(***************************************************************************)
(* Gateway implements Conversations, for every value of the constants.     *)
(* The initial state maps to the initial state; a step that hands a        *)
(* request to litellm is Ask, a commit (or the several a crash reveals) is *)
(* Keep, delete_expired is Forget, the end of an answer is Answer, and     *)
(* every other step is a stutter.                                          *)
(***************************************************************************)
EXTENDS GatewayConversations, GatewayProofs

\* The ids of the past turns of what is sent with chain c are c's, turned around.
LEMMA LineOf ==
    ASSUME NEW c \in Seq(Row), NEW t \in Turn
    PROVE  LET line == Line(Front(Append(History(c), t))) IN
           /\ line \in Seq(Ids)
           /\ Len(line) = Len(c)
           /\ \A i \in 1..Len(c) : line[i] = c[Len(c) + 1 - i].id
<1> DEFINE n == Len(c)
           past == Front(Append(History(c), t))
           line == [i \in DOMAIN past |-> past[i].of]
<1>1. /\ History(c) \in Seq(Turn)
      /\ Len(History(c)) = n
      /\ \A i \in 1..n : History(c)[i] = TurnOf(c[n + 1 - i])
      /\ n \in Nat
  BY HistoryType
<1>2. past = History(c)
  BY <1>1 DEF Front
<1>3. DOMAIN past = 1..n
  BY <1>1, <1>2
<1>4. \A i \in 1..n : c[n + 1 - i] \in Row
  BY <1>1
<1>5. \A i \in 1..n : past[i].of = c[n + 1 - i].id /\ past[i].of \in Ids
  <2>1. \A r \in Row : TurnOf(r).of = r.id /\ r.id \in Ids
    BY DEF TurnOf, Row
  <2> QED
    BY <1>1, <1>2, <1>4, <2>1
<1> HIDE DEF past
<1>6. line \in Seq(Ids) /\ Len(line) = n
  BY <1>1, <1>3, <1>5, IsASeq
<1>7. line = Line(Front(Append(History(c), t)))
  BY DEF Line, past
<1> QED
  BY <1>3, <1>5, <1>6, <1>7

\* The rows a finished walk has read are a lineage of the response continued.
LEMMA WalkIsLineage ==
    ASSUME IInv, NEW q \in Ids, Cur(q) \in purged \cup {NoId},
           NEW line \in Seq(Ids), Len(line) = Len(chain[q]),
           \A i \in 1..Len(line) : line[i] = chain[q][Len(line) + 1 - i].id
    PROVE  C!IsLineage(line, Parent(q))
<1> DEFINE n == Len(line)
           kept == {p \in Ids : EverStored(p)}
<1>0. TypeOK /\ Chains /\ Askings /\ chain[q] \in Seq(Row) /\ n \in Nat
  BY DEF IInv, TypeOK
<1>1. \A i \in DOMAIN chain[q] : LET row == chain[q][i] IN
        /\ RecordOf(row.id, row)
        /\ EverStored(row.id)
        /\ row.id \in Ids
        /\ row.id = IF i = 1 THEN Parent(q) ELSE chain[q][i - 1].parent_id
  <2>1. \A r \in Row : r.id \in Ids
    BY DEF Row
  <2>2. \A i \in DOMAIN chain[q] : chain[q][i] \in Row
    BY <1>0
  <2> QED
    BY <1>0, <2>1, <2>2 DEF Chains
<1>2. \A i \in DOMAIN chain[q] :
        [p \in Ids |-> Continued(p)][chain[q][i].id] = chain[q][i].parent_id
  BY <1>0, <1>1 DEF Askings, Continued, RecordOf, Parent
<1>3. line \in Seq(kept)
  <2>1. \A i \in 1..n : n + 1 - i \in DOMAIN chain[q]
    BY <1>0
  <2>2. \A i \in 1..n : line[i] \in kept
    BY <1>1, <2>1
  <2> HIDE DEF kept
  <2> QED
    BY <1>0, <2>2
<1>4. ASSUME line # <<>> PROVE line[n] = Parent(q)
  <2>1. n >= 1 /\ n + 1 - n = 1 /\ 1 \in DOMAIN chain[q]
    BY <1>0, <1>4
  <2> QED
    BY <1>1, <2>1
<1>5. ASSUME NEW i \in 1..n - 1
      PROVE  line[i] = [p \in Ids |-> Continued(p)][line[i + 1]]
  <2> DEFINE j == n - i
  <2>1. /\ i \in 1..n /\ i + 1 \in 1..n /\ j \in 1..n /\ j + 1 # 1
        /\ n + 1 - i = j + 1 /\ n + 1 - (i + 1) = j /\ (j + 1) - 1 = j
    BY <1>0, Countdown
  <2>2. line[i] = chain[q][j + 1].id /\ line[i + 1] = chain[q][j].id
    BY <2>1
  <2>3. j \in DOMAIN chain[q] /\ j + 1 \in DOMAIN chain[q]
    BY <1>0, <2>1
  <2>4. chain[q][j + 1].id = chain[q][j].parent_id
    BY <1>1, <2>1, <2>3
  <2> QED
    BY <1>2, <2>2, <2>3, <2>4
<1>6. (IF line = <<>> THEN Parent(q)
       ELSE [p \in Ids |-> Continued(p)][line[1]]) \in purged \cup {NoId}
  <2>1. CASE line = <<>>
    BY <1>0, <2>1 DEF Cur, Parent
  <2>2. CASE line # <<>>
    <3>1. n >= 1 /\ n + 1 - 1 = n /\ n \in DOMAIN chain[q] /\ chain[q] # <<>>
      BY <1>0, <2>2
    <3>2. line[1] = chain[q][n].id /\ Cur(q) = chain[q][n].parent_id
      BY <3>1 DEF Cur, Last
    <3> QED
      BY <1>2, <2>2, <3>1, <3>2
  <2> QED
    BY <2>1, <2>2
<1> QED
  BY <1>3, <1>4, <1>5, <1>6 DEF C!IsLineage

-----------------------------------------------------------------------------
\* What one step shows of request p from outside.  Answered moves by Reply only.
LEMMA AnsweredStep ==
    ASSUME IInv, [Next]_vars, NEW p \in Ids
    PROVE  /\ Answered(p) => Answered(p)'
           /\ Answered(p)' => Answered(p) \/ Reply(p)
<1>0. Outcomes
  BY DEF IInv
<1>1. ASSUME Answered(p) PROVE Answered(p)'
  <2>1. pc[p] = "done"
    BY <1>0, <1>1 DEF Answered, Outcomes
  <2> QED
    BY <1>1, <2>1, DoneStays DEF Answered, Heard
<1>2. ASSUME Answered(p)', ~Answered(p) PROVE Reply(p)
  <2>1. Saying(p, "200") \/ Saying(p, "DONE")
    BY <1>2, HeardStep DEF Answered
  <2> QED
    BY <2>1 DEF Saying, Refusals
<1> QED
  BY <1>1, <1>2

\* A request once asked goes on showing the same parent, line and promise.
LEMMA ShownStays ==
    ASSUME IInv, [Next]_vars, NEW p \in Ids, Asked(p)
    PROVE  /\ Asked(p)'
           /\ Continued(p)' = Continued(p)
           /\ Carried(p)' = Carried(p)
           /\ req'[p].input.store = req[p].input.store
BY AskedStays DEF Continued, Carried, Past

\* A request is asked by its arrival, as a root, or at the end of its walk.
LEMMA Asking ==
    ASSUME IInv, [Next]_vars, NEW q \in Ids, ~Asked(q), Asked(q)'
    PROVE  /\ sent'[q] = Append(History(chain[q]), Current(q))
           /\ req'[q].prev = Parent(q)
           /\ Cur(q) \in purged \cup {NoId}
           /\ Parent(q) \in {p \in Ids : EverStored(p)} \cup {NoId}
           /\ UNCHANGED <<storeVars, client>>
           /\ \A p \in Ids \ {q} : req'[p] = req[p] /\ sent'[p] = sent[p]
<1>0. TypeOK /\ Untouched /\ Parents /\ Walks
  BY DEF IInv
<1> USE <1>0
<1>1. CASE Receive(q)
  <2>1. sent' # sent
    BY DEF Asked
  <2>2. PICK prev : /\ prev = NoId
                    /\ req'[q].prev = prev
                    /\ sent' = [sent EXCEPT ![q] = <<Current(q)>>]
                    /\ UNCHANGED client
    BY <1>1, <2>1 DEF Receive, TypeOK
  <2>3. Parent(q) = NoId /\ chain[q] = <<>>
    BY <1>1 DEF Receive, At, Untouched
  <2>4. History(chain[q]) = <<>>
    BY <2>3 DEF History
  <2>5. sent'[q] = Append(History(chain[q]), Current(q))
    BY <2>2, <2>4 DEF TypeOK
  <2>6. \A p \in Ids \ {q} : req'[p] = req[p] /\ sent'[p] = sent[p]
    BY <1>1, <2>2 DEF Receive, TypeOK
  <2> QED
    BY <1>1, <2>2, <2>3, <2>5, <2>6 DEF Receive, Cur, Parent
<1>2. CASE Rebuild(q)
  <2>1. sent' # sent
    BY DEF Asked
  <2>2. /\ pc[q] = "rebuild"
        /\ sent' = [sent EXCEPT ![q] = Append(History(chain[q]), Current(q))]
        /\ UNCHANGED <<storeVars, client, req>>
    BY <1>2, <2>1 DEF Rebuild, At
  <2>3. Cur(q) \in purged \cup {NoId} /\ Parent(q) # NoId
    BY <2>2 DEF Walks, Untouched
  <2>4. Parent(q) \in Ids /\ EverStored(Parent(q))
    BY <2>2, <2>3, SMTT(60) DEF Parents, Resolved
  <2> QED
    BY <2>2, <2>3, <2>4 DEF TypeOK, Parent
<1>3. ASSUME ~Receive(q), ~Rebuild(q) PROVE FALSE
  <2>1. sent'[q] = sent[q]
    BY <1>3, Actor DEF Same, Lost, Kept, Handler, Lookup, Walk, CallReturns,
       CallFails, StreamEvent, StreamEnds, StreamFails, ColdPut, Insert,
       DbFails, Reply
  <2> QED
    BY <2>1 DEF Asked
<1> QED
  BY <1>1, <1>2, <1>3

\* Handing a request to litellm is Ask, with the lineage the walk found.
LEMMA AskStep ==
    ASSUME IInv, [Next]_vars, NEW q \in Ids, ~Asked(q), Asked(q)'
    PROVE  C!Ask(q)
<1> DEFINE line == Carried(q)'
<1>0. TypeOK /\ chain[q] \in Seq(Row) /\ Current(q) \in Turn
  BY DEF IInv, TypeOK, Current, Turn
<1>1. /\ sent'[q] = Append(History(chain[q]), Current(q))
      /\ req'[q].prev = Parent(q)
      /\ Cur(q) \in purged \cup {NoId}
      /\ Parent(q) \in {p \in Ids : EverStored(p)} \cup {NoId}
      /\ UNCHANGED <<storeVars, client>>
      /\ \A p \in Ids \ {q} : req'[p] = req[p] /\ sent'[p] = sent[p]
  BY Asking
<1>2. /\ line = Line(Front(Append(History(chain[q]), Current(q))))
      /\ Continued(q)' = Parent(q)
      /\ Carried(q) = Unasked
  BY <1>1 DEF Carried, Continued, Past
<1>3. /\ line \in Seq(Ids)
      /\ Len(line) = Len(chain[q])
      /\ \A i \in 1..Len(line) : line[i] = chain[q][Len(line) + 1 - i].id
  BY <1>0, <1>2, LineOf
<1> HIDE DEF line
<1>4. C!IsLineage(line, Parent(q))
  BY <1>1, <1>3, WalkIsLineage
<1>5. \A p \in Ids \ {q} : /\ Asked(p)' <=> Asked(p)
                           /\ Continued(p)' = Continued(p)
                           /\ Carried(p)' = Carried(p)
                           /\ req'[p].input.store = req[p].input.store
  BY <1>1 DEF Asked, Continued, Carried, Past
<1>6. \A p \in Ids : EverStored(p)' <=> EverStored(p)
  BY <1>1 DEF EverStored, Stored, storeVars
<1>7. \A p \in Ids : Answered(p)' <=> Answered(p)
  BY <1>1 DEF Answered, Heard
<1>8. [p \in Ids |-> Continued(p)]' = [[p \in Ids |-> Continued(p)] EXCEPT ![q] = Parent(q)]
  BY <1>2, <1>5
<1>9. [p \in Ids |-> Carried(p)]' = [[p \in Ids |-> Carried(p)] EXCEPT ![q] = line]
  BY <1>5 DEF line
<1>10. /\ {p \in Ids : EverStored(p)}' = {p \in Ids : EverStored(p)}
       /\ purged' = purged
       /\ {p \in Ids : Answered(p)}' = {p \in Ids : Answered(p)}
  BY <1>1, <1>6, <1>7 DEF storeVars
<1>11. {p \in Ids : Asked(p) /\ req[p].input.store}'
          \in {{p \in Ids : Asked(p) /\ req[p].input.store},
               {p \in Ids : Asked(p) /\ req[p].input.store} \cup {q}}
  BY <1>5
<1> QED
  BY <1>1, <1>2, <1>4, <1>8, <1>9, <1>10, <1>11 DEF C!Ask, line

-----------------------------------------------------------------------------
\* A step that hands over no request shows the same parents, lines and promises.
LEMMA NoAsking ==
    ASSUME IInv, [Next]_vars, \A q \in Ids : Asked(q)' => Asked(q)
    PROVE  /\ UNCHANGED [q \in Ids |-> Continued(q)]
           /\ UNCHANGED [q \in Ids |-> Carried(q)]
           /\ UNCHANGED {q \in Ids : Asked(q) /\ req[q].input.store}
<1>1. \A q \in Ids : /\ Asked(q)' <=> Asked(q)
                     /\ Asked(q) => req'[q].input.store = req[q].input.store
                     /\ Continued(q)' = Continued(q)
                     /\ Carried(q)' = Carried(q)
  BY ShownStays DEF Continued, Carried
<1> QED
  BY <1>1

\* delete_expired is Forget: it takes no response whose parent it leaves.
LEMMA ForgetStep ==
    ASSUME IInv, Purge
    PROVE  C!Forget(Doomed(now))
<1>0. TypeOK /\ Records /\ Parents /\ Askings /\ Lifetimes
  BY DEF IInv
<1>1. [Next]_vars
  BY DEF Next
<1>2. UNCHANGED <<req, sent, client>> /\ purged' = purged \cup Doomed(now)
  BY DEF Purge, DeleteExpired
<1>3. \A q \in Ids : Asked(q)' => Asked(q)
  BY <1>2 DEF Asked
<1>4. \A q \in Ids : EverStored(q)' <=> EverStored(q)
  BY <1>0 DEF Purge, DeleteExpired, EverStored, Stored, Doomed, TypeOK, StoreTypeOK
<1>5. {q \in Ids : EverStored(q)}' = {q \in Ids : EverStored(q)}
  BY <1>4
<1>6. {q \in Ids : Answered(q)}' = {q \in Ids : Answered(q)}
  BY <1>2 DEF Answered, Heard
<1>7. Doomed(now) # {} /\ Doomed(now) \subseteq {q \in Ids : EverStored(q)} \ purged
  BY <1>0 DEF Purge, DeleteExpired, Doomed, EverStored, Askings
<1>8. ASSUME NEW q \in Doomed(now)
      PROVE  [p \in Ids |-> Continued(p)][q] \in Doomed(now) \cup purged \cup {NoId}
  <2>1. q \in Ids /\ Stored(q) /\ rows[q].ttl_at < now
    BY DEF Doomed, Expired
  <2>2. Continued(q) = Parent(q)
    BY <1>0, <2>1 DEF Continued, Parent, Askings, EverStored
  <2>3. CASE Parent(q) # NoId
    <3>1. Parent(q) \in Ids /\ EverStored(Parent(q))
      BY <1>0, <2>1, <2>3 DEF Parents, EverStored
    <3>2. ASSUME Stored(Parent(q)) PROVE Parent(q) \in Doomed(now)
      <4>1. rows[Parent(q)].ttl_at <= rows[q].ttl_at
        BY <1>0, <2>1, <3>1, <3>2 DEF Lifetimes
      <4>2. now \in Nat /\ rows[Parent(q)].ttl_at \in Nat /\ rows[q].ttl_at \in Nat
        BY <1>0, <2>1, <3>1, <3>2 DEF TypeOK, Records, RecordOf, Row
      <4>3. rows[Parent(q)].ttl_at < now
        BY <2>1, <4>1, <4>2
      <4> QED
        BY <3>1, <3>2, <4>3 DEF Doomed, Expired
    <3> QED
      BY <2>1, <2>2, <3>1, <3>2 DEF EverStored
  <2> QED
    BY <2>1, <2>2, <2>3
<1> QED
  BY <1>1, <1>2, <1>3, <1>5, <1>6, <1>7, <1>8, NoAsking DEF C!Forget

\* The end of a whole answer is Answer: what was promised is kept by then.
LEMMA AnswerStep ==
    ASSUME IInv, IInv', [Next]_vars, NEW q \in Ids, Answered(q)', ~Answered(q)
    PROVE  C!Answer(q)
<1>0. TypeOK /\ Askings /\ Histories /\ Outcomes'
  BY DEF IInv
<1>1. Reply(q)
  BY AnsweredStep
<1>2. Asked(q) /\ UNCHANGED <<storeVars, req, sent>>
  BY <1>0, <1>1 DEF Reply, At, Askings
<1>3. \A p \in Ids : Asked(p)' => Asked(p)
  BY <1>2 DEF Asked
<1>4. \A p \in Ids \ {q} : Answered(p)' <=> Answered(p)
  BY <1>0, <1>1 DEF Reply, Emit, Answered, Heard, TypeOK
<1>5. {p \in Ids : Answered(p)}' = {p \in Ids : Answered(p)} \cup {q}
  BY <1>4
<1>6. \A p \in Ids : EverStored(p)' <=> EverStored(p)
  BY <1>2 DEF EverStored, Stored, storeVars
<1>7. req[q].input.store => EverStored(q)
  BY <1>0, <1>2, <1>6 DEF Outcomes
<1>8. Carried(q) # Unasked
  <2>1. sent[q] = Append(History(chain[q]), Current(q)) /\ chain[q] \in Seq(Row)
    BY <1>0, <1>2 DEF Histories, TypeOK
  <2>2. Current(q) \in Turn
    BY DEF Current, Turn
  <2>3. Carried(q) \in Seq(Ids)
    BY <1>2, <2>1, <2>2, LineOf DEF Carried, Past
  <2> QED
    BY <2>3, UnaskedAssumption
<1>9. {p \in Ids : EverStored(p)}' = {p \in Ids : EverStored(p)} /\ purged' = purged
  BY <1>2, <1>6 DEF storeVars
<1> QED
  BY <1>3, <1>5, <1>7, <1>8, <1>9, NoAsking DEF C!Answer

\* Commits, one or, revealed by a crash, several, are Keep; the rest is a stutter.
LEMMA KeepStep ==
    ASSUME IInv, [Next]_vars, ~Purge,
           \A q \in Ids : Asked(q)' => Asked(q),
           \A q \in Ids : Answered(q)' => Answered(q)
    PROVE  \/ \E S \in SUBSET Ids : C!Keep(S)
           \/ UNCHANGED C!cvars
<1> DEFINE S == {q \in Ids : EverStored(q)' /\ ~EverStored(q)}
           kept == {q \in Ids : EverStored(q)}
<1>0. Records /\ Askings
  BY SMTT(60) DEF IInv
<1>1. purged' = purged
  BY DEF Next, Handler, Receive, Lookup, Walk, Rebuild, CallReturns, CallFails,
     StreamEvent, StreamEnds, StreamFails, ColdPut, Insert, DbFails, Reply,
     Disconnect, InsertInterrupted, InsertRow, Crash, Restart, Tick, vars, storeVars
<1>2. \A q \in Ids : Answered(q)' <=> Answered(q)
  BY AnsweredStep
<1>3. {q \in Ids : Answered(q)}' = {q \in Ids : Answered(q)}
  BY <1>2
<1>4. \A q \in Ids : EverStored(q) => EverStored(q)'
  BY Growth
<1>5. kept' = kept \cup S
  BY <1>4
<1>6. \A q \in S : Asked(q) /\ req[q].input.store
  BY <1>0, Growth DEF Committed, Records, RecordOf, Askings
<1>7. S \subseteq {q \in Ids : Asked(q) /\ req[q].input.store} \ kept
  BY <1>6
<1> HIDE DEF S
<1>8. CASE S = {}
  BY <1>1, <1>3, <1>5, <1>8, NoAsking DEF C!cvars
<1>9. CASE S # {}
  BY <1>1, <1>3, <1>5, <1>7, <1>9, NoAsking DEF C!Keep
<1>10. S \in SUBSET Ids
  BY DEF S
<1> QED
  BY <1>8, <1>9, <1>10, SMTT(60)

\* The process starts with no response asked, kept or answered.
LEMMA InitImplements == Init => C!CInit
<1> SUFFICES ASSUME Init PROVE C!CInit
  OBVIOUS
<1>1. \A q \in Ids : sent[q] = <<>> /\ client[q] = <<>> /\ rows[q] = NoRow
  BY DEF Init, StoreInit
<1>2. purged = {}
  BY DEF Init, StoreInit
<1>3. \A c : c = <<>> => DOMAIN c = {}
  OBVIOUS
<1>4. \A q \in Ids : ~Asked(q) /\ ~Answered(q) /\ ~EverStored(q)
  BY <1>1, <1>2, <1>3 DEF Asked, Answered, Heard, EverStored, Stored
<1> QED
  BY <1>2, <1>4 DEF C!CInit, Continued, Carried

\* Every step of the gateway is one of Conversations, or none.
LEMMA StepImplements == IInv /\ IInv' /\ [Next]_vars => [C!CNext]_(C!cvars)
<1> SUFFICES ASSUME IInv, IInv', [Next]_vars
             PROVE  C!CNext \/ UNCHANGED C!cvars
  OBVIOUS
<1>1. CASE \E q \in Ids : ~Asked(q) /\ Asked(q)'
  BY <1>1, AskStep DEF C!CNext
<1>2. CASE Purge
  <2>1. Doomed(now) \in SUBSET Ids
    BY DEF Doomed
  <2> QED
    BY <1>2, <2>1, ForgetStep DEF C!CNext
<1>3. CASE \E q \in Ids : ~Answered(q) /\ Answered(q)'
  BY <1>3, AnswerStep DEF C!CNext
<1>4. CASE /\ ~Purge
           /\ \A q \in Ids : Asked(q)' => Asked(q)
           /\ \A q \in Ids : Answered(q)' => Answered(q)
  BY <1>4, KeepStep DEF C!CNext
<1> QED
  BY <1>1, <1>2, <1>3, <1>4

(***************************************************************************)
(* Gateway implements Conversations (ImplementsConversations): for its     *)
(* clients a walk spread over other handlers' commits and over purges is   *)
(* a lineage taken at once, and no answer precedes its commit.             *)
(***************************************************************************)
THEOREM Refinement == Spec => ImplementsConversations
BY Inductive, InitImplements, StepImplements, PTL
   DEF Spec, ImplementsConversations, C!CSpec

=============================================================================
