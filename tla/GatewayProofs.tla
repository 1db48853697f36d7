----------------------------- MODULE GatewayProofs -----------------------------
(***************************************************************************)
(* Gateway's safety properties hold for every set of ids, kinds of         *)
(* request, faults, backend and ttl.  The invariant IInv is proved         *)
(* inductive, one part at a time: first what a step may do to the share of *)
(* one request (Actor, Frame, Stage) and to the table (Commit, Growth),    *)
(* then that facts about settled requests survive the steps of others,     *)
(* then each part of IInv.  The properties follow from IInv, and at the    *)
(* end what the refuted sentences of the documents need in order to hold.  *)
(***************************************************************************)
EXTENDS GatewayInvariant, SequenceTheorems, TLAPS

\* What a chain of rows contributes: one turn per row, the last row read first.
LEMMA HistoryType ==
    ASSUME NEW c \in Seq(Row)
    PROVE  /\ History(c) \in Seq(Turn)
           /\ Len(History(c)) = Len(c)
           /\ \A i \in 1..Len(c) : History(c)[i] = TurnOf(c[Len(c) + 1 - i])
<1>1. \A i \in 1..Len(c) : c[Len(c) + 1 - i] \in Row
  OBVIOUS
<1>2. \A r \in Row : TurnOf(r) \in Turn
  BY DEF TurnOf, Turn, Row
<1>3. Len(c) \in Nat
  OBVIOUS
<1>4. History(c) \in Seq(Turn)
  BY <1>1, <1>2, <1>3, IsASeq DEF History
<1>5. QED
  BY <1>3, <1>4 DEF History

-----------------------------------------------------------------------------
\* The state build_app starts from is well typed.
LEMMA TypeInit == Init => TypeOK
<1> SUFFICES ASSUME Init PROVE TypeOK
  OBVIOUS
<1> USE StoreAssumption, GatewayAssumption
<1>0. Inputs # {}
  OBVIOUS
<1>1. Blank \in Request
  BY <1>0 DEF Blank, Request
<1> QED
  BY <1>1 DEF Init, StoreInit, ColdInit, TypeOK, StoreTypeOK, ColdTypeOK, Stages

\* One operation on pc, client, chain or the table, kept apart from the others.
LEMMA GotoType ==
    ASSUME TypeOK, NEW q \in Ids, NEW stage \in Stages, Goto(q, stage)
    PROVE  pc' \in [Ids -> Stages]
BY DEF TypeOK, Goto

\* What the client has received grows by a signal.
LEMMA EmitType ==
    ASSUME TypeOK, NEW q \in Ids, NEW s \in Signals, Emit(q, s)
    PROVE  client' \in [Ids -> Seq(Signals)]
<1>1. Append(client[q], s) \in Seq(Signals)
  BY DEF TypeOK
<1> QED
  BY <1>1 DEF TypeOK, Emit

\* A request refused before its stream began moves on and says why.
LEMMA RefuseType ==
    ASSUME TypeOK, NEW q \in Ids, NEW s \in Signals, Refuse(q, s)
    PROVE  pc' \in [Ids -> Stages] /\ client' \in [Ids -> Seq(Signals)]
<1>1. "done" \in Stages
  BY DEF Stages
<1> QED
  BY <1>1, GotoType, EmitType DEF Refuse

\* A committed record is a row.
LEMMA InsertRowType ==
    ASSUME StoreTypeOK, NEW r \in Row, InsertRow(r)
    PROVE  StoreTypeOK'
<1>1. r.id \in Ids
  BY DEF Row
<1>2. rows' \in [Ids -> Row \cup {NoRow}]
  BY <1>1 DEF StoreTypeOK, InsertRow
<1> QED
  BY <1>2 DEF StoreTypeOK, InsertRow

\* What request q stores is a row, whatever its parent's row was.
LEMMA NewRecordType ==
    ASSUME TypeOK, NEW q \in Ids, req[q].prev \in Ids \cup {NoId}
    PROVE  NewRecord(q) \in Row
<1>1. SessionId(q) \in Ids
  BY DEF TypeOK, SessionId
<1>2. LabelOf(q) \in Providers
  BY GatewayAssumption DEF TypeOK, Request, InputType, LabelOf
<1>3. now \in Nat /\ now + TTL \in Nat
  BY StoreAssumption DEF TypeOK
<1> QED
  BY <1>1, <1>2, <1>3 DEF NewRecord, Row

\* A record stays a row when its payload is offloaded.
LEMMA OffloadedType ==
    ASSUME NEW r \in Row, NEW k \in Ids
    PROVE  Offloaded(r, k) \in Row
BY DEF Offloaded, Row

\* The rows a walk collects.
LEMMA AppendType ==
    ASSUME NEW S, NEW c \in Seq(S), NEW e \in S
    PROVE  Append(c, e) \in Seq(S) /\ Append(c, e) # <<>>
<1>1. Append(c, e) \in Seq(S) /\ Len(Append(c, e)) = Len(c) + 1 /\ Len(c) \in Nat
  OBVIOUS
<1>2. Len(<<>>) = 0
  OBVIOUS
<1> QED
  BY <1>1, <1>2

\* Every step keeps the types; what a handler stores is a row because IInv says
\* what its record was made of.
LEMMA TypeStep == IInv /\ [Next]_vars => TypeOK'
<1> SUFFICES ASSUME IInv, [Next]_vars PROVE TypeOK'
  OBVIOUS
<1>0. TypeOK /\ Records /\ Parents /\ Walks
  BY DEF IInv
<1> USE <1>0
<1> USE DEF At
<1>a. {"idle", "lookup", "walk", "rebuild", "llm", "put", "insert",
       "reply", "done", "gone"} \subseteq Stages
  BY DEF Stages
<1>b. {"created", "completed", "unsuccessful", "failed", "DONE", "200", "404",
       "409", "410", "422", "500", "503", "provider_error"} \subseteq Signals
  BY DEF Signals
<1>c. \A i \in Ids : Stored(i) => rows[i] \in Row
  BY DEF TypeOK, StoreTypeOK, Stored
<1>d. \A q \in Ids : pc[q] \in {"put", "insert"} => rec[q] \in Row /\ rec[q].id = q
  BY DEF Records, RecordOf
<1>1. ASSUME NEW q \in Ids, Receive(q) PROVE TypeOK'
  <2>1. req' \in [Ids -> Request]
    <3>1. PICK inp \in Inputs, prev \in Ids \cup {NoId, UnknownId} :
             req' = [req EXCEPT ![q] = [input |-> inp, prev |-> prev,
                                        serial |-> minted]]
      BY <1>1 DEF Receive
    <3>2. [input |-> inp, prev |-> prev, serial |-> minted] \in Request
      BY DEF TypeOK, Request
    <3> QED
      BY <3>1, <3>2 DEF TypeOK
  <2>2. pc' \in [Ids -> Stages] /\ client' \in [Ids -> Seq(Signals)]
    BY <1>1, <1>a, <1>b, GotoType, RefuseType DEF Receive, TypeOK
  <2>3. <<Current(q)>> \in Seq(Turn)
    BY DEF Current, Turn
  <2>4. sent' \in {sent, [sent EXCEPT ![q] = <<Current(q)>>]}
    BY <1>1 DEF Receive
  <2>5. sent' \in [Ids -> Seq(Turn)]
    BY <2>3, <2>4 DEF TypeOK
  <2>6. minted' \in Nat
    BY <1>1 DEF Receive, TypeOK
  <2> QED
    BY <1>1, <2>1, <2>2, <2>5, <2>6 DEF Receive, TypeOK, storeVars, StoreTypeOK, ColdTypeOK
<1>2. ASSUME NEW q \in Ids, Lookup(q) PROVE TypeOK'
  <2> DEFINE parent == GetById(req[q].prev)
  <2>1. parent # NoRow => parent \in Row
    BY <1>c DEF GetById, Stored
  <2>2. parent # NoRow => parent.session_id \in Ids
    BY <2>1 DEF Row
  <2>3. session' \in [Ids -> Ids \cup {NoId}]
    BY <1>2, <2>2 DEF Lookup, TypeOK
  <2>4. pc' \in [Ids -> Stages] /\ client' \in [Ids -> Seq(Signals)]
    BY <1>2, <1>a, <1>b, GotoType, RefuseType DEF Lookup, TypeOK
  <2> QED
    BY <1>2, <2>3, <2>4 DEF Lookup, TypeOK, storeVars, StoreTypeOK, ColdTypeOK
<1>3. ASSUME NEW q \in Ids, Walk(q) PROVE TypeOK'
  <2> DEFINE row == GetById(Cur(q))
  <2>1. row # NoRow => row \in Row
    BY <1>c DEF GetById, Stored
  <2>2. row # NoRow => Append(chain[q], row) \in Seq(Row)
    BY <2>1, AppendType DEF TypeOK
  <2>3. chain' \in [Ids -> Seq(Row)]
    BY <1>3, <2>2 DEF Walk, TypeOK
  <2>4. pc' \in [Ids -> Stages]
    BY <1>3, <1>a, GotoType DEF Walk
  <2> QED
    BY <1>3, <2>3, <2>4 DEF Walk, TypeOK, storeVars, StoreTypeOK, ColdTypeOK
<1>4. ASSUME NEW q \in Ids, Rebuild(q) PROVE TypeOK'
  <2>1. Append(History(chain[q]), Current(q)) \in Seq(Turn)
    <3>1. Current(q) \in Turn
      BY DEF Current, Turn
    <3> QED
      BY <3>1, HistoryType, AppendType DEF TypeOK
  <2>2. sent' \in [Ids -> Seq(Turn)]
    BY <1>4, <2>1 DEF Rebuild, TypeOK
  <2>3. pc' \in [Ids -> Stages] /\ client' \in [Ids -> Seq(Signals)]
    BY <1>4, <1>a, <1>b, GotoType, RefuseType DEF Rebuild, TypeOK
  <2> QED
    BY <1>4, <2>2, <2>3 DEF Rebuild, TypeOK, storeVars, StoreTypeOK, ColdTypeOK
<1>5. ASSUME NEW q \in Ids, CallReturns(q) \/ StreamEnds(q) PROVE TypeOK'
  <2>1. req[q].prev \in Ids \cup {NoId}
    BY <1>5 DEF CallReturns, StreamEnds, Parents, Resolved, Parent
  <2>2. NewRecord(q) \in Row
    BY <2>1, NewRecordType
  <2>3. AfterLLM(q) \in Stages
    BY DEF AfterLLM, Stages
  <2>4. pc' \in [Ids -> Stages] /\ rec' \in [Ids -> Row \cup {NoRow}]
    BY <1>5, <2>2, <2>3, GotoType DEF CallReturns, StreamEnds, Record, TypeOK
  <2> QED
    BY <1>5, <2>4 DEF CallReturns, StreamEnds, TypeOK, storeVars, StoreTypeOK, ColdTypeOK
<1>6. ASSUME NEW q \in Ids, CallFails(q) \/ StreamFails(q) \/ Reply(q) PROVE TypeOK'
  <2>1. pc' \in [Ids -> Stages] /\ client' \in [Ids -> Seq(Signals)]
    <3>1. CASE CallFails(q)
      BY <3>1, <1>a, <1>b, RefuseType DEF CallFails
    <3>2. CASE StreamFails(q)
      BY <3>2, <1>a, <1>b, GotoType, EmitType DEF StreamFails
    <3>3. CASE Reply(q)
      BY <3>3, <1>a, <1>b, GotoType, EmitType DEF Reply
    <3> QED
      BY <1>6, <3>1, <3>2, <3>3
  <2> QED
    BY <1>6, <2>1 DEF CallFails, StreamFails, Reply, TypeOK, storeVars, StoreTypeOK, ColdTypeOK
<1>7. ASSUME NEW q \in Ids, StreamEvent(q) PROVE TypeOK'
  <2>1. client' \in [Ids -> Seq(Signals)]
    BY <1>7, <1>b, EmitType DEF StreamEvent
  <2> QED
    BY <1>7, <2>1 DEF StreamEvent, TypeOK, storeVars, StoreTypeOK, ColdTypeOK
<1>8. ASSUME NEW q \in Ids, ColdPut(q) PROVE TypeOK'
  <2>1. objects' \subseteq ColdKeys
    BY <1>8, GatewayAssumption DEF ColdPut, PutObject, PutInterrupted, TypeOK, ColdTypeOK
  <2>2. Offloaded(rec[q], q) \in Row
    <3>1. rec[q] \in Row
      BY <1>8, <1>d DEF ColdPut, At
    <3> QED
      BY <3>1, OffloadedType
  <2>3. rec' \in [Ids -> Row \cup {NoRow}] /\ pc' \in [Ids -> Stages]
    BY <1>8, <2>2, <1>a, GotoType DEF ColdPut, TypeOK
  <2> QED
    BY <1>8, <2>1, <2>3 DEF ColdPut, TypeOK, storeVars, StoreTypeOK, ColdTypeOK
<1>9. ASSUME NEW q \in Ids, Insert(q) PROVE TypeOK'
  <2>1. StoreTypeOK'
    BY <1>9, <1>d, InsertRowType DEF Insert, TypeOK
  <2>2. pc' \in [Ids -> Stages]
    BY <1>9, <1>a, GotoType DEF Insert
  <2> QED
    BY <1>9, <2>1, <2>2 DEF Insert, TypeOK, ColdTypeOK
<1>10. ASSUME NEW q \in Ids, DbFails(q) PROVE TypeOK'
  <2>1. StoreTypeOK'
    BY <1>10, <1>d, InsertRowType DEF DbFails, InsertInterrupted, TypeOK, StoreTypeOK, storeVars
  <2>2. pc' \in [Ids -> Stages] /\ client' \in [Ids -> Seq(Signals)]
    BY <1>10, <1>a, <1>b, GotoType, RefuseType DEF DbFails, TypeOK
  <2> QED
    BY <1>10, <2>1, <2>2 DEF DbFails, TypeOK, ColdTypeOK
<1>11. ASSUME NEW q \in Ids, Disconnect(q) PROVE TypeOK'
  <2>1. StoreTypeOK'
    BY <1>11, <1>d, InsertRowType DEF Disconnect, InsertInterrupted, TypeOK, StoreTypeOK, storeVars
  <2>2. ColdTypeOK'
    BY <1>11, GatewayAssumption DEF Disconnect, PutInterrupted, TypeOK, ColdTypeOK
  <2>3. pc' \in [Ids -> Stages]
    BY <1>11, <1>a, GotoType DEF Disconnect
  <2> QED
    BY <1>11, <2>1, <2>2, <2>3 DEF Disconnect, TypeOK
<1>12. ASSUME Crash PROVE TypeOK'
  <2>1. rows' \in [Ids -> Row \cup {NoRow}]
    BY <1>12, <1>d DEF Crash, TypeOK, StoreTypeOK
  <2>2. objects' \subseteq ColdKeys
    BY <1>12, GatewayAssumption DEF Crash, ColdCrash, TypeOK, ColdTypeOK
  <2>3. pc' \in [Ids -> Stages]
    BY <1>12, <1>a DEF Crash, TypeOK
  <2> QED
    BY <1>12, <2>1, <2>2, <2>3 DEF Crash, TypeOK, StoreTypeOK, ColdTypeOK
<1>13. ASSUME Restart \/ Tick \/ UNCHANGED vars PROVE TypeOK'
  <2>1. CASE Restart
    BY <2>1 DEF Restart, TypeOK, storeVars, StoreTypeOK, ColdTypeOK
  <2>2. CASE Tick
    BY <2>2 DEF Tick, TypeOK, storeVars, StoreTypeOK, ColdTypeOK
  <2>3. CASE UNCHANGED vars
    BY <2>3 DEF vars, TypeOK, StoreTypeOK, ColdTypeOK
  <2> QED
    BY <1>13, <2>1, <2>2, <2>3
<1>14. ASSUME Purge PROVE TypeOK'
  BY <1>14 DEF Purge, DeleteExpired, Doomed, TypeOK, StoreTypeOK, ColdTypeOK
<1> QED
  BY <1>1, <1>2, <1>3, <1>4, <1>5, <1>6, <1>7, <1>8, <1>9, <1>10, <1>11, <1>12,
     <1>13, <1>14 DEF Next, Handler

-----------------------------------------------------------------------------
(***************************************************************************)
(* What one step does to request p.  Everything a handler owns is indexed  *)
(* by its request, so a step either leaves p's share alone, loses p's      *)
(* connection, or is a step of p.                                          *)
(***************************************************************************)
Kept(p) ==
    /\ req'[p] = req[p]
    /\ session'[p] = session[p]
    /\ chain'[p] = chain[p]
    /\ sent'[p] = sent[p]
    /\ rec'[p] = rec[p]
    /\ client'[p] = client[p]

Same(p) == pc'[p] = pc[p] /\ Kept(p)
Lost(p) == pc[p] \in InFlight /\ pc'[p] = "gone" /\ Kept(p)

\* A step leaves p's share alone, loses its connection, or is p's own.
LEMMA Actor ==
    ASSUME TypeOK, [Next]_vars, NEW p \in Ids
    PROVE  Same(p) \/ Lost(p) \/ Receive(p) \/ Handler(p)
<1> USE DEF TypeOK
<1>1. ASSUME NEW q \in Ids, q # p, Receive(q) PROVE Same(p)
  BY <1>1 DEF Receive, Goto, Emit, Refuse, Same, Kept
<1>2. ASSUME NEW q \in Ids, q # p, Handler(q) PROVE Same(p)
  <2>1. CASE Lookup(q)
    BY <1>2, <2>1 DEF Lookup, Goto, Emit, Refuse, Same, Kept
  <2>2. CASE Walk(q)
    BY <1>2, <2>2 DEF Walk, Goto, Same, Kept
  <2>3. CASE Rebuild(q)
    BY <1>2, <2>3 DEF Rebuild, Goto, Emit, Refuse, Same, Kept
  <2>4. CASE CallReturns(q) \/ StreamEnds(q)
    BY <1>2, <2>4 DEF CallReturns, StreamEnds, Record, Goto, Same, Kept
  <2>5. CASE CallFails(q) \/ StreamFails(q)
    BY <1>2, <2>5 DEF CallFails, StreamFails, Goto, Emit, Refuse, Same, Kept
  <2>6. CASE StreamEvent(q) \/ Reply(q)
    BY <1>2, <2>6 DEF StreamEvent, Reply, Goto, Emit, Same, Kept
  <2>7. CASE ColdPut(q) \/ Insert(q)
    BY <1>2, <2>7 DEF ColdPut, Insert, Goto, Same, Kept
  <2>8. CASE DbFails(q)
    BY <1>2, <2>8 DEF DbFails, Goto, Emit, Refuse, Same, Kept
  <2> QED
    BY <1>2, <2>1, <2>2, <2>3, <2>4, <2>5, <2>6, <2>7, <2>8 DEF Handler
<1>3. ASSUME NEW q \in Ids, Disconnect(q) PROVE Same(p) \/ Lost(p)
  BY <1>3 DEF Disconnect, Goto, Same, Lost, Kept, InFlight
<1>4. ASSUME Crash PROVE Same(p) \/ Lost(p)
  BY <1>4 DEF Crash, Same, Lost, Kept
<1>5. ASSUME Restart \/ Tick \/ Purge PROVE Same(p)
  BY <1>5 DEF Restart, Tick, Purge, Same, Kept
<1>6. ASSUME UNCHANGED vars PROVE Same(p)
  BY <1>6 DEF vars, Same, Kept
<1> QED
  BY <1>1, <1>2, <1>3, <1>4, <1>5, <1>6 DEF Next

(***************************************************************************)
(* The stages in which a handler assigns each of its variables.            *)
(***************************************************************************)
LEMMA Frame ==
    ASSUME TypeOK, [Next]_vars, NEW p \in Ids
    PROVE  /\ pc[p] # "idle" => req'[p] = req[p]
           /\ pc[p] # "lookup" => session'[p] = session[p]
           /\ pc[p] # "walk" => chain'[p] = chain[p]
           /\ pc[p] \notin {"idle", "rebuild"} => sent'[p] = sent[p]
           /\ pc[p] \notin {"llm", "put"} => rec'[p] = rec[p]
<1> USE DEF TypeOK, At
<1>1. CASE Same(p) \/ Lost(p)
  BY <1>1 DEF Same, Lost, Kept
<1>2. CASE Receive(p)
  BY <1>2 DEF Receive
<1>3. CASE Lookup(p) \/ Walk(p) \/ Rebuild(p)
  BY <1>3 DEF Lookup, Walk, Rebuild
<1>4. CASE CallReturns(p) \/ StreamEnds(p) \/ StreamEvent(p)
  BY <1>4 DEF CallReturns, StreamEnds, StreamEvent
<1>5. CASE CallFails(p) \/ StreamFails(p) \/ Reply(p)
  BY <1>5 DEF CallFails, StreamFails, Reply
<1>6. CASE ColdPut(p) \/ Insert(p) \/ DbFails(p)
  BY <1>6 DEF ColdPut, Insert, DbFails
<1> QED
  BY <1>1, <1>2, <1>3, <1>4, <1>5, <1>6, Actor DEF Handler

(***************************************************************************)
(* A handler never goes back to an earlier stage.                          *)
(***************************************************************************)
LEMMA Stage ==
    ASSUME TypeOK, [Next]_vars, NEW p \in Ids
    PROVE  /\ pc'[p] = "idle" => pc[p] = "idle"
           /\ pc'[p] = "lookup" => pc[p] \in {"idle", "lookup"}
           /\ pc'[p] \in {"walk", "rebuild"} => pc[p] \in {"lookup", "walk", "rebuild"}
           /\ pc'[p] \in Resolved => pc[p] \in Resolved \cup {"idle", "lookup"}
           /\ pc[p] \in Late => pc'[p] \in Late
<1> USE DEF TypeOK, At, Goto, Refuse, Late, Resolved, AfterLLM
<1>1. CASE Same(p)
  BY <1>1 DEF Same
<1>2. CASE Lost(p)
  BY <1>2 DEF Lost
<1>3. CASE Receive(p)
  BY <1>3 DEF Receive
<1>4. CASE Lookup(p) \/ Walk(p) \/ Rebuild(p)
  BY <1>4 DEF Lookup, Walk, Rebuild
<1>5. CASE CallReturns(p) \/ StreamEnds(p) \/ StreamEvent(p)
  BY <1>5 DEF CallReturns, StreamEnds, StreamEvent, Record
<1>6. CASE CallFails(p) \/ StreamFails(p) \/ Reply(p)
  BY <1>6 DEF CallFails, StreamFails, Reply
<1>7. CASE ColdPut(p) \/ Insert(p) \/ DbFails(p)
  BY <1>7 DEF ColdPut, Insert, DbFails
<1> QED
  BY <1>1, <1>2, <1>3, <1>4, <1>5, <1>6, <1>7, Actor DEF Handler

\* Nothing runs for a request that has ended.
LEMMA NoHandler ==
    ASSUME TypeOK, [Next]_vars, NEW p \in Ids, pc[p] \in {"done", "gone"}
    PROVE  Same(p)
<1>1. ~Receive(p)
  BY DEF Receive, At
<1>2. ~Handler(p)
  BY DEF Handler, At, Lookup, Walk, Rebuild, CallReturns, CallFails,
     StreamEvent, StreamEnds, StreamFails, ColdPut, Insert, DbFails, Reply
<1>3. ~Lost(p)
  BY DEF Lost, InFlight
<1> QED
  BY <1>1, <1>2, <1>3, Actor

(***************************************************************************)
(* What one step does to the table: a row appears only by the commit of    *)
(* its own handler, and goes only by delete_expired.                       *)
(***************************************************************************)
Committed(p) ==
    /\ pc[p] = "insert"
    /\ pc'[p] \in Late
    /\ rows'[p] = rec[p]
    /\ purged' = purged

\* A step leaves row p and the purged ids alone, commits p, or is delete_expired.
LEMMA Commit ==
    ASSUME IInv, [Next]_vars, NEW p \in Ids
    PROVE  \/ rows'[p] = rows[p] /\ purged' = purged
           \/ Committed(p)
           \/ /\ purged' = purged \cup Doomed(now)
              /\ rows'[p] = IF p \in Doomed(now) THEN NoRow ELSE rows[p]
              /\ UNCHANGED <<pc, req, session, chain, sent, rec, client, now, minted>>
<1> USE DEF TypeOK, StoreTypeOK, At, storeVars
<1>0. TypeOK
  BY DEF IInv
<1>1. ASSUME NEW q \in Ids, pc[q] = "insert", pc'[q] \in Late, InsertRow(rec[q])
      PROVE  (rows'[p] = rows[p] /\ purged' = purged) \/ Committed(p)
  <2>1. rec[q].id = q
    BY <1>1 DEF IInv, Records, RecordOf
  <2> QED
    BY <1>0, <1>1, <2>1 DEF InsertRow, Committed
<1>2. ASSUME NEW q \in Ids, Insert(q) \/ DbFails(q) \/ Disconnect(q)
      PROVE  (rows'[p] = rows[p] /\ purged' = purged) \/ Committed(p)
  <2>1. pc[q] = "insert" => pc'[q] \in Late
    BY <1>0, <1>2 DEF Insert, DbFails, Disconnect, Goto, Refuse, Late
  <2>2. \/ rows' = rows /\ purged' = purged
        \/ pc[q] = "insert" /\ InsertRow(rec[q])
    BY <1>2 DEF Insert, DbFails, Disconnect, InsertInterrupted
  <2> QED
    BY <1>1, <2>1, <2>2
<1>3. ASSUME NEW q \in Ids,
             Receive(q) \/ Lookup(q) \/ Walk(q) \/ Rebuild(q) \/ CallReturns(q)
             \/ CallFails(q) \/ StreamEvent(q) \/ StreamEnds(q)
             \/ StreamFails(q) \/ ColdPut(q) \/ Reply(q)
      PROVE  rows' = rows /\ purged' = purged
  BY <1>3 DEF Receive, Lookup, Walk, Rebuild, CallReturns, CallFails,
     StreamEvent, StreamEnds, StreamFails, ColdPut, Reply
<1>4. ASSUME Crash
      PROVE  (rows'[p] = rows[p] /\ purged' = purged) \/ Committed(p)
  BY <1>0, <1>4 DEF Crash, Committed, Late, InFlight
<1>5. ASSUME Restart \/ Tick \/ UNCHANGED vars
      PROVE  rows' = rows /\ purged' = purged
  BY <1>5 DEF Restart, Tick, vars
<1>6. CASE Purge
  BY <1>6 DEF Purge, DeleteExpired
<1> QED
  BY <1>2, <1>3, <1>4, <1>5, <1>6 DEF Next, Handler

\* Once stored, a response stays so or is purged; it becomes stored by a commit.
LEMMA Growth ==
    ASSUME IInv, [Next]_vars, NEW p \in Ids
    PROVE  /\ EverStored(p) => EverStored(p)'
           /\ EverStored(p)' => EverStored(p) \/ Committed(p)
           /\ Stored(p)' => Committed(p) \/ rows'[p] = rows[p]
           /\ purged \subseteq purged'
<1>1. TypeOK
  BY DEF IInv
<1>2. ~Stored(p) \/ ~Committed(p)
  BY DEF IInv, Records, EverStored, Committed, Late
<1> QED
  BY <1>1, <1>2, Commit DEF EverStored, Stored, Doomed, TypeOK, StoreTypeOK, Committed

\* What a handler past resolve() knows of its request no longer changes.
LEMMA Settled ==
    ASSUME IInv, [Next]_vars, NEW p \in Ids, pc[p] \in Resolved \cup Late
    PROVE  /\ req'[p] = req[p]
           /\ Parent(p)' = Parent(p)
           /\ session'[p] = session[p]
           /\ SessionId(p)' = SessionId(p)
           /\ LabelOf(p)' = LabelOf(p)
           /\ pc'[p] \in Resolved \cup Late
<1>1. TypeOK /\ TypeOK'
  BY TypeStep DEF IInv
<1>2. pc'[p] \in Resolved \cup Late
  BY <1>1, Stage DEF Resolved, Late, TypeOK, Stages
<1>3. req'[p] = req[p] /\ session'[p] = session[p]
  BY <1>1, Frame DEF Resolved, Late
<1> QED
  BY <1>2, <1>3 DEF Parent, SessionId, LabelOf

\* A response is in the table only once its handler is done with record().
LEMMA StoredIsLate ==
    ASSUME IInv, NEW p \in Ids, EverStored(p)
    PROVE  pc[p] \in Late /\ req[p].input.store
BY DEF IInv, Records, Late

-----------------------------------------------------------------------------
\* A handler does not touch session, chain or sent before the stage that sets it.
LEMMA UntouchedStep == IInv /\ [Next]_vars => Untouched'
<1> SUFFICES ASSUME IInv, [Next]_vars, NEW p \in Ids
             PROVE  /\ pc'[p] = "idle" => client'[p] = <<>> /\ req'[p].prev = NoId
                    /\ pc'[p] \in {"idle", "lookup"} =>
                          session'[p] = NoId /\ chain'[p] = <<>>
                    /\ pc'[p] \in {"idle", "lookup", "walk", "rebuild"} =>
                          sent'[p] = <<>>
                    /\ pc'[p] \in {"lookup", "walk", "rebuild"} =>
                          req'[p].prev # NoId
                    /\ req'[p].prev = NoId => session'[p] = NoId /\ chain'[p] = <<>>
  BY DEF Untouched, Parent
<1>1. TypeOK /\ Untouched
  BY DEF IInv
<1> USE <1>1 DEF TypeOK, Untouched, Parent, At
<1>2. CASE Same(p) \/ Lost(p)
  BY <1>2 DEF Same, Lost, Kept, InFlight
<1>3. CASE Receive(p)
  <2>1. req'[p].prev = NoId => pc'[p] # "lookup"
    BY <1>3 DEF Receive, Goto, Refuse
  <2>2. pc'[p] \in {"done", "llm", "lookup"}
    BY <1>3 DEF Receive, Goto, Refuse
  <2>3. pc'[p] = "lookup" => sent'[p] = sent[p]
    BY <1>3 DEF Receive, Goto, Refuse
  <2>4. session'[p] = session[p] /\ chain'[p] = chain[p] /\ pc[p] = "idle"
    BY <1>3 DEF Receive
  <2> QED
    BY <2>1, <2>2, <2>3, <2>4
<1>4. CASE Lookup(p)
  <2>1. pc'[p] \in {"done", "walk"}
    BY <1>4 DEF Lookup, Goto, Refuse
  <2>2. req'[p] = req[p] /\ sent'[p] = sent[p] /\ pc[p] = "lookup"
    BY <1>4 DEF Lookup
  <2> QED
    BY <2>1, <2>2
<1>5. CASE Walk(p)
  <2>1. pc'[p] \in {"rebuild", "walk"}
    BY <1>5 DEF Walk, Goto
  <2>2. req'[p] = req[p] /\ sent'[p] = sent[p] /\ pc[p] = "walk"
    BY <1>5 DEF Walk
  <2> QED
    BY <2>1, <2>2
<1>6. CASE Rebuild(p)
  <2>1. pc'[p] \in {"llm", "done"}
    BY <1>6 DEF Rebuild, Goto, Refuse
  <2>2. req'[p] = req[p] /\ session'[p] = session[p] /\ chain'[p] = chain[p]
    BY <1>6 DEF Rebuild
  <2> QED
    BY <2>1, <2>2
<1>7. CASE pc[p] \in {"llm", "put", "insert", "reply"} /\ Handler(p)
  <2>1. pc'[p] \notin {"idle", "lookup", "walk", "rebuild"}
    BY <1>7, Stage
  <2>2. req'[p] = req[p] /\ session'[p] = session[p] /\ chain'[p] = chain[p]
    BY <1>7, Frame
  <2> QED
    BY <1>7, <2>1, <2>2
<1>8. CASE pc[p] \in {"lookup", "walk"} /\ DbFails(p)
  <2>1. pc'[p] = "done"
    BY <1>8 DEF DbFails, Goto, Refuse
  <2>2. req'[p] = req[p] /\ session'[p] = session[p] /\ chain'[p] = chain[p]
    BY <1>8 DEF DbFails
  <2> QED
    BY <1>8, <2>1, <2>2
<1> QED
  BY <1>2, <1>3, <1>4, <1>5, <1>6, <1>7, <1>8, Actor DEF Handler, CallReturns,
     CallFails, StreamEvent, StreamEnds, StreamFails, ColdPut, Insert, DbFails, Reply

-----------------------------------------------------------------------------
\* A record made of facts that no longer change stays the record of its request.
LEMMA RecordStays ==
    ASSUME IInv, [Next]_vars, NEW p \in Ids, pc[p] \in Resolved \cup Late,
           NEW r, RecordOf(p, r)
    PROVE  RecordOf(p, r)'
BY Settled DEF RecordOf

\* A handler comes to storing its record, or goes on with it, in three ways.
LEMMA ToStore ==
    ASSUME IInv, [Next]_vars, NEW p \in Ids, pc'[p] \in {"put", "insert"}
    PROVE  Same(p) \/ CallReturns(p) \/ StreamEnds(p) \/ ColdPut(p)
<1>0. TypeOK
BY DEF IInv
<1> USE <1>0 DEF TypeOK, Goto, Refuse
<1>1. CASE Lost(p)
  BY <1>1 DEF Lost
<1>2. CASE Receive(p)
  BY <1>2 DEF Receive
<1>3. CASE Lookup(p) \/ Walk(p) \/ Rebuild(p)
  BY <1>3 DEF Lookup, Walk, Rebuild
<1>4. CASE StreamEvent(p)
  BY <1>4 DEF StreamEvent, At
<1>5. CASE CallFails(p) \/ StreamFails(p) \/ Reply(p)
  BY <1>5 DEF CallFails, StreamFails, Reply
<1>6. CASE Insert(p) \/ DbFails(p)
  BY <1>6 DEF Insert, DbFails
<1> QED
  BY <1>1, <1>2, <1>3, <1>4, <1>5, <1>6, Actor DEF Handler

\* A row is what its request made it, and is there only after the commit.
LEMMA RecordsStep == IInv /\ [Next]_vars => Records'
<1> SUFFICES ASSUME IInv, [Next]_vars, NEW p \in Ids
             PROVE  /\ pc'[p] \in {"put", "insert"} => RecordOf(p, rec[p])'
                    /\ Stored(p)' => RecordOf(p, rows[p])'
                    /\ EverStored(p)' => pc'[p] \in Late /\ req'[p].input.store
  BY DEF Records, Late
<1>0. TypeOK /\ TypeOK' /\ Records
  BY TypeStep DEF IInv
<1>1. ASSUME pc'[p] \in {"put", "insert"} PROVE RecordOf(p, rec[p])'
  <2>1. CASE Same(p)
    <3>1. pc[p] \in {"put", "insert"} /\ RecordOf(p, rec[p])
      BY <1>0, <1>1, <2>1 DEF Same, Records
    <3>2. RecordOf(p, rec[p])'
      BY <2>1, <3>1, RecordStays DEF Same, Kept, Resolved, RecordOf
    <3> QED
      BY <3>2
  <2>2. CASE CallReturns(p) \/ StreamEnds(p)
    <3>1. req[p].input.store /\ rec'[p] = NewRecord(p) /\ pc[p] = "llm"
      BY <1>0, <1>1, <2>2 DEF CallReturns, StreamEnds, Record, Goto, AfterLLM, At, TypeOK
    <3>2. req[p].prev \in Ids \cup {NoId}
      BY <3>1 DEF IInv, Parents, Resolved, Parent
    <3>3. NewRecord(p) \in Row
      BY <1>0, <3>2, NewRecordType
    <3>4. RecordOf(p, NewRecord(p))
      BY <3>1, <3>3 DEF RecordOf, NewRecord, Parent
    <3> QED
      BY <3>1, <3>4, RecordStays DEF Resolved, RecordOf
  <2>3. CASE ColdPut(p)
    <3>1. pc[p] = "put" /\ RecordOf(p, rec[p])
      BY <1>0, <2>3 DEF ColdPut, At, Records
    <3>2. rec'[p] \in {rec[p], Offloaded(rec[p], p)}
      BY <1>0, <2>3 DEF ColdPut, TypeOK
    <3>3. RecordOf(p, Offloaded(rec[p], p))
      BY <3>1 DEF RecordOf, Offloaded, Row
    <3> QED
      BY <3>1, <3>2, <3>3, RecordStays DEF Resolved, RecordOf
  <2> QED
    BY <1>1, <2>1, <2>2, <2>3, ToStore
<1>2. ASSUME Stored(p)' PROVE RecordOf(p, rows[p])'
  <2>1. CASE Committed(p)
    <3>1. pc[p] = "insert" /\ RecordOf(p, rec[p])
      BY <1>0, <2>1 DEF Committed, Records
    <3>2. RecordOf(p, rec[p])'
      BY <3>1, <2>1, RecordStays, Frame, <1>0 DEF Resolved, RecordOf
    <3> QED
      BY <2>1, <3>1, RecordStays DEF Committed, Resolved, RecordOf
  <2>2. CASE rows'[p] = rows[p]
    <3>1. Stored(p)
      BY <1>2, <2>2 DEF Stored
    <3>2. RecordOf(p, rows[p]) /\ pc[p] \in Late
      BY <1>0, <3>1, StoredIsLate DEF Records, EverStored
    <3> QED
      BY <2>2, <3>2, RecordStays DEF RecordOf
  <2> QED
    BY <1>2, <2>1, <2>2, Growth
<1>3. ASSUME EverStored(p)' PROVE pc'[p] \in Late /\ req'[p].input.store
  <2>1. CASE EverStored(p)
    BY <1>0, <2>1, StoredIsLate, Stage, Settled
  <2>2. CASE Committed(p)
    <3>1. pc[p] \in Resolved /\ req[p].input.store
      BY <1>0, <2>2 DEF Committed, Resolved, Records, RecordOf
    <3> QED
      BY <2>2, <3>1, Settled DEF Committed
  <2> QED
    BY <1>3, <2>1, <2>2, Growth
<1> QED
  BY <1>1, <1>2, <1>3

-----------------------------------------------------------------------------
\* The facts about a stored parent survive every step.
LEMMA ParentStays ==
    ASSUME IInv, [Next]_vars, NEW q \in Ids, NEW p \in Ids, EverStored(p)
    PROVE  /\ EverStored(p)'
           /\ SessionId(p)' = SessionId(p)
           /\ LabelOf(p)' = LabelOf(p)
           /\ req'[p] = req[p]
BY Growth, Settled, StoredIsLate

\* What resolve() saw of the parent stays true while the handler runs and later.
LEMMA ParentsStep == IInv /\ [Next]_vars => Parents'
<1> SUFFICES ASSUME IInv, [Next]_vars, NEW q \in Ids,
                    pc'[q] \in Resolved \/ EverStored(q)', req'[q].prev # NoId
             PROVE  /\ req'[q].prev \in Ids
                    /\ EverStored(req[q].prev)'
                    /\ session'[q] = SessionId(req[q].prev)'
                    /\ LabelOf(req[q].prev)' = LabelOf(q)'
  BY DEF Parents, Parent
<1>0. TypeOK /\ Parents
  BY DEF IInv
<1>p. PICK p : p = req[q].prev
  OBVIOUS
<1>1. CASE pc[q] \in Resolved \/ EverStored(q)
  <2>1. pc[q] \in Resolved \cup Late
    BY <1>1, StoredIsLate
  <2>2. req'[q] = req[q] /\ session'[q] = session[q] /\ LabelOf(q)' = LabelOf(q)
    BY <2>1, Settled
  <2>3. p \in Ids /\ EverStored(p) /\ session[q] = SessionId(p) /\ LabelOf(p) = LabelOf(q)
    BY <1>0, <1>1, <1>p, <2>2 DEF Parents, Parent
  <2>4. EverStored(p)' /\ SessionId(p)' = SessionId(p) /\ LabelOf(p)' = LabelOf(p)
    BY <2>3, ParentStays
  <2>5. p = req'[q].prev
    BY <1>p, <2>2
  <2> QED
    BY <2>2, <2>3, <2>4, <2>5
<1>2. CASE ~(pc[q] \in Resolved \/ EverStored(q))
  <2>1. pc[q] \in {"idle", "lookup"} /\ pc'[q] \in Resolved
    BY <1>0, <1>2, Growth, Stage DEF Committed, Resolved
  <2>2. ASSUME Receive(q) PROVE FALSE
    <3>1. pc'[q] = "llm"
      BY <1>0, <2>1, <2>2 DEF Receive, Goto, Refuse, TypeOK, Resolved
    <3>2. req'[q].prev = NoId
      BY <1>0, <2>2, <3>1 DEF Receive, Goto, Refuse, TypeOK
    <3> QED
      BY <3>2
  <2>3. Lookup(q)
    BY <1>0, <2>1, <2>2, Actor DEF Same, Lost, Handler, Walk, Rebuild,
       CallReturns, CallFails, StreamEvent, StreamEnds, StreamFails, ColdPut,
       Insert, DbFails, Reply, At, Goto, Refuse, TypeOK, Resolved
  <2> DEFINE row == GetById(p)
  <2>4. /\ row # NoRow
        /\ row.provider = LabelOf(q)
        /\ session'[q] = row.session_id
    BY <1>0, <1>p, <2>1, <2>3 DEF Lookup, SameProvider, Goto, Refuse, TypeOK, Resolved
  <2>5. p \in Ids /\ Stored(p) /\ row = rows[p]
    BY <2>4 DEF GetById, Stored
  <2>6. row.provider = LabelOf(p) /\ row.session_id = SessionId(p)
    BY <2>5 DEF IInv, Records, RecordOf
  <2>7. req'[q] = req[q] /\ LabelOf(q)' = LabelOf(q)
    BY <1>0, <2>3, Frame DEF Lookup, At, LabelOf
  <2>8. EverStored(p)' /\ SessionId(p)' = SessionId(p) /\ LabelOf(p)' = LabelOf(p)
    BY <2>5, ParentStays DEF EverStored
  <2>9. p = req'[q].prev
    BY <1>p, <2>7
  <2> QED
    BY <2>4, <2>5, <2>6, <2>7, <2>8, <2>9
<1> QED
  BY <1>1, <1>2

-----------------------------------------------------------------------------
\* A request names only responses minted before it.
LEMMA SerialsStep == IInv /\ [Next]_vars => Serials'
<1> SUFFICES ASSUME IInv, [Next]_vars, NEW q \in Ids
             PROVE  /\ pc'[q] \in InFlight \/ Announced(q)' => req'[q].serial < minted'
                    /\ req'[q].prev \in Ids =>
                          /\ pc'[req'[q].prev] # "idle"
                          /\ req'[req'[q].prev].serial < req'[q].serial
  BY DEF Serials, Parent
<1>0. TypeOK /\ Untouched /\ Serials
  BY DEF IInv
<1> USE <1>0
<1>1. /\ minted \in Nat
      /\ minted' \in {minted, minted + 1}
      /\ \A p \in Ids : req[p].serial \in Nat
  <2>1. minted' = minted \/ minted' = minted + 1
    BY DEF Next, Handler, Receive, Lookup, Walk, Rebuild, CallReturns, CallFails,
       StreamEvent, StreamEnds, StreamFails, ColdPut, Insert, DbFails, Reply,
       Disconnect, Crash, Restart, Tick, Purge, vars
  <2> QED
    BY <2>1 DEF TypeOK, Request
<1>2. ASSUME Receive(q)
      PROVE  /\ req'[q].serial = minted
             /\ req'[q].prev \in Ids => Announced(req'[q].prev)
             /\ pc'[q] \in InFlight => minted' = minted + 1
             /\ ~Announced(q)'
  <2>1. req'[q].serial = minted /\ (req'[q].prev \in Ids => Announced(req'[q].prev))
    BY <1>2, GatewayAssumption, StoreAssumption DEF Receive, TypeOK
  <2>2. pc'[q] \in InFlight => minted' = minted + 1
    BY <1>2 DEF Receive, Goto, Refuse, TypeOK, InFlight
  <2>3. client[q] = <<>>
    BY <1>2 DEF Receive, At, Untouched
  <2>4. client'[q] \in {<<>>, <<"422">>}
    BY <1>2, <2>3 DEF Receive, Refuse, Emit, TypeOK
  <2>5. ~Announced(q)'
    BY <2>4 DEF Announced, Heard
  <2> QED
    BY <2>1, <2>2, <2>5
<1>3. ASSUME Announced(q)', ~Receive(q) PROVE Announced(q) \/ pc[q] \in InFlight
  <2>1. CASE Same(q)
    BY <1>3, <2>1 DEF Same, Kept, Announced, Heard
  <2>2. CASE Lost(q)
    BY <2>2 DEF Lost
  <2>3. CASE Handler(q)
    BY <2>3 DEF Handler, Lookup, Walk, Rebuild, CallReturns, CallFails,
       StreamEvent, StreamEnds, StreamFails, ColdPut, Insert, DbFails, Reply,
       At, InFlight
  <2> QED
    BY <1>3, <2>1, <2>2, <2>3, Actor
<1>4. pc'[q] \in InFlight \/ Announced(q)' => req'[q].serial < minted'
  <2>1. CASE Receive(q)
    BY <1>1, <1>2, <2>1
  <2>2. CASE ~Receive(q) /\ (pc'[q] \in InFlight \/ Announced(q)')
    <3>1. pc[q] \in InFlight \/ Announced(q)
      BY <1>3, <2>2, Actor DEF Same, Lost, Handler, Lookup, Walk, Rebuild,
         CallReturns, CallFails, StreamEvent, StreamEnds, StreamFails, ColdPut,
         Insert, DbFails, Reply, At, InFlight
    <3>2. pc[q] # "idle"
      BY <3>1 DEF InFlight, Untouched, Announced, Heard
    <3> QED
      BY <1>1, <3>1, <3>2, Frame DEF Serials
  <2> QED
    BY <2>1, <2>2
<1>5. ASSUME NEW r \in Ids, r = req'[q].prev
      PROVE  pc'[r] # "idle" /\ req'[r].serial < req'[q].serial
  <2>1. pc[r] # "idle" /\ req[r].serial < req'[q].serial
    <3>1. CASE Receive(q)
      <4>1. Announced(r) /\ req'[q].serial = minted
        BY <1>2, <1>5, <3>1
      <4>2. pc[r] # "idle"
        BY <4>1 DEF Announced, Heard, Untouched
      <4> QED
        BY <4>1, <4>2 DEF Serials
    <3>2. CASE ~Receive(q)
      <4>1. req'[q] = req[q]
        BY <3>2, Actor, Frame DEF Same, Kept, Lost, Handler, Lookup, Walk, Rebuild,
           CallReturns, CallFails, StreamEvent, StreamEnds, StreamFails, ColdPut,
           Insert, DbFails, Reply
      <4> QED
        BY <1>5, <4>1 DEF Serials, Parent
    <3> QED
      BY <3>1, <3>2
  <2>2. pc'[r] # "idle" /\ req'[r] = req[r]
    BY <2>1, Stage, Frame
  <2> QED
    BY <2>1, <2>2
<1> QED
  BY <1>4, <1>5

-----------------------------------------------------------------------------
\* row is a link of q's chain.
Link(q, row) ==
    /\ RecordOf(row.id, row)
    /\ EverStored(row.id)
    /\ row.provider = LabelOf(q)
    /\ req[row.id].serial < req[q].serial

LEMMA LinkStays ==
    ASSUME IInv, [Next]_vars, NEW q \in Ids, pc[q] \in Resolved \cup Late,
           NEW row \in Row, Link(q, row)
    PROVE  Link(q, row)' /\ req'[row.id] = req[row.id]
<1>1. row.id \in Ids /\ pc[row.id] \in Late
  BY StoredIsLate DEF Row, Link
<1>2. RecordOf(row.id, row)'
  BY <1>1, RecordStays DEF Link
<1>3. EverStored(row.id)' /\ req'[row.id] = req[row.id]
  BY <1>1, ParentStays DEF Link
<1>4. req'[q] = req[q] /\ LabelOf(q)' = LabelOf(q)
  BY Settled
<1> QED
  BY <1>2, <1>3, <1>4 DEF Link

\* Where a walk that goes on will read.
LEMMA CurIsAncestor ==
    ASSUME IInv, NEW q \in Ids, pc[q] = "walk"
    PROVE  /\ Cur(q) \in Ids
           /\ EverStored(Cur(q))
           /\ LabelOf(Cur(q)) = LabelOf(q)
           /\ req[Cur(q)].serial < req[q].serial
           /\ \A i \in DOMAIN chain[q] :
                 req[Cur(q)].serial < req[chain[q][i].id].serial
<1>0. TypeOK /\ Untouched /\ Records /\ Parents /\ Serials /\ Chains /\ Walks
  BY DEF IInv
<1>1. Cur(q) \in Ids /\ EverStored(Cur(q))
  BY <1>0 DEF Walks
<1>2. \A p \in Ids : req[p].serial \in Nat
  BY <1>0 DEF TypeOK, Request
<1>3. CASE chain[q] = <<>>
  <2>1. Cur(q) = Parent(q) /\ Parent(q) # NoId
    BY <1>0, <1>3 DEF Cur, Untouched, Parent
  <2>2. LabelOf(Cur(q)) = LabelOf(q) /\ req[Cur(q)].serial < req[q].serial
    BY <1>0, <1>1, <2>1 DEF Parents, Serials, Resolved
  <2> QED
    BY <1>1, <1>3, <2>2
<1>4. CASE chain[q] # <<>>
  <2> DEFINE n == Len(chain[q])
             last == chain[q][n]
  <2>1. chain[q] \in Seq(Row) /\ n \in Nat /\ n > 0 /\ n \in DOMAIN chain[q]
    BY <1>0, <1>4 DEF TypeOK
  <2>2. Cur(q) = last.parent_id
    BY <1>4 DEF Cur, Last
  <2>3. /\ RecordOf(last.id, last)
        /\ EverStored(last.id)
        /\ last.provider = LabelOf(q)
        /\ req[last.id].serial < req[q].serial
    BY <1>0, <2>1 DEF Chains
  <2>4. last \in Row /\ last.id \in Ids
    BY <2>3 DEF RecordOf, Row
  <2>5. Cur(q) = Parent(last.id) /\ LabelOf(last.id) = LabelOf(q)
    BY <2>2, <2>3 DEF RecordOf
  <2>6. /\ LabelOf(Cur(q)) = LabelOf(q)
        /\ req[Cur(q)].serial < req[last.id].serial
    BY <1>0, <1>1, <2>3, <2>4, <2>5, StoreAssumption DEF Parents, Serials
  <2>7. ASSUME NEW i \in DOMAIN chain[q]
        PROVE  req[Cur(q)].serial < req[chain[q][i].id].serial
    <3>0. i \in 1..n /\ chain[q][i] \in Row
      BY <2>1
    <3>1. i \in Nat /\ i <= n /\ chain[q][i].id \in Ids
      BY <2>1, <3>0 DEF Row
    <3>2. CASE i = n
      BY <3>2, <2>6
    <3>3. CASE i < n
      <4>1. req[last.id].serial < req[chain[q][i].id].serial
        BY <1>0, <2>1, <3>1, <3>3 DEF Chains
      <4> QED
        BY <1>1, <1>2, <2>4, <2>6, <3>1, <4>1
    <3> QED
      BY <2>1, <3>1, <3>2, <3>3
  <2> QED
    BY <1>1, <1>2, <2>3, <2>4, <2>6, <2>7
<1> QED
  BY <1>3, <1>4

\* A handler with a chain is past resolve()'s checks.
LEMMA ChainIsSettled ==
    ASSUME IInv, NEW q \in Ids, chain[q] # <<>>
    PROVE  pc[q] \in Resolved \cup Late
BY DEF IInv, Untouched, TypeOK, Stages, Resolved, Late

\* A row a walk has read is the record of its request.
LEMMA ChainRow ==
    ASSUME Chains, NEW q \in Ids, NEW i \in DOMAIN chain[q]
    PROVE  RecordOf(chain[q][i].id, chain[q][i])
BY DEF Chains

\* Of two rows a walk has read, the later read was asked for earlier.
LEMMA ChainOrder ==
    ASSUME Chains, NEW q \in Ids, NEW i \in DOMAIN chain[q], NEW j \in DOMAIN chain[q],
           i < j
    PROVE  req[chain[q][j].id].serial < req[chain[q][i].id].serial
BY DEF Chains

\* The rows a walk has read stay a line of ancestors, whatever is stored or
\* purged meanwhile.
LEMMA ChainsStep == IInv /\ [Next]_vars => Chains'
<1> SUFFICES ASSUME IInv, [Next]_vars, NEW q \in Ids
             PROVE  /\ \A i \in DOMAIN chain'[q] :
                        /\ Link(q, chain[q][i])'
                        /\ chain'[q][i].id = IF i = 1 THEN req'[q].prev
                                             ELSE chain'[q][i - 1].parent_id
                    /\ \A i, j \in DOMAIN chain'[q] :
                        i < j => req'[chain'[q][j].id].serial < req'[chain'[q][i].id].serial
  BY DEF Chains, Link, Parent
<1>0. TypeOK /\ TypeOK' /\ Chains /\ Records
  BY TypeStep DEF IInv
<1>1. chain[q] \in Seq(Row) /\ chain'[q] \in Seq(Row)
  BY <1>0 DEF TypeOK
<1>2. CASE chain'[q] = chain[q]
  <2>1. ASSUME NEW i \in DOMAIN chain'[q], NEW row, row = chain'[q][i]
        PROVE  Link(q, row)' /\ req'[row.id] = req[row.id]
    <3>1. pc[q] \in Resolved \cup Late
      BY <1>1, <1>2, <2>1, ChainIsSettled, SMTT(60)
    <3>2. row \in Row /\ Link(q, row)
      BY <1>0, <1>1, <1>2, <2>1, SMTT(60) DEF Chains, Link
    <3> QED
      BY <3>1, <3>2, LinkStays
  <2>2. chain'[q] # <<>> => req'[q] = req[q]
    BY <1>2, ChainIsSettled, Settled
  <2>3. ASSUME NEW i \in DOMAIN chain'[q]
        PROVE  /\ Link(q, chain[q][i])'
               /\ chain'[q][i].id = IF i = 1 THEN req'[q].prev
                                    ELSE chain'[q][i - 1].parent_id
    <3>1. PICK row : row = chain'[q][i]
      OBVIOUS
    <3>2. Link(q, row)'
      BY <2>1, <3>1
    <3>3. chain'[q] # <<>>
      BY <1>1
    <3>4. row.id = IF i = 1 THEN req[q].prev ELSE chain[q][i - 1].parent_id
      BY <1>0, <1>2, <3>1 DEF Chains, Parent
    <3> QED
      BY <1>2, <2>2, <3>1, <3>2, <3>3, <3>4
         DEF Link, RecordOf, EverStored, Stored, LabelOf
  <2>4. ASSUME NEW i \in DOMAIN chain'[q], NEW j \in DOMAIN chain'[q], i < j
        PROVE  req'[chain'[q][j].id].serial < req'[chain'[q][i].id].serial
    BY <1>0, <1>2, <2>1, <2>4 DEF Chains
  <2> QED
    BY <2>3, <2>4
<1>3. CASE chain'[q] # chain[q]
  <2> DEFINE cur == Cur(q)
             n == Len(chain[q])
  <2>1. Walk(q) /\ pc[q] = "walk"
    BY <1>0, <1>3, Actor, Frame DEF Same, Kept, Lost, Handler, Lookup, Rebuild,
       CallReturns, CallFails, StreamEvent, StreamEnds, StreamFails, ColdPut,
       Insert, DbFails, Reply, Receive, Walk, At
  <2>2. /\ Cur(q) \in Ids
        /\ EverStored(Cur(q))
        /\ LabelOf(Cur(q)) = LabelOf(q)
        /\ req[Cur(q)].serial < req[q].serial
        /\ \A i \in DOMAIN chain[q] : req[Cur(q)].serial < req[chain[q][i].id].serial
    BY <2>1, CurIsAncestor
  <2>3. PICK row : row = rows[Cur(q)]
    OBVIOUS
  <2>4. row # NoRow /\ chain'[q] = Append(chain[q], row)
    BY <1>0, <1>3, <2>1, <2>2, <2>3 DEF Walk, GetById, TypeOK
  <2>5. row \in Row /\ row.id = Cur(q) /\ RecordOf(row.id, row)
    BY <1>0, <2>2, <2>3, <2>4 DEF Records, Stored, RecordOf
  <2>6. Link(q, row)
    BY <2>2, <2>5 DEF Link, RecordOf
  <2>7. row.id = IF chain[q] = <<>> THEN req[q].prev ELSE chain[q][n].parent_id
    BY <2>5 DEF Cur, Last
  <2>8. pc[q] \in Resolved \cup Late /\ req'[q] = req[q]
    BY <2>1, Settled DEF Resolved
  <2>9. n \in Nat /\ DOMAIN chain[q] = 1..n /\ DOMAIN chain'[q] = 1..(n + 1)
        /\ (\A i \in 1..n : chain'[q][i] = chain[q][i]) /\ chain'[q][n + 1] = row
    BY <1>1, <2>4, <2>5
  <2>10. ASSUME NEW i \in DOMAIN chain'[q], NEW r, r = chain'[q][i]
         PROVE  /\ Link(q, r)'
                /\ req'[r.id] = req[r.id]
                /\ r.id = IF i = 1 THEN req'[q].prev ELSE chain'[q][i - 1].parent_id
    <3>1. r \in Row /\ Link(q, r)
      BY <1>0, <1>1, <2>5, <2>6, <2>9, <2>10, SMTT(60) DEF Chains, Link
    <3>2. r.id = IF i = 1 THEN req[q].prev ELSE chain'[q][i - 1].parent_id
      <4>1. CASE i = n + 1
        BY <1>1, <2>7, <2>9, <2>10, <4>1, SMTT(60)
      <4>2. CASE i \in 1..n
        <5>1. i # 1 => i - 1 \in 1..n
          BY <2>9, <4>2
        <5>2. r = chain[q][i] /\ (i # 1 => chain'[q][i - 1] = chain[q][i - 1])
          BY <2>9, <2>10, <4>2, <5>1
        <5>3. chain[q][i].id = IF i = 1 THEN req[q].prev ELSE chain[q][i - 1].parent_id
          BY <1>0, <2>9, <4>2 DEF Chains, Parent
        <5> QED
          BY <5>2, <5>3
      <4> QED
        BY <2>9, <4>1, <4>2
    <3> QED
      BY <2>8, <3>1, <3>2, LinkStays
  <2>11. ASSUME NEW i \in DOMAIN chain'[q], NEW j \in DOMAIN chain'[q], i < j
         PROVE  req'[chain'[q][j].id].serial < req'[chain'[q][i].id].serial
    <3>1. req[chain'[q][j].id].serial < req[chain'[q][i].id].serial
      <4>1. CASE j = n + 1
        BY <2>2, <2>5, <2>9, <2>11, <4>1, SMTT(60)
      <4>2. CASE j \in 1..n
        <5>1. i \in 1..n /\ i \in DOMAIN chain[q] /\ j \in DOMAIN chain[q]
          BY <2>9, <2>11, <4>2
        <5>2. req[chain[q][j].id].serial < req[chain[q][i].id].serial
          BY <1>0, <2>11, <5>1, ChainOrder
        <5>3. chain'[q][i] = chain[q][i] /\ chain'[q][j] = chain[q][j]
          BY <2>9, <4>2, <5>1
        <5> QED
          BY <5>2, <5>3
      <4> QED
        BY <2>9, <4>1, <4>2
    <3> QED
      BY <2>10, <3>1
  <2>12. ASSUME NEW i \in DOMAIN chain'[q]
         PROVE  Link(q, chain[q][i])'
    <3>1. PICK r : r = chain'[q][i]
      OBVIOUS
    <3>2. Link(q, r)'
      BY <2>10, <3>1
    <3> QED
      BY <3>1, <3>2 DEF Link, RecordOf, EverStored, Stored, LabelOf
  <2> QED
    BY <2>10, <2>11, <2>12
<1> QED
  BY <1>2, <1>3

-----------------------------------------------------------------------------
\* A row whose id is q's next ancestor names, if anything, an ancestor too.
LEMMA NextAncestor ==
    ASSUME IInv, NEW q \in Ids, pc[q] = "walk", Stored(Cur(q))
    PROVE  LET row == rows[Cur(q)] IN
             /\ row \in Row
             /\ row.parent_id # NoId => row.parent_id \in Ids /\ EverStored(row.parent_id)
             /\ row.parent_id \notin Visited(q) \cup {row.id}
<1> DEFINE row == rows[Cur(q)]
           p   == row.parent_id
<1>0. TypeOK /\ Records /\ Parents /\ Serials
  BY DEF IInv
<1>1. /\ Cur(q) \in Ids
      /\ \A i \in DOMAIN chain[q] : req[Cur(q)].serial < req[chain[q][i].id].serial
  BY CurIsAncestor
<1>2. RecordOf(Cur(q), row)
  BY <1>0, <1>1 DEF Records
<1>3. row \in Row /\ row.id = Cur(q) /\ p = Parent(row.id)
  BY <1>2 DEF RecordOf
<1>4. p # NoId => p \in Ids /\ EverStored(p) /\ req[p].serial < req[Cur(q)].serial
  BY <1>0, <1>1, <1>3 DEF Parents, Serials, EverStored
<1>5. ASSUME NEW i \in DOMAIN chain[q], p = chain[q][i].id PROVE FALSE
  <2>1. chain[q][i] \in Row
    BY <1>0 DEF TypeOK
  <2>2. p \in Ids /\ p # NoId
    BY <1>5, <2>1, StoreAssumption DEF Row
  <2>3. req[p].serial \in Nat /\ req[Cur(q)].serial \in Nat
    BY <1>0, <1>1, <2>2 DEF TypeOK, Request
  <2> QED
    BY <1>1, <1>4, <1>5, <2>2, <2>3
<1>6. p # row.id
  <2>1. CASE p = NoId
    BY <1>1, <1>3, <2>1, StoreAssumption
  <2>2. CASE p # NoId
    <3>1. req[p].serial \in Nat /\ req[p].serial < req[Cur(q)].serial
      BY <1>0, <1>4, <2>2 DEF TypeOK, Request
    <3> QED
      BY <1>3, <3>1
  <2> QED
    BY <2>1, <2>2
<1> QED
  BY <1>3, <1>4, <1>5, <1>6 DEF Visited

\* A walk goes on to a stored ancestor, and ends at a root or at a purged row.
LEMMA WalksStep == IInv /\ [Next]_vars => Walks'
<1> SUFFICES ASSUME IInv, [Next]_vars, NEW q \in Ids, pc'[q] \in {"walk", "rebuild"}
             PROVE  /\ pc'[q] = "walk" => Cur(q)' \in Ids /\ EverStored(Cur(q))'
                    /\ pc'[q] = "rebuild" => Cur(q)' \in purged' \cup {NoId}
  BY DEF Walks
<1>0. TypeOK /\ Untouched /\ Walks
  BY DEF IInv
<1>1. CASE Same(q)
  <2>1. PICK c : c = Cur(q)
    OBVIOUS
  <2>2. Cur(q)' = c /\ pc[q] = pc'[q]
    BY <1>1, <2>1 DEF Same, Kept, Cur
  <2>3. pc[q] = "walk" => c \in Ids /\ EverStored(c)
    BY <1>0, <2>1 DEF Walks
  <2>4. c \in Ids /\ EverStored(c) => EverStored(c)'
    BY Growth
  <2>5. pc[q] = "rebuild" => c \in purged \cup {NoId}
    BY <1>0, <2>1 DEF Walks
  <2>6. purged \subseteq purged'
    BY Growth
  <2> QED
    BY <2>2, <2>3, <2>4, <2>5, <2>6 DEF EverStored, Stored
<1>2. CASE Lookup(q)
  <2>1. pc'[q] = "walk" /\ chain'[q] = <<>> /\ req'[q] = req[q] /\ req[q].prev # NoId
    BY <1>0, <1>2 DEF Lookup, Goto, Refuse, At, TypeOK, Untouched, Parent
  <2>2. Cur(q)' = req'[q].prev
    BY <2>1 DEF Cur
  <2>3. req'[q].prev \in Ids /\ EverStored(req[q].prev)'
    BY <2>1, ParentsStep DEF Parents, Parent, Resolved
  <2> QED
    BY <2>1, <2>2, <2>3 DEF EverStored, Stored
<1>3. CASE Walk(q)
  <2>1. pc[q] = "walk" /\ Cur(q) \in Ids /\ EverStored(Cur(q))
    BY <1>0, <1>3 DEF Walk, At, Walks
  <2>2. req'[q] = req[q] /\ rows' = rows /\ purged' = purged
    BY <1>3 DEF Walk, storeVars
  <2>3. CASE rows[Cur(q)] = NoRow
    <3>1. chain' = chain /\ pc'[q] = "rebuild"
      BY <1>0, <1>3, <2>1, <2>3 DEF Walk, GetById, Goto, TypeOK
    <3>2. Cur(q)' = Cur(q)
      BY <2>2, <3>1 DEF Cur
    <3> QED
      BY <2>1, <2>2, <2>3, <3>1, <3>2 DEF EverStored, Stored
  <2>4. CASE rows[Cur(q)] # NoRow
    <3>1. PICK row : row = rows[Cur(q)]
      OBVIOUS
    <3>2. chain'[q] = Append(chain[q], row) /\ chain[q] \in Seq(Row)
      BY <1>0, <1>3, <2>1, <2>4, <3>1 DEF Walk, GetById, TypeOK
    <3>3. pc'[q] = IF WalkOn(q, row) THEN "walk" ELSE "rebuild"
      BY <1>0, <1>3, <2>1, <2>4, <3>1 DEF Walk, GetById, Goto, TypeOK
    <3>4. /\ row \in Row
          /\ row.parent_id # NoId => row.parent_id \in Ids /\ EverStored(row.parent_id)
          /\ row.parent_id \notin Visited(q) \cup {row.id}
      BY <2>1, <2>4, <3>1, NextAncestor DEF Stored
    <3>5. WalkOn(q, row) <=> row.parent_id # NoId
      BY <3>4 DEF WalkOn
    <3>6. Cur(q)' = row.parent_id
      <4>1. chain'[q] # <<>> /\ Len(chain'[q]) = Len(chain[q]) + 1
            /\ chain'[q][Len(chain[q]) + 1] = row
        BY <3>2, <3>4
      <4> QED
        BY <4>1 DEF Cur, Last
    <3> QED
      BY <2>2, <3>3, <3>4, <3>5, <3>6 DEF EverStored, Stored
  <2> QED
    BY <2>3, <2>4
<1>4. Same(q) \/ Lookup(q) \/ Walk(q)
  <2>1. ~Receive(q) /\ ~Lost(q)
    BY <1>0 DEF Receive, Lost, Goto, Refuse, TypeOK
  <2>2. pc[q] \in {"lookup", "walk", "rebuild"}
    BY <1>0, Stage
  <2>3. ~Rebuild(q) /\ ~DbFails(q)
    BY <1>0, <2>2 DEF Rebuild, DbFails, Goto, Refuse, TypeOK
  <2> QED
    BY <2>1, <2>2, <2>3, <1>0, Actor DEF Handler, CallReturns, CallFails,
       StreamEvent, StreamEnds, StreamFails, ColdPut, Insert, Reply, At
<1> QED
  BY <1>1, <1>2, <1>3, <1>4

-----------------------------------------------------------------------------
\* What was sent stays the chain turned around, followed by the current input.
LEMMA HistoriesStep == IInv /\ [Next]_vars => Histories'
<1> SUFFICES ASSUME IInv, [Next]_vars, NEW q \in Ids, sent'[q] # <<>>
             PROVE  /\ sent'[q] = Append(History(chain'[q]), Current(q))
                    /\ Cur(q)' \in purged' \cup {NoId}
  BY DEF Histories, Asked
<1>0. TypeOK /\ Untouched /\ Walks /\ Histories
  BY DEF IInv
<1>1. purged \subseteq purged'
  BY Growth
<1>2. CASE sent'[q] = sent[q]
  <2>1. pc[q] \notin {"idle", "lookup", "walk", "rebuild"}
    BY <1>0, <1>2 DEF Untouched
  <2>2. chain'[q] = chain[q] /\ req'[q] = req[q]
    BY <1>0, <2>1, Frame
  <2>3. Cur(q)' = Cur(q)
    BY <2>2 DEF Cur
  <2> QED
    BY <1>0, <1>1, <1>2, <2>2, <2>3 DEF Histories, Asked
<1>3. CASE Receive(q) /\ sent'[q] # sent[q]
  <2>1. sent'[q] = <<Current(q)>> /\ req'[q].prev = NoId /\ chain'[q] = chain[q]
    BY <1>0, <1>3 DEF Receive, TypeOK
  <2>2. chain'[q] = <<>>
    BY <1>0, <1>3, <2>1 DEF Receive, At, Untouched
  <2>3. History(<<>>) = <<>>
    BY DEF History
  <2>4. Cur(q)' = NoId
    BY <2>1, <2>2 DEF Cur
  <2> QED
    BY <2>1, <2>2, <2>3, <2>4
<1>4. CASE Rebuild(q)
  <2>1. sent'[q] = Append(History(chain[q]), Current(q)) \/ sent'[q] = sent[q]
    BY <1>0, <1>4 DEF Rebuild, TypeOK
  <2>2. chain'[q] = chain[q] /\ Cur(q)' = Cur(q) /\ pc[q] = "rebuild"
    BY <1>4 DEF Rebuild, Cur, At
  <2> QED
    BY <1>0, <1>1, <1>2, <2>1, <2>2 DEF Walks
<1>5. sent'[q] = sent[q] \/ Receive(q) \/ Rebuild(q)
  BY <1>0, Actor DEF Same, Lost, Kept, Handler, Lookup, Walk, CallReturns,
     CallFails, StreamEvent, StreamEnds, StreamFails, ColdPut, Insert, DbFails, Reply
<1> QED
  BY <1>2, <1>3, <1>4, <1>5

-----------------------------------------------------------------------------
\* A child expires no earlier than its parent, so delete_expired never takes a
\* child and leaves its parent.
LEMMA LifetimesStep == IInv /\ [Next]_vars => Lifetimes'
<1> SUFFICES ASSUME IInv, [Next]_vars, NEW q \in Ids
             PROVE  /\ Stored(q)' => rows'[q].ttl_at <= now' + TTL
                    /\ pc'[q] \in {"put", "insert"} => rec'[q].ttl_at <= now' + TTL
                    /\ req'[q].prev \in Ids /\ Stored(req[q].prev)' =>
                        /\ pc'[q] \in {"put", "insert"} =>
                              rows'[req'[q].prev].ttl_at <= rec'[q].ttl_at
                        /\ Stored(q)' => rows'[req'[q].prev].ttl_at <= rows'[q].ttl_at
                    /\ q \in purged' /\ req'[q].prev # NoId => req'[q].prev \in purged'
  BY SMTT(60) DEF Lifetimes, Parent
<1>0. TypeOK /\ TypeOK' /\ Records /\ Records' /\ Parents /\ Lifetimes
  BY TypeStep, RecordsStep, SMTT(60) DEF IInv
<1>1. now \in Nat /\ now' \in Nat /\ now <= now' /\ TTL \in Nat
  <2>1. now' = now \/ now' = now + 1
    BY DEF Next, Handler, Receive, Lookup, Walk, Rebuild, CallReturns, CallFails,
       StreamEvent, StreamEnds, StreamFails, ColdPut, Insert, DbFails, Reply,
       Disconnect, Crash, Restart, Tick, Purge, vars
  <2> QED
    BY <1>0, <2>1, StoreAssumption, SMTT(60) DEF TypeOK
<1>2. \A p \in Ids : /\ Stored(p) => rows[p] \in Row /\ rows[p].ttl_at \in Nat
                     /\ pc[p] \in {"put", "insert"} => rec[p].ttl_at \in Nat
  BY <1>0 DEF Records, RecordOf, Row
\* What record() gives the new row, or keeps.
<1>3. ASSUME pc'[q] \in {"put", "insert"}
      PROVE  /\ pc[q] \in Resolved
             /\ \/ pc[q] \in {"put", "insert"} /\ rec'[q].ttl_at = rec[q].ttl_at
                \/ rec'[q].ttl_at = now + TTL /\ now' = now
  <2> USE <1>0 DEF TypeOK, Goto, Refuse, At
  <2>1. CASE Same(q)
    BY <1>3, <2>1 DEF Same, Kept, Resolved
  <2>2. CASE CallReturns(q) \/ StreamEnds(q)
    <3>1. pc[q] = "llm" /\ now' = now /\ pc'[q] = AfterLLM(q)
      BY <2>2 DEF CallReturns, StreamEnds, Record
    <3>2. req[q].input.store
      BY <1>3, <3>1 DEF AfterLLM
    <3>3. rec'[q] = NewRecord(q)
      BY <2>2, <3>2 DEF CallReturns, StreamEnds, Record
    <3> QED
      BY <3>1, <3>3 DEF NewRecord, Resolved
  <2>3. CASE ColdPut(q)
    <3>1. pc[q] = "put" /\ rec[q] \in Row
      BY <2>3 DEF ColdPut, Records, RecordOf
    <3>2. rec'[q] \in {rec[q], Offloaded(rec[q], q)}
      BY <2>3 DEF ColdPut
    <3> QED
      BY <3>1, <3>2 DEF Offloaded, Row, Resolved
  <2>4. Same(q) \/ CallReturns(q) \/ StreamEnds(q) \/ ColdPut(q)
    <3>1. ~Lost(q) /\ ~Receive(q)
      BY <1>3, SMTT(60) DEF Lost, Receive
    <3>2. ~Lookup(q) /\ ~Walk(q) /\ ~Rebuild(q)
      BY <1>3 DEF Lookup, Walk, Rebuild
    <3>3. ~CallFails(q) /\ ~StreamFails(q) /\ ~StreamEvent(q) /\ ~Reply(q)
      BY <1>3 DEF CallFails, StreamFails, StreamEvent, Reply
    <3>4. ~Insert(q) /\ ~DbFails(q)
      BY <1>3 DEF Insert, DbFails
    <3> QED
      BY <3>1, <3>2, <3>3, <3>4, Actor DEF Handler
  <2> QED
    BY <2>1, <2>2, <2>3, <2>4
<1>4. Stored(q)' => rows'[q].ttl_at <= now' + TTL
  <2>1. CASE Committed(q)
    BY <1>0, <1>1, <1>2, <2>1 DEF Committed, Lifetimes
  <2>2. CASE Stored(q)' /\ rows'[q] = rows[q]
    BY <1>0, <1>1, <1>2, <2>2 DEF Stored, Lifetimes
  <2> QED
    BY <2>1, <2>2, Growth
<1>5. pc'[q] \in {"put", "insert"} => rec'[q].ttl_at <= now' + TTL
  BY <1>0, <1>1, <1>2, <1>3 DEF Lifetimes
<1>6. ASSUME NEW p \in Ids, p = req'[q].prev, Stored(p)', pc'[q] \in {"put", "insert"}
      PROVE  rows'[p].ttl_at <= rec'[q].ttl_at
  <2>1. pc[q] \in Resolved /\ p = Parent(q)
    BY <1>3, <1>6, Settled DEF Parent
  <2>2. EverStored(p)
    BY <1>0, <1>6, <2>1, StoreAssumption DEF Parents
  <2>3. Stored(p) /\ rows'[p] = rows[p]
    BY <1>6, <2>2, Growth, StoredIsLate DEF Committed, Late, Stored
  <2> QED
    BY <1>0, <1>1, <1>2, <1>3, <1>6, <2>1, <2>3 DEF Lifetimes
<1>7. ASSUME NEW p \in Ids, p = req'[q].prev, Stored(p)', Stored(q)'
      PROVE  rows'[p].ttl_at <= rows'[q].ttl_at
  <2>1. EverStored(q) \/ Committed(q)
    BY <1>7, Growth DEF EverStored
  <2>2. pc[q] \in Resolved \cup Late /\ p = Parent(q)
    BY <1>7, <2>1, Settled, StoredIsLate DEF Committed, Resolved, Parent
  <2>3. EverStored(p)
    BY <1>0, <2>1, <2>2, StoreAssumption DEF Parents, Committed, Resolved
  <2>4. Stored(p) /\ rows'[p] = rows[p]
    BY <1>7, <2>3, Growth, StoredIsLate DEF Committed, Late, Stored
  <2>5. CASE Committed(q)
    BY <1>0, <2>2, <2>4, <2>5 DEF Committed, Lifetimes
  <2>6. CASE rows'[q] = rows[q]
    BY <1>0, <1>7, <2>2, <2>4, <2>6 DEF Stored, Lifetimes
  <2> QED
    BY <1>7, <2>5, <2>6, Growth
<1>8. ASSUME q \in purged', req'[q].prev # NoId PROVE req'[q].prev \in purged'
  <2>1. EverStored(q)
    BY <1>8, Commit DEF EverStored, Doomed, Committed
  <2>2. req'[q] = req[q]
    BY <2>1, Settled, StoredIsLate
  <2>3. PICK p : p = req[q].prev
    OBVIOUS
  <2>4. p \in Ids /\ EverStored(p) /\ p = Parent(q) /\ p # NoId
    BY <1>0, <1>8, <2>1, <2>2, <2>3 DEF Parents, Parent
  <2>5. CASE q \in purged
    BY <1>0, <2>2, <2>3, <2>4, <2>5, Growth DEF Lifetimes
  <2>6. CASE q \notin purged
    <3>1. purged' = purged \cup Doomed(now) /\ q \in Doomed(now)
      BY <1>8, <2>6, Commit DEF Committed
    <3>2. CASE p \in purged
      BY <2>2, <2>3, <3>1, <3>2
    <3>3. CASE Stored(p)
      <4>1. Stored(q) /\ rows[q].ttl_at < now
        BY <3>1 DEF Doomed, Expired
      <4>2. rows[p].ttl_at <= rows[q].ttl_at
        BY <1>0, <2>4, <3>3, <4>1 DEF Lifetimes
      <4>3. rows[p].ttl_at < now
        BY <1>1, <1>2, <2>4, <3>3, <4>1, <4>2
      <4> QED
        BY <2>2, <2>3, <2>4, <3>1, <3>3, <4>3 DEF Doomed, Expired
    <3> QED
      BY <2>4, <3>2, <3>3 DEF EverStored
  <2> QED
    BY <2>5, <2>6
<1>9. PICK p : p = req'[q].prev
  OBVIOUS
<1>10. p \in Ids /\ Stored(req[q].prev)' => Stored(p)'
  BY <1>9 DEF Stored
<1> QED
  BY <1>4, <1>5, <1>6, <1>7, <1>8, <1>9, <1>10

-----------------------------------------------------------------------------
\* What was asked does not change, and is still asked.
LEMMA AskedStays ==
    ASSUME IInv, [Next]_vars, NEW p \in Ids, Asked(p)
    PROVE  /\ pc[p] \notin {"idle", "lookup", "walk", "rebuild"}
           /\ sent'[p] = sent[p]
           /\ Asked(p)'
           /\ req'[p] = req[p]
           /\ chain'[p] = chain[p]
<1>1. pc[p] \notin {"idle", "lookup", "walk", "rebuild"}
  BY DEF IInv, Untouched, Asked
<1>2. sent'[p] = sent[p] /\ req'[p] = req[p] /\ chain'[p] = chain[p]
  BY <1>1, Frame DEF IInv
<1> QED
  BY <1>1, <1>2 DEF Asked

\* A handler comes to the provider call by sending, and a stored response stays
\* out of the table once it was purged.
LEMMA AskingsStep == IInv /\ [Next]_vars => Askings'
<1> SUFFICES ASSUME IInv, [Next]_vars, NEW q \in Ids
             PROVE  /\ pc'[q] \in {"llm", "put", "insert", "reply"} \/ EverStored(q)'
                          => Asked(q)'
                    /\ q \in purged' => ~Stored(q)'
  BY DEF Askings
<1>0. TypeOK /\ Askings /\ Records
  BY DEF IInv
<1>1. ASSUME Asked(q) PROVE Asked(q)'
  BY <1>1, AskedStays
<1>2. ASSUME EverStored(q)' PROVE Asked(q)
  BY <1>0, <1>2, Growth DEF Askings, Committed
<1>3. ASSUME pc'[q] \in {"llm", "put", "insert", "reply"} PROVE Asked(q)'
  <2> USE <1>0 DEF TypeOK, Goto, Refuse
  <2>1. CASE Same(q) \/ Lost(q)
    BY <1>1, <1>3, <2>1 DEF Same, Lost, Askings
  <2>2. CASE Receive(q)
    <3>1. sent'[q] = <<Current(q)>>
      BY <1>3, <2>2 DEF Receive
    <3> QED
      BY <3>1 DEF Asked
  <2>3. CASE Lookup(q) \/ Walk(q)
    BY <1>3, <2>3 DEF Lookup, Walk
  <2>4. CASE Rebuild(q)
    <3>1. sent'[q] = Append(History(chain[q]), Current(q))
      BY <1>3, <2>4 DEF Rebuild
    <3>2. History(chain[q]) \in Seq(Turn) /\ Current(q) \in Turn
      BY HistoryType DEF Current, Turn
    <3> QED
      BY <3>1, <3>2, AppendType DEF Asked
  <2>5. CASE pc[q] \in {"llm", "put", "insert", "reply"}
    BY <1>1, <2>5 DEF Askings
  <2>6. CASE DbFails(q)
    BY <1>3, <2>6 DEF DbFails
  <2> QED
    BY <2>1, <2>2, <2>3, <2>4, <2>5, <2>6, Actor DEF Handler, CallReturns,
       CallFails, StreamEvent, StreamEnds, StreamFails, ColdPut, Insert, Reply, At
<1>4. ASSUME q \in purged' PROVE ~Stored(q)'
  <2>1. ~Committed(q)
    BY <1>0, <1>4 DEF Committed, Records, EverStored, Late
  <2>2. CASE rows'[q] = rows[q] /\ purged' = purged
    BY <1>0, <1>4, <2>2 DEF Askings, Stored
  <2>3. CASE /\ purged' = purged \cup Doomed(now)
             /\ rows'[q] = IF q \in Doomed(now) THEN NoRow ELSE rows[q]
    BY <1>0, <1>4, <2>3 DEF Askings, Stored
  <2> QED
    BY <2>1, <2>2, <2>3, Commit
<1> QED
  BY <1>1, <1>2, <1>3, <1>4

-----------------------------------------------------------------------------
\* A signal is heard after one more was received if it was before, or is that one.
LEMMA Hearing ==
    ASSUME NEW c \in Seq(Signals), NEW s \in Signals, NEW t
    PROVE  (\E i \in DOMAIN Append(c, s) : Append(c, s)[i] = t)
               <=> (\E i \in DOMAIN c : c[i] = t) \/ t = s
<1>1. /\ DOMAIN Append(c, s) = 1..Len(c) + 1
      /\ Append(c, s)[Len(c) + 1] = s
      /\ \A i \in 1..Len(c) : Append(c, s)[i] = c[i]
      /\ DOMAIN c = 1..Len(c)
      /\ Len(c) \in Nat
  BY SMTT(60)
<1>2. \A i \in 1..Len(c) + 1 : i \in 1..Len(c) \/ i = Len(c) + 1
  BY <1>1, SMTT(60)
<1>3. Len(c) + 1 \in 1..Len(c) + 1 /\ 1..Len(c) \subseteq 1..Len(c) + 1
  BY <1>1, SMTT(60)
<1> HIDE DEF Signals
<1> QED
  BY <1>1, <1>2, <1>3, Zenon

Refusals == {"404", "409", "410", "422", "503", "provider_error"}

\* The stage in which each signal is sent, and the stage it leads to.
Saying(p, s) ==
    \/ s \in {"created", "completed", "unsuccessful"} /\ pc[p] = "llm" /\ pc'[p] = "llm"
    \/ s \in Refusals \cup {"500"} /\ pc'[p] = "done"
       /\ pc[p] \notin {"put", "reply", "done", "gone"}
       /\ (s = "500" \/ pc[p] # "insert")
    \/ s = "failed" /\ Stream(p) /\ pc[p] = "llm" /\ pc'[p] = "reply"
    \/ s = (IF Stream(p) THEN "DONE" ELSE "200") /\ Reply(p) /\ pc'[p] = "done"

\* A step sends p's client nothing, or one signal that fits p's stage.
LEMMA Said ==
    ASSUME IInv, [Next]_vars, NEW p \in Ids
    PROVE  \/ client'[p] = client[p]
           \/ \E s \in Signals : client'[p] = Append(client[p], s) /\ Saying(p, s)
<1>0. TypeOK
  BY DEF IInv
<1> USE <1>0 DEF TypeOK, At, Goto, Emit, Refuse, Saying, Refusals, Signals
<1>1. CASE Same(p) \/ Lost(p)
  BY <1>1 DEF Same, Lost, Kept
<1>2. CASE Receive(p)
  BY <1>2 DEF Receive
<1>3. CASE Lookup(p)
  BY <1>3, SMTT(60) DEF Lookup
<1>4. CASE Rebuild(p)
  BY <1>4 DEF Rebuild
<1>5. CASE CallReturns(p) \/ StreamEnds(p) \/ Walk(p) \/ ColdPut(p) \/ Insert(p)
  BY <1>5 DEF CallReturns, StreamEnds, Walk, ColdPut, Insert
<1>6. CASE CallFails(p)
  BY <1>6 DEF CallFails
<1>7. CASE StreamFails(p)
  BY <1>7 DEF StreamFails
<1>8. CASE StreamEvent(p)
  BY <1>8 DEF StreamEvent
<1>9. CASE DbFails(p)
  BY <1>9 DEF DbFails
<1>10. CASE Reply(p)
  BY <1>10 DEF Reply
<1> QED
  BY <1>1, <1>2, <1>3, <1>4, <1>5, <1>6, <1>7, <1>8, <1>9, <1>10, Actor DEF Handler

\* What a client has heard it has heard for ever; what it hears anew fits the stage.
LEMMA HeardStep ==
    ASSUME IInv, [Next]_vars, NEW p \in Ids, NEW t
    PROVE  /\ Heard(p, t) => Heard(p, t)'
           /\ Heard(p, t)' => Heard(p, t) \/ Saying(p, t)
<1>0. client[p] \in Seq(Signals)
  BY DEF IInv, TypeOK
<1>1. CASE client'[p] = client[p]
  BY <1>1 DEF Heard
<1>2. CASE \E s \in Signals : client'[p] = Append(client[p], s) /\ Saying(p, s)
  <2>1. PICK s \in Signals : client'[p] = Append(client[p], s) /\ Saying(p, s)
    BY <1>2
  <2>2. Heard(p, t)' <=> Heard(p, t) \/ t = s
    BY <1>0, <2>1, Hearing DEF Heard
  <2> QED
    BY <2>1, <2>2
<1> QED
  BY <1>1, <1>2, Said

\* A handler that has answered the whole answer does nothing more.
LEMMA DoneStays ==
    ASSUME IInv, [Next]_vars, NEW p \in Ids, pc[p] = "done"
    PROVE  pc'[p] = "done" /\ client'[p] = client[p] /\ req'[p] = req[p]
<1>1. ~Lost(p) /\ ~Receive(p) /\ ~Handler(p)
  BY DEF Lost, InFlight, Handler, Receive, Lookup, Walk, Rebuild, CallReturns,
     CallFails, StreamEvent, StreamEnds, StreamFails, ColdPut, Insert, DbFails,
     Reply, At
<1> QED
  BY <1>1, Actor DEF IInv, Same, Kept

\* With storage asked for, a handler comes to its reply by the commit or by failing.
LEMMA ToReply ==
    ASSUME IInv, [Next]_vars, NEW p \in Ids, pc'[p] = "reply", req'[p].input.store
    PROVE  \/ pc[p] = "reply" /\ req[p].input.store
           \/ EverStored(p)'
           \/ Heard(p, "failed")'
<1>0. TypeOK /\ TypeOK' /\ Records
  BY TypeStep DEF IInv
<1> USE <1>0 DEF TypeOK, At, Goto, Refuse
<1>1. CASE Same(p) \/ Lost(p)
  BY <1>1 DEF Same, Lost, Kept
<1>2. CASE CallReturns(p) \/ StreamEnds(p)
  BY <1>2 DEF CallReturns, StreamEnds, Record, AfterLLM
<1>3. CASE StreamFails(p)
  <2>1. client'[p] = Append(client[p], "failed") /\ client[p] \in Seq(Signals)
    BY <1>3 DEF StreamFails, Emit
  <2>2. "failed" \in Signals
    BY DEF Signals
  <2>3. \E i \in DOMAIN Append(client[p], "failed") : Append(client[p], "failed")[i] = "failed"
    BY <2>1, <2>2, Hearing, ZenonT(60)
  <2> QED
    BY <2>1, <2>3 DEF Heard
<1>4. CASE Insert(p)
  <2>1. rec[p] \in Row /\ rec[p].id = p
    BY <1>4 DEF Insert, Records, RecordOf
  <2>2. rows'[p] = rec[p]
    BY <1>4, <2>1 DEF Insert, InsertRow, StoreTypeOK
  <2> QED
    BY <2>1, <2>2, NoRowAssumption DEF EverStored, Stored
<1>5. CASE Receive(p) \/ Lookup(p) \/ Walk(p) \/ Rebuild(p)
  BY <1>5 DEF Receive, Lookup, Walk, Rebuild
<1>6. CASE CallFails(p) \/ StreamEvent(p) \/ ColdPut(p) \/ DbFails(p) \/ Reply(p)
  BY <1>6 DEF CallFails, StreamEvent, ColdPut, DbFails, Reply
<1> QED
  BY <1>1, <1>2, <1>3, <1>4, <1>5, <1>6, Actor DEF Handler

\* What a client was told stays in agreement with the table and the handler.
LEMMA OutcomesStep == IInv /\ [Next]_vars => Outcomes'
<1> SUFFICES ASSUME IInv, [Next]_vars, NEW q \in Ids
             PROVE  /\ Refused(q)' => pc'[q] \in Late /\ ~EverStored(q)'
                    /\ Heard(q, "failed")' => Stream(q)'
                    /\ Heard(q, "200")' \/ Heard(q, "DONE")' => pc'[q] = "done"
                    /\ pc'[q] = "reply" /\ req'[q].input.store =>
                          EverStored(q)' \/ Heard(q, "failed")'
                    /\ Answered(q)' /\ req'[q].input.store => EverStored(q)'
  BY DEF Outcomes
<1>0. TypeOK /\ Outcomes /\ Records
  BY DEF IInv
<1>1. ASSUME Refused(q)' PROVE pc'[q] \in Late /\ ~EverStored(q)'
  <2>1. PICK s \in Refusals \cup {"failed"} : Heard(q, s)'
    BY <1>1 DEF Refused, Refusals
  <2>2. CASE Heard(q, s)
    <3>1. pc[q] \in Late /\ ~EverStored(q)
      BY <1>0, <2>2 DEF Outcomes, Refused, Refusals
    <3> QED
      BY <1>0, <3>1, Stage, Growth DEF Committed, Late
  <2>3. CASE Saying(q, s)
    <3>1. pc'[q] \in {"done", "reply"} /\ pc[q] \notin {"reply", "done", "gone", "insert"}
      BY <2>1, <2>3 DEF Saying, Refusals
    <3>2. ~EverStored(q) /\ ~Committed(q)
      BY <1>0, <3>1 DEF Records, Committed
    <3> QED
      BY <3>1, <3>2, Growth DEF Late
  <2> QED
    BY <2>1, <2>2, <2>3, HeardStep
<1>2. ASSUME Heard(q, "failed")' PROVE Stream(q)'
  <2>1. Stream(q) /\ pc[q] # "idle"
    BY <1>0, <1>2, HeardStep DEF Outcomes, Saying, Refusals, Refused, Late
  <2> QED
    BY <1>0, <2>1, Frame DEF Stream
<1>3. ASSUME Heard(q, "200")' \/ Heard(q, "DONE")' PROVE pc'[q] = "done"
  <2>1. CASE Heard(q, "200") \/ Heard(q, "DONE")
    BY <1>0, <2>1, DoneStays DEF Outcomes
  <2>2. CASE Saying(q, "200") \/ Saying(q, "DONE")
    BY <2>2 DEF Saying, Refusals
  <2> QED
    BY <1>3, <2>1, <2>2, HeardStep
<1>4. ASSUME pc'[q] = "reply", req'[q].input.store
      PROVE  EverStored(q)' \/ Heard(q, "failed")'
  <2>1. ASSUME pc[q] = "reply", req[q].input.store PROVE EverStored(q)' \/ Heard(q, "failed")'
    BY <1>0, <2>1, Growth, HeardStep DEF Outcomes
  <2> QED
    BY <1>4, <2>1, ToReply
<1>5. ASSUME Answered(q)', req'[q].input.store PROVE EverStored(q)'
  <2>1. CASE Answered(q)
    <3>1. pc[q] = "done"
      BY <1>0, <2>1 DEF Answered, Outcomes
    <3> QED
      BY <1>0, <1>5, <2>1, <3>1, DoneStays, Growth DEF Outcomes
  <2>2. CASE ~Answered(q)
    <3>1. Reply(q) /\ pc[q] = "reply"
      <4>1. Saying(q, "200") \/ Saying(q, "DONE")
        BY <1>5, <2>2, HeardStep DEF Answered
      <4> QED
        BY <4>1 DEF Saying, Refusals, Reply, At
    <3>2. req'[q] = req[q]
      BY <3>1 DEF Reply
    <3>3. EverStored(q) \/ Heard(q, "failed")
      BY <1>0, <1>5, <3>1, <3>2 DEF Outcomes
    <3>4. CASE EverStored(q)
      BY <3>4, Growth
    <3>5. CASE Heard(q, "failed")
      <4>1. Stream(q) /\ ~Heard(q, "200") /\ Heard(q, "failed")'
        BY <1>0, <3>1, <3>5, HeardStep DEF Outcomes
      <4>2. ~Heard(q, "200")'
        BY <4>1, HeardStep DEF Saying, Refusals
      <4> QED
        BY <1>5, <4>1, <4>2 DEF Answered
    <3> QED
      BY <3>3, <3>4, <3>5
  <2> QED
    BY <2>1, <2>2
<1> QED
  BY <1>1, <1>2, <1>3, <1>4, <1>5

-----------------------------------------------------------------------------
\* What a durable backend holds it goes on holding.
LEMMA ObjectsStay ==
    ASSUME Durable, [Next]_vars, NEW k, Holds(k)
    PROVE  Holds(k)'
<1> USE DEF Holds, ColdConfigured
<1>1. CASE Crash
  <2>1. Backend = "s3"
    BY <1>1, BackendAssumption DEF Crash, Durable
  <2> QED
    BY <1>1, <2>1 DEF Crash, ColdCrash
<1>2. ASSUME NEW q \in Ids, ColdPut(q) \/ Disconnect(q) PROVE Holds(k)'
  BY <1>2 DEF ColdPut, Disconnect, PutObject, PutInterrupted
<1>3. ASSUME NEW q \in Ids, Receive(q) \/ (Handler(q) /\ ~ColdPut(q))
      PROVE  Holds(k)'
  BY <1>3 DEF Receive, Handler, Lookup, Walk, Rebuild, CallReturns, CallFails,
     StreamEvent, StreamEnds, StreamFails, Insert, DbFails, Reply
<1>4. CASE Restart \/ Tick \/ Purge \/ UNCHANGED vars
  BY <1>4 DEF Restart, Tick, Purge, vars
<1> QED
  BY <1>1, <1>2, <1>3, <1>4 DEF Next

\* An object appears only while record() is putting it.
LEMMA ObjectsAppear ==
    ASSUME [Next]_vars, NEW k \in Ids, Holds(k)', pc[k] # "put"
    PROVE  Holds(k)
<1> USE DEF Holds, ColdConfigured
<1>1. CASE Crash
  <2>1. \/ objects' = {}
        \/ \E K \in SUBSET {q \in Ids : pc[q] = "put"} : objects' = objects \cup K
    BY <1>1 DEF Crash, ColdCrash
  <2> QED
    BY <2>1
<1>2. ASSUME NEW q \in Ids, ColdPut(q) \/ Disconnect(q) PROVE Holds(k)
  BY <1>2 DEF ColdPut, Disconnect, PutObject, PutInterrupted, At
<1>3. ASSUME NEW q \in Ids, Receive(q) \/ (Handler(q) /\ ~ColdPut(q))
      PROVE  Holds(k)
  BY <1>3 DEF Receive, Handler, Lookup, Walk, Rebuild, CallReturns, CallFails,
     StreamEvent, StreamEnds, StreamFails, Insert, DbFails, Reply
<1>4. CASE Restart \/ Tick \/ Purge \/ UNCHANGED vars
  BY <1>4 DEF Restart, Tick, Purge, vars
<1> QED
  BY <1>1, <1>2, <1>3, <1>4 DEF Next

\* The object is there before the record that points at it, and stays.
LEMMA PayloadsStep == IInv /\ [Next]_vars => Payloads'
<1> SUFFICES ASSUME IInv, [Next]_vars, Durable, NEW q \in Ids
             PROVE  /\ pc'[q] = "put" => /\ ColdConfigured
                                         /\ rec'[q].inline
                                         /\ rec'[q].cold_storage_key = NoId
                    /\ pc'[q] = "insert" => Readable(rec[q])'
                    /\ Stored(q)' => Readable(rows[q])'
  BY DEF Payloads
<1>0. TypeOK /\ Records /\ Payloads
  BY DEF IInv
<1>1. ASSUME NEW r, Readable(r) PROVE Readable(r)'
  BY <1>1, ObjectsStay DEF Readable
<1>2. ASSUME pc'[q] \in {"put", "insert"}
      PROVE  /\ pc'[q] = "put" => /\ ColdConfigured
                                  /\ rec'[q].inline
                                  /\ rec'[q].cold_storage_key = NoId
             /\ pc'[q] = "insert" => Readable(rec[q])'
  <2>1. CASE Same(q)
    BY <1>0, <1>1, <2>1 DEF Same, Kept, Payloads, Readable
  <2>2. CASE CallReturns(q) \/ StreamEnds(q)
    <3>1. rec'[q] = NewRecord(q) /\ pc'[q] = AfterLLM(q)
      BY <1>0, <1>2, <2>2 DEF CallReturns, StreamEnds, Record, Goto, AfterLLM, TypeOK
    <3> QED
      BY <3>1 DEF NewRecord, AfterLLM, Readable
  <2>3. CASE ColdPut(q)
    <3>1. /\ pc'[q] = "insert"
          /\ rec[q] \in Row
          /\ ColdConfigured
          /\ rec[q].inline /\ rec[q].cold_storage_key = NoId
      BY <1>0, <2>3 DEF ColdPut, At, Goto, TypeOK, Payloads, Records, RecordOf
    <3>2. CASE PutObject(q) /\ rec' = [rec EXCEPT ![q] = Offloaded(@, q)]
      <4>1. rec'[q].cold_storage_key = q /\ q # NoId
        BY <1>0, <3>1, <3>2, StoreAssumption DEF Offloaded, Row, TypeOK
      <4>2. Holds(q)'
        BY <3>1, <3>2 DEF PutObject, Holds, ColdConfigured
      <4> QED
        BY <3>1, <4>1, <4>2 DEF Readable
    <3>3. CASE UNCHANGED rec
      BY <3>1, <3>3 DEF Readable
    <3> QED
      BY <2>3, <3>2, <3>3 DEF ColdPut
  <2> QED
    BY <1>2, <2>1, <2>2, <2>3, ToStore
<1>3. ASSUME Stored(q)' PROVE Readable(rows[q])'
  <2>1. CASE Committed(q)
    BY <1>0, <1>1, <2>1 DEF Committed, Payloads, Readable
  <2>2. CASE rows'[q] = rows[q]
    BY <1>0, <1>1, <1>3, <2>2 DEF Stored, Payloads, Readable
  <2> QED
    BY <1>3, <2>1, <2>2, Growth
<1> QED
  BY <1>2, <1>3

-----------------------------------------------------------------------------
\* IInv holds before the first request.
LEMMA InvInit == Init => IInv
<1> SUFFICES ASSUME Init PROVE IInv
  OBVIOUS
<1>1. TypeOK
  BY TypeInit
<1>2. \A q \in Ids : /\ pc[q] = "idle" /\ client[q] = <<>> /\ req[q].prev = NoId
                     /\ session[q] = NoId /\ chain[q] = <<>> /\ sent[q] = <<>>
                     /\ rows[q] = NoRow
  BY DEF Init, StoreInit, Blank
<1>3. purged = {}
  BY DEF Init, StoreInit
<1>4. Untouched
  BY <1>2 DEF Untouched, Parent
<1>5. Records /\ Parents /\ Lifetimes
  BY <1>2, <1>3 DEF Records, Parents, Lifetimes, EverStored, Stored, Resolved
<1>6. Serials
  <2>1. \A q \in Ids : pc[q] \notin InFlight /\ Parent(q) \notin Ids
    BY <1>2, StoreAssumption DEF InFlight, Parent
  <2>2. \A q \in Ids : ~Announced(q)
    <3>1. \A c : c = <<>> => DOMAIN c = {}
      OBVIOUS
    <3>2. \A q \in Ids : \A s : ~Heard(q, s)
      BY <1>2, <3>1 DEF Heard
    <3> QED
      BY <3>2 DEF Announced
  <2> QED
    BY <2>1, <2>2 DEF Serials
<1>7. Chains /\ Walks /\ Histories
  BY <1>2 DEF Chains, Walks, Histories, Asked
<1>8. Askings /\ Payloads
  BY <1>2, <1>3 DEF Askings, Payloads, EverStored, Stored
<1>9. Outcomes
  <2>1. \A c : c = <<>> => DOMAIN c = {}
    OBVIOUS
  <2>2. \A q \in Ids : \A s : ~Heard(q, s)
    BY <1>2, <2>1 DEF Heard
  <2> QED
    BY <1>2, <2>2 DEF Outcomes, Refused, Answered
<1> QED
  BY <1>1, <1>4, <1>5, <1>6, <1>7, <1>8, <1>9 DEF IInv

\* IInv is preserved by every action.
LEMMA InvStep == IInv /\ [Next]_vars => IInv'
BY TypeStep, UntouchedStep, RecordsStep, ParentsStep, SerialsStep, ChainsStep,
   WalksStep, HistoriesStep, LifetimesStep, AskingsStep, OutcomesStep,
   PayloadsStep DEF IInv

(***************************************************************************)
(* Every reachable state satisfies the inductive invariant, for every set  *)
(* of ids, kinds of request, faults, backend and ttl.                      *)
(***************************************************************************)
THEOREM Inductive == Spec => []IInv
BY InvInit, InvStep, PTL DEF Spec

(***************************************************************************)
(* Every variable of the gateway keeps its type; among others, a record is *)
(* never written with a parent id this gateway did not mint.               *)
(***************************************************************************)
THEOREM TypeCorrect == Spec => []TypeOK
<1>1. IInv => TypeOK
  BY DEF IInv
<1> QED
  BY <1>1, Inductive, PTL

-----------------------------------------------------------------------------
\* Arithmetic of an index counted from the other end.
LEMMA Countdown ==
    ASSUME NEW n \in Nat, NEW i \in 1..n - 1
    PROVE  /\ i \in 1..n /\ i + 1 \in 1..n /\ n - i \in 1..n /\ (n - i) + 1 # 1
           /\ n + 1 - i = (n - i) + 1
           /\ n + 1 - (i + 1) = n - i
           /\ ((n - i) + 1) - 1 = n - i
OBVIOUS

\* The past turns of a request are its chain, oldest first.
LEMMA PastIsChain ==
    ASSUME IInv, NEW q \in Ids, Asked(q)
    PROVE  /\ Past(q) = History(chain[q])
           /\ Len(Past(q)) = Len(chain[q])
           /\ Len(chain[q]) \in Nat
           /\ \A i \in 1..Len(chain[q]) :
                 /\ Past(q)[i].of = chain[q][Len(chain[q]) + 1 - i].id
                 /\ Len(chain[q]) + 1 - i \in DOMAIN chain[q]
           /\ sent[q] = Append(Past(q), Current(q))
           /\ Past(q) \in Seq(Turn)
<1>1. chain[q] \in Seq(Row) /\ sent[q] = Append(History(chain[q]), Current(q))
  BY DEF IInv, TypeOK, Histories
<1> DEFINE h == History(chain[q])
           n == Len(chain[q])
<1>2. /\ h \in Seq(Turn)
      /\ Len(h) = n
      /\ \A i \in 1..n : h[i] = TurnOf(chain[q][n + 1 - i])
  BY <1>1, HistoryType
<1>3. n \in Nat
  BY <1>1
<1>4. Current(q) \in Turn
  BY DEF Current, Turn
<1> HIDE DEF h
<1>5. Front(Append(h, Current(q))) = h
  BY <1>2, <1>3, <1>4 DEF Front
<1>6. Past(q) = h
  BY <1>1, <1>5 DEF Past, h
<1>7. \A i \in 1..n : n + 1 - i \in DOMAIN chain[q]
  BY <1>1, <1>3
<1>8. \A i \in 1..n : h[i].of = chain[q][n + 1 - i].id
  <2>1. \A row : TurnOf(row).of = row.id
    BY DEF TurnOf
  <2> QED
    BY <1>2, <2>1
<1>9. Past(q) = History(chain[q])
  BY <1>6 DEF h
<1>10. sent[q] = Append(Past(q), Current(q))
  BY <1>1, <1>9
<1> QED
  BY <1>2, <1>3, <1>6, <1>7, <1>8, <1>9, <1>10

(***************************************************************************)
(* What a request carries is one line of ancestry (LinearHistory).         *)
(***************************************************************************)
THEOREM HistoriesAreLines == Spec => []LinearHistory
<1>1. IInv => LinearHistory
  <2> SUFFICES ASSUME IInv, NEW q \in Ids, Asked(q), Past(q) # <<>>
               PROVE  /\ Last(Past(q)).of = req[q].prev
                      /\ \A i \in 1..Len(Past(q)) - 1 :
                            Past(q)[i].of = req[Past(q)[i + 1].of].prev
    BY DEF LinearHistory
  <2> DEFINE n == Len(chain[q])
  <2>1. /\ Len(Past(q)) = n
        /\ n \in Nat
        /\ \A i \in 1..n : /\ Past(q)[i].of = chain[q][n + 1 - i].id
                           /\ n + 1 - i \in DOMAIN chain[q]
        /\ Past(q) \in Seq(Turn)
    BY PastIsChain
  <2>2. n >= 1
    BY <2>1
  <2>3. \A i \in DOMAIN chain[q] :
          /\ RecordOf(chain[q][i].id, chain[q][i])
          /\ chain[q][i].id = IF i = 1 THEN Parent(q) ELSE chain[q][i - 1].parent_id
    BY DEF IInv, Chains
  <2>4. Last(Past(q)).of = req[q].prev
    <3>1. Past(q)[n].of = chain[q][1].id /\ 1 \in DOMAIN chain[q]
      BY <2>1, <2>2
    <3> QED
      BY <2>1, <2>3, <3>1 DEF Last, Parent
  <2>5. ASSUME NEW i \in 1..Len(Past(q)) - 1
        PROVE  Past(q)[i].of = req[Past(q)[i + 1].of].prev
    <3> DEFINE j == n - i
    <3>0. n \in Nat /\ i \in 1..n - 1
      BY <2>1
    <3>1. /\ i \in 1..n /\ i + 1 \in 1..n /\ j \in 1..n /\ j + 1 # 1
          /\ n + 1 - i = j + 1 /\ n + 1 - (i + 1) = j /\ (j + 1) - 1 = j
      BY <3>0, Countdown
    <3>2. Past(q)[i].of = chain[q][j + 1].id /\ j + 1 \in DOMAIN chain[q]
      BY <2>1, <3>1
    <3>3. Past(q)[i + 1].of = chain[q][j].id /\ j \in DOMAIN chain[q]
      BY <2>1, <3>1
    <3>4. chain[q][j + 1].id = chain[q][j].parent_id
      BY <2>3, <3>1, <3>2
    <3>5. chain[q][j].parent_id = req[chain[q][j].id].prev
      BY <2>3, <3>3 DEF RecordOf, Parent
    <3> QED
      BY <3>2, <3>3, <3>4, <3>5
  <2> QED
    BY <2>4, <2>5
<1> QED
  BY <1>1, Inductive, PTL

(***************************************************************************)
(* Nothing of that line is left out but what was purged (WholeHistory).    *)
(***************************************************************************)
THEOREM HistoriesAreWhole == Spec => []WholeHistory
<1>1. IInv => WholeHistory
  <2> SUFFICES ASSUME IInv, NEW q \in Ids, Asked(q)
               PROVE  (IF Past(q) = <<>> THEN req[q].prev
                       ELSE req[Past(q)[1].of].prev) \in purged \cup {NoId}
    BY DEF WholeHistory
  <2> DEFINE n == Len(chain[q])
  <2>1. Cur(q) \in purged \cup {NoId}
    BY DEF IInv, Histories
  <2>2. /\ Len(Past(q)) = n /\ n \in Nat
        /\ \A i \in 1..n : /\ Past(q)[i].of = chain[q][n + 1 - i].id
                           /\ n + 1 - i \in DOMAIN chain[q]
        /\ Past(q) \in Seq(Turn) /\ chain[q] \in Seq(Row)
    BY PastIsChain DEF IInv, TypeOK
  <2>3. CASE chain[q] = <<>>
    BY <2>1, <2>2, <2>3 DEF Cur
  <2>4. CASE chain[q] # <<>>
    <3>1. n >= 1 /\ Past(q) # <<>> /\ n + 1 - 1 = n
      BY <2>2, <2>4
    <3>2. Past(q)[1].of = chain[q][n].id /\ n \in DOMAIN chain[q]
      BY <2>2, <3>1
    <3>3. Cur(q) = req[chain[q][n].id].prev
      BY <2>4, <3>2 DEF IInv, Chains, RecordOf, Parent, Cur, Last
    <3> QED
      BY <2>1, <3>1, <3>2, <3>3
  <2> QED
    BY <2>3, <2>4
<1> QED
  BY <1>1, Inductive, PTL

(***************************************************************************)
(* A session is one tree of responses (SessionsAreTrees).                  *)
(***************************************************************************)
THEOREM SessionTrees == Spec => []SessionsAreTrees
<1>1. IInv => SessionsAreTrees
  <2> SUFFICES ASSUME IInv, NEW q \in Ids, Stored(q)
               PROVE  rows[q].session_id = IF req[q].prev = NoId THEN q
                                           ELSE SessionId(req[q].prev)
    BY DEF SessionsAreTrees
  <2>1. rows[q].session_id = SessionId(q)
    BY DEF IInv, Records, RecordOf
  <2>2. CASE req[q].prev = NoId
    BY <2>1, <2>2 DEF IInv, Untouched, Parent, SessionId
  <2>3. CASE req[q].prev # NoId
    <3>1. req[q].prev \in Ids /\ session[q] = SessionId(req[q].prev)
      BY <2>3 DEF IInv, Parents, Parent, EverStored
    <3>2. SessionId(req[q].prev) # NoId
      BY <3>1, StoreAssumption DEF IInv, TypeOK, SessionId
    <3> QED
      BY <2>1, <2>3, <3>1, <3>2 DEF SessionId
  <2> QED
    BY <2>2, <2>3
<1> QED
  BY <1>1, Inductive, PTL

(***************************************************************************)
(* delete_expired works from the roots (PurgedFromTheRoot).                *)
(***************************************************************************)
THEOREM PurgesFromTheRoot == Spec => []PurgedFromTheRoot
<1>1. IInv => PurgedFromTheRoot
  BY DEF IInv, TypeOK, StoreTypeOK, Lifetimes, Parent, PurgedFromTheRoot
<1> QED
  BY <1>1, Inductive, PTL

\* Whatever is sent with q is q's own input or a stored ancestor's turn.
LEMMA SentIsStored ==
    ASSUME IInv, NEW q \in Ids, NEW i \in DOMAIN sent[q]
    PROVE  LET n == Len(chain[q]) IN
           /\ n \in Nat
           /\ DOMAIN sent[q] = 1..n + 1
           /\ \/ i = n + 1 /\ sent[q][i].of = q
              \/ /\ i \in 1..n
                 /\ n + 1 - i \in DOMAIN chain[q]
                 /\ sent[q][i].of = chain[q][n + 1 - i].id
                 /\ Link(q, chain[q][n + 1 - i])
                 /\ sent[q][i].of \in Ids
<1> DEFINE n == Len(chain[q])
<1>1. Asked(q)
  BY DEF Asked
<1>2. /\ Past(q) \in Seq(Turn) /\ Len(Past(q)) = n /\ n \in Nat
      /\ sent[q] = Append(Past(q), Current(q))
      /\ \A k \in 1..n : /\ Past(q)[k].of = chain[q][n + 1 - k].id
                         /\ n + 1 - k \in DOMAIN chain[q]
  BY <1>1, PastIsChain
<1> HIDE DEF n
<1>3. /\ DOMAIN sent[q] = 1..n + 1
      /\ sent[q][n + 1] = Current(q)
      /\ \A k \in 1..n : sent[q][k] = Past(q)[k]
  BY <1>2 DEF Current, Turn
<1>4. CASE i = n + 1
  BY <1>2, <1>3, <1>4 DEF n, Current
<1>5. CASE i \in 1..n
  <2>1. n + 1 - i \in DOMAIN chain[q] /\ sent[q][i].of = chain[q][n + 1 - i].id
    BY <1>2, <1>3, <1>5, SMTT(60)
  <2>2. Link(q, chain[q][n + 1 - i])
    BY <2>1 DEF IInv, Chains, Link
  <2>3. chain[q][n + 1 - i] \in Row
    BY <2>2 DEF Link, RecordOf
  <2>4. sent[q][i].of \in Ids
    BY <2>1, <2>3 DEF Row
  <2> QED
    BY <1>2, <1>3, <1>5, <2>1, <2>2, <2>4 DEF n
<1>6. i \in 1..n \/ i = n + 1
  BY <1>2, <1>3
<1> QED
  BY <1>4, <1>5, <1>6

(***************************************************************************)
(* Turns are sent in the order they were asked (ChronologicalHistory).     *)
(***************************************************************************)
THEOREM HistoriesAreChronological == Spec => []ChronologicalHistory
<1>1. IInv => ChronologicalHistory
  <2> SUFFICES ASSUME IInv, NEW q \in Ids, NEW i \in DOMAIN sent[q],
                      NEW j \in DOMAIN sent[q], i < j
               PROVE  req[sent[q][i].of].serial < req[sent[q][j].of].serial
    BY DEF ChronologicalHistory
  <2> DEFINE n == Len(chain[q])
  <2>1. n \in Nat /\ i \in 1..n + 1 /\ j \in 1..n + 1
    BY SentIsStored
  <2>2. /\ i \in 1..n
        /\ sent[q][i].of = chain[q][n + 1 - i].id
        /\ n + 1 - i \in DOMAIN chain[q]
        /\ Link(q, chain[q][n + 1 - i])
    <3>1. i # n + 1
      BY <2>1
    <3> QED
      BY <3>1, SentIsStored
  <2>3. CASE j = n + 1
    <3>1. sent[q][j].of = q
      BY <2>1, <2>3, SentIsStored
    <3> QED
      BY <2>2, <3>1 DEF Link
  <2>4. CASE j \in 1..n
    <3>1. /\ sent[q][j].of = chain[q][n + 1 - j].id
          /\ n + 1 - j \in DOMAIN chain[q]
      <4>1. j # n + 1
        BY <2>1, <2>4
      <4> QED
        BY <4>1, SentIsStored
    <3>2. n + 1 - j < n + 1 - i
      BY <2>1
    <3> QED
      BY <2>2, <3>1, <3>2 DEF IInv, Chains
  <2> QED
    BY <2>1, <2>3, <2>4
<1> QED
  BY <1>1, Inductive, PTL

(***************************************************************************)
(* All turns of a request have its provider label (OneLabelPerHistory).    *)
(***************************************************************************)
THEOREM HistoriesHaveOneLabel == Spec => []OneLabelPerHistory
<1>1. IInv => OneLabelPerHistory
  <2> SUFFICES ASSUME IInv, NEW q \in Ids, NEW i \in DOMAIN sent[q]
               PROVE  LabelOf(sent[q][i].of) = LabelOf(q)
    BY DEF OneLabelPerHistory
  <2>1. CASE sent[q][i].of = q
    BY <2>1
  <2>2. CASE sent[q][i].of # q
    <3>1. PICK row : Link(q, row) /\ row.id = sent[q][i].of
      BY <2>2, SentIsStored
    <3> QED
      BY <3>1 DEF Link, RecordOf
  <2> QED
    BY <2>1, <2>2
<1> QED
  BY <1>1, Inductive, PTL

(***************************************************************************)
(* store=false is kept out of the table and of every other request's       *)
(* history (UnstoredIsNeverUsed).                                          *)
(***************************************************************************)
THEOREM UnstoredStaysOut == Spec => []UnstoredIsNeverUsed
<1>1. IInv => UnstoredIsNeverUsed
  <2> SUFFICES ASSUME IInv, NEW q \in Ids, ~req[q].input.store
               PROVE  /\ ~EverStored(q)
                      /\ \A p \in Ids \ {q} : \A i \in DOMAIN sent[p] :
                            sent[p][i].of # q
    BY DEF UnstoredIsNeverUsed
  <2>1. ~EverStored(q)
    BY StoredIsLate
  <2>2. ASSUME NEW p \in Ids \ {q}, NEW i \in DOMAIN sent[p], sent[p][i].of = q
        PROVE  FALSE
    <3>1. PICK row : Link(p, row) /\ row.id = q
      BY <2>2, SentIsStored, SMTT(60)
    <3> QED
      BY <2>1, <3>1 DEF Link
  <2> QED
    BY <2>1, <2>2
<1> QED
  BY <1>1, Inductive, PTL

(***************************************************************************)
(* The `visited` set never ends a walk (VisitedNeverCuts).                 *)
(***************************************************************************)
THEOREM WalksAreNeverCut == Spec => []VisitedNeverCuts
<1>1. IInv => VisitedNeverCuts
  <2> SUFFICES ASSUME IInv, NEW q \in Ids, chain[q] # <<>>,
                      NEW i \in DOMAIN chain[q],
                      Last(chain[q]).parent_id = chain[q][i].id
               PROVE  FALSE
    BY DEF VisitedNeverCuts, Visited
  <2>0. TypeOK /\ Parents /\ Serials /\ Chains
    BY DEF IInv
  <2> DEFINE n    == Len(chain[q])
             last == chain[q][n]
             p    == chain[q][i].id
  <2>1. chain[q] \in Seq(Row) /\ n \in Nat /\ n \in DOMAIN chain[q] /\ i \in 1..n
    BY <2>0 DEF TypeOK
  <2>2. RecordOf(last.id, last) /\ last.id \in Ids /\ chain[q][i] \in Row
    BY <2>0, <2>1, ChainRow DEF RecordOf, Row
  <2>3. p \in Ids /\ p = Parent(last.id)
    BY <2>2 DEF Last, RecordOf, Row
  <2>4. req[p].serial < req[last.id].serial
    BY <2>0, <2>2, <2>3 DEF Serials
  <2>5. req[p].serial \in Nat /\ req[last.id].serial \in Nat
    BY <2>0, <2>2, <2>3 DEF TypeOK, Request
  <2>6. i = n \/ req[last.id].serial < req[p].serial
    BY <2>0, <2>1, ChainOrder
  <2> QED
    BY <2>4, <2>5, <2>6
<1> QED
  BY <1>1, Inductive, PTL

(***************************************************************************)
(* A client that asked for storage and has its whole answer can continue   *)
(* it: the row was committed before the answer (AnsweredIsStored).         *)
(***************************************************************************)
THEOREM AnswersAreStored == Spec => []AnsweredIsStored
<1>1. IInv => AnsweredIsStored
  BY DEF IInv, Outcomes, AnsweredIsStored
<1> QED
  BY <1>1, Inductive, PTL

(***************************************************************************)
(* Nothing is ever stored under the id of a request the gateway refused or *)
(* reported as failed (RefusedIsNotStored).                                *)
(***************************************************************************)
THEOREM RefusalsAreNotStored == Spec => []RefusedIsNotStored
<1>1. IInv => RefusedIsNotStored
  BY DEF IInv, Outcomes, Refused, RefusedIsNotStored
<1> QED
  BY <1>1, Inductive, PTL

(***************************************************************************)
(* Every stored payload can be read, inline or from the object its row     *)
(* points at, as long as the backend outlives the process or the process   *)
(* does not die (PayloadReachable).                                        *)
(***************************************************************************)
THEOREM PayloadsAreReachable == Durable => (Spec => []PayloadReachable)
<1> SUFFICES ASSUME Durable PROVE Spec => []PayloadReachable
  OBVIOUS
<1>1. IInv => PayloadReachable
  BY DEF IInv, Payloads, Readable, PayloadReachable
<1> QED
  BY <1>1, Inductive, PTL

(***************************************************************************)
(* How a request ended is final: nothing is stored, put or sent for it     *)
(* afterwards (EndedIsFinal).                                              *)
(***************************************************************************)
THEOREM EndsAreFinal == Spec => EndedIsFinal
<1>1. IInv /\ [Next]_vars =>
          [\A q \in Ids : pc[q] \in {"done", "gone"} =>
              /\ EverStored(q)' => EverStored(q)
              /\ Holds(q)' => Holds(q)
              /\ client'[q] = client[q]]_vars
  <2> SUFFICES ASSUME IInv, [Next]_vars, NEW q \in Ids, pc[q] \in {"done", "gone"}
               PROVE  /\ EverStored(q)' => EverStored(q)
                      /\ Holds(q)' => Holds(q)
                      /\ client'[q] = client[q]
    OBVIOUS
  <2>1. EverStored(q)' => EverStored(q)
    BY Growth DEF Committed
  <2>2. Holds(q)' => Holds(q)
    BY ObjectsAppear
  <2>3. client'[q] = client[q]
    BY NoHandler DEF IInv, Same, Kept
  <2> QED
    BY <2>1, <2>2, <2>3
<1> QED
  BY <1>1, Inductive, PTL DEF Spec, EndedIsFinal

-----------------------------------------------------------------------------
(***************************************************************************)
(* How far the documents' sentences do hold.  Four of them are refuted     *)
(* below Gateway's properties (ParentIsSent, OneProviderPerHistory,        *)
(* ColdIsTransparent, AnnouncedIsUsable); the theorems that follow name    *)
(* what each one needs.                                                    *)
(***************************************************************************)

(***************************************************************************)
(* Where no job calls delete_expired nothing is ever purged.               *)
(***************************************************************************)
THEOREM OnlyPurgeRemoves == ~PurgeRuns => (Spec => [](purged = {}))
<1> SUFFICES ASSUME ~PurgeRuns PROVE Spec => [](purged = {})
  BY SMTT(60)
<1>1. Init => purged = {}
  BY SMTT(60) DEF Init, StoreInit
<1>2. purged = {} /\ [Next]_vars => (purged = {})'
  BY DEF Next, vars, storeVars, Receive, Handler, Lookup, Walk, Rebuild,
     CallReturns, CallFails, StreamEvent, StreamEnds, StreamFails, ColdPut,
     Insert, DbFails, Reply, Disconnect, InsertInterrupted, InsertRow, Crash,
     Restart, Tick, Purge
<1> QED
  BY <1>1, <1>2, PTL DEF Spec

(***************************************************************************)
(* "rebuild full message history" (resolver.py) holds where no job calls   *)
(* delete_expired: a request that continues a response is sent with it,    *)
(* and with everything before it down to the root (ParentIsSent).          *)
(***************************************************************************)
THEOREM ParentIsSentUnlessPurged == ~PurgeRuns => (Spec => []ParentIsSent)
<1> SUFFICES ASSUME ~PurgeRuns PROVE Spec => []ParentIsSent
  OBVIOUS
<1>1. WholeHistory /\ purged = {} => ParentIsSent
  BY SMTT(60) DEF WholeHistory, ParentIsSent
<1> QED
  BY <1>1, HistoriesAreWhole, OnlyPurgeRemoves, PTL

(***************************************************************************)
(* "cross-provider chains are answered 409" (README) holds where names of  *)
(* one provider label are all routed to one provider: every turn sent was  *)
(* produced by the provider it is sent to (OneProviderPerHistory).         *)
(***************************************************************************)
THEOREM OneProviderIfLabelsTell ==
    (\A m, n \in Models : Label[m] = Label[n] => Upstream[m] = Upstream[n])
        => (Spec => []OneProviderPerHistory)
<1> SUFFICES ASSUME \A m, n \in Models :
                        Label[m] = Label[n] => Upstream[m] = Upstream[n]
             PROVE  Spec => []OneProviderPerHistory
  BY SMTT(60)
<1>1. IInv /\ OneLabelPerHistory => OneProviderPerHistory
  <2> SUFFICES ASSUME IInv, OneLabelPerHistory, NEW q \in Ids,
                      NEW i \in DOMAIN sent[q]
               PROVE  Upstream[req[sent[q][i].of].input.model]
                          = Upstream[req[q].input.model]
    BY DEF OneProviderPerHistory
  <2>1. LabelOf(sent[q][i].of) = LabelOf(q)
    BY DEF OneLabelPerHistory, Asked
  <2>2. sent[q][i].of \in Ids
    BY SentIsStored
  <2>3. \A p \in Ids : req[p].input.model \in Models
    BY GatewayAssumption DEF IInv, TypeOK, Request, InputType
  <2> QED
    BY <2>1, <2>2, <2>3 DEF LabelOf
<1> QED
  BY <1>1, Inductive, HistoriesHaveOneLabel, PTL

\* Nothing reaches cold storage: none is configured, or every payload is small.
NothingIsBig == ColdConfigured => \A inp \in Inputs : ~inp.big

InlineRow(row) == row.inline /\ row.cold_storage_key = NoId

\* Every record, from record() to the walks that read it, keeps its payload.
AllInline ==
    \A q \in Ids :
        /\ pc[q] # "put"
        /\ pc[q] = "insert" => InlineRow(rec[q])
        /\ Stored(q) => InlineRow(rows[q])
        /\ \A i \in DOMAIN chain[q] : InlineRow(chain[q][i])

\* Without big payloads a step takes no record away from the table.
LEMMA InlineStep ==
    ASSUME NothingIsBig, IInv, AllInline, [Next]_vars
    PROVE  AllInline'
<1> SUFFICES ASSUME NEW p \in Ids
             PROVE  /\ pc'[p] # "put"
                    /\ pc'[p] = "insert" => InlineRow(rec'[p])
                    /\ Stored(p)' => InlineRow(rows'[p])
                    /\ \A i \in DOMAIN chain'[p] : InlineRow(chain'[p][i])
  BY DEF AllInline, InlineRow
<1>0. TypeOK
  BY DEF IInv
<1>1. ~(ColdConfigured /\ req[p].input.big)
  BY <1>0 DEF NothingIsBig, TypeOK, Request
<1>2. pc'[p] # "put" /\ (pc'[p] = "insert" => InlineRow(rec'[p]))
  <2> USE <1>0, <1>1 DEF AllInline, InlineRow, At, Goto, Refuse, TypeOK
  <2>1. CASE Same(p) \/ Lost(p)
    BY <2>1 DEF Same, Lost, Kept
  <2>2. CASE Receive(p)
    BY <2>2 DEF Receive
  <2>3. CASE Lookup(p) \/ Walk(p) \/ Rebuild(p)
    BY <2>3 DEF Lookup, Walk, Rebuild
  <2>4. CASE CallReturns(p) \/ StreamEnds(p)
    BY <2>4 DEF CallReturns, StreamEnds, Record, AfterLLM, NewRecord
  <2>5. CASE StreamEvent(p) \/ CallFails(p) \/ StreamFails(p) \/ Reply(p)
    BY <2>5 DEF StreamEvent, CallFails, StreamFails, Reply
  <2>6. CASE ColdPut(p)
    BY <2>6 DEF ColdPut
  <2>7. CASE Insert(p) \/ DbFails(p)
    BY <2>7 DEF Insert, DbFails
  <2> QED
    BY <2>1, <2>2, <2>3, <2>4, <2>5, <2>6, <2>7, Actor DEF Handler
<1>3. Stored(p)' => InlineRow(rows'[p])
  <2>1. Stored(p)' => Committed(p) \/ rows'[p] = rows[p]
    BY Growth
  <2> QED
    BY <2>1 DEF AllInline, Committed, Stored
<1>4. \A i \in DOMAIN chain'[p] : InlineRow(chain'[p][i])
  <2>1. CASE chain'[p] = chain[p]
    BY <2>1 DEF AllInline
  <2>2. CASE Walk(p) /\ chain'[p] # chain[p]
    <3>1. /\ chain'[p] = Append(chain[p], rows[Cur(p)])
          /\ Cur(p) \in Ids /\ Stored(Cur(p))
      BY <1>0, <2>2 DEF Walk, GetById, Stored, TypeOK
    <3>2. rows[Cur(p)] \in Row /\ InlineRow(rows[Cur(p)]) /\ chain[p] \in Seq(Row)
      BY <1>0, <3>1 DEF AllInline, TypeOK, StoreTypeOK, Stored
    <3>3. /\ DOMAIN chain[p] = 1..Len(chain[p]) /\ Len(chain[p]) \in Nat
          /\ DOMAIN chain'[p] = 1..Len(chain[p]) + 1
          /\ \A i \in 1..Len(chain[p]) : chain'[p][i] = chain[p][i]
          /\ chain'[p][Len(chain[p]) + 1] = rows[Cur(p)]
      BY <3>1, <3>2
    <3>4. \A i \in 1..Len(chain[p]) + 1 : i \in 1..Len(chain[p]) \/ i = Len(chain[p]) + 1
      BY <3>3
    <3>5. \A i \in 1..Len(chain[p]) : InlineRow(chain[p][i])
      BY <3>3 DEF AllInline
    <3> QED
      BY <3>2, <3>3, <3>4, <3>5, Zenon
  <2>3. pc[p] # "walk" => chain'[p] = chain[p]
    BY <1>0, Frame
  <2>4. pc[p] = "walk" => Walk(p) \/ chain'[p] = chain[p]
    BY <1>0, Actor DEF Same, Lost, Kept, Handler, Receive, Lookup, Rebuild,
       CallReturns, CallFails, StreamEvent, StreamEnds, StreamFails, ColdPut,
       Insert, DbFails, Reply, At
  <2> QED
    BY <2>1, <2>2, <2>3, <2>4
<1> QED
  BY <1>2, <1>3, <1>4

(***************************************************************************)
(* Cold storage is transparent on read (architecture design, section 5)    *)
(* only where nothing is offloaded: then, whatever fails or is purged,     *)
(* every past turn sent is the dialogue it was (ColdIsTransparent).        *)
(***************************************************************************)
THEOREM TransparentIfInline == NothingIsBig => (Spec => []ColdIsTransparent)
<1> SUFFICES ASSUME NothingIsBig PROVE Spec => []ColdIsTransparent
  OBVIOUS
<1>1. Init => AllInline
  <2> SUFFICES ASSUME Init PROVE AllInline
    OBVIOUS
  <2>1. \A c : c = <<>> => DOMAIN c = {}
    OBVIOUS
  <2>2. \A q \in Ids : pc[q] = "idle" /\ rows[q] = NoRow /\ chain[q] = <<>>
    BY DEF Init, StoreInit
  <2> QED
    BY <2>1, <2>2 DEF AllInline, Stored
<1>2. IInv /\ AllInline /\ [Next]_vars => AllInline'
  BY InlineStep
<1>3. IInv /\ AllInline => ColdIsTransparent
  <2> SUFFICES ASSUME IInv, AllInline, NEW q \in Ids, NEW i \in DOMAIN sent[q]
               PROVE  sent[q][i].form \in {"dialogue", "current"}
    BY DEF ColdIsTransparent
  <2> DEFINE n == Len(chain[q])
  <2>1. Asked(q)
    BY DEF Asked
  <2>2. chain[q] \in Seq(Row) /\ n \in Nat
    BY DEF IInv, TypeOK
  <2>3. /\ Past(q) = History(chain[q]) /\ Past(q) \in Seq(Turn)
        /\ sent[q] = Append(Past(q), Current(q)) /\ Len(Past(q)) = n
    BY <2>1, PastIsChain
  <2>4. \A k \in 1..n : /\ n + 1 - k \in DOMAIN chain[q]
                        /\ Past(q)[k] = TurnOf(chain[q][n + 1 - k])
    BY <2>2, <2>3, HistoryType
  <2>5. \A row : InlineRow(row) => TurnOf(row).form = "dialogue"
    BY DEF InlineRow, TurnOf
  <2>6. \A k \in 1..n : Past(q)[k].form = "dialogue"
    BY <2>4, <2>5 DEF AllInline
  <2>7. Current(q).form = "current"
    BY DEF Current
  <2> HIDE DEF n
  <2>8. /\ DOMAIN sent[q] = 1..n + 1
        /\ sent[q][n + 1] = Current(q)
        /\ \A k \in 1..n : sent[q][k] = Past(q)[k]
    BY <2>2, <2>3 DEF Current, Turn
  <2>9. i \in 1..n \/ i = n + 1
    BY <2>2, <2>8
  <2> QED
    BY <2>6, <2>7, <2>8, <2>9
<1> QED
  BY <1>1, <1>2, <1>3, Inductive, PTL DEF Spec

(***************************************************************************)
(* "the client can immediately use that id" (streaming.py) holds from the  *)
(* whole answer on: a follow-up to a response whose storage was asked for  *)
(* is answered 404 only if that response was purged, or if its own answer  *)
(* was not complete when the follow-up was looked up (AnnouncedIsUsable    *)
(* promises it from response.created on).                                  *)
(***************************************************************************)
AnsweredIsUsable ==
    [][\A q, p \in Ids :
          ~Heard(q, "404") /\ Heard(q, "404")' /\ req[q].prev = p
              /\ req[p].input.store /\ Answered(p) => p \in purged]_vars

\* Only a lookup that finds no row answers 404.
LEMMA NotFound ==
    ASSUME IInv, [Next]_vars, NEW q \in Ids, ~Heard(q, "404"), Heard(q, "404")'
    PROVE  GetById(req[q].prev) = NoRow
<1>0. TypeOK /\ client[q] \in Seq(Signals)
  BY DEF IInv, TypeOK
<1>1. \A s \in Signals : client'[q] = Append(client[q], s) => s = "404"
  BY <1>0, Hearing DEF Heard
<1>2. client'[q] # client[q]
  BY DEF Heard
<1>3. \A s \in Signals \ {"404"} : client' # [client EXCEPT ![q] = Append(@, s)]
  BY <1>0, <1>1 DEF TypeOK
<1>4. ~(Same(q) \/ Lost(q)) /\ (Receive(q) \/ Handler(q))
  BY <1>0, <1>2, Actor DEF Same, Lost, Kept
<1> USE DEF Emit, Refuse, Signals
<1>5. ~Receive(q)
  BY <1>2, <1>3 DEF Receive
<1>6. ~(Walk(q) \/ CallReturns(q) \/ StreamEnds(q) \/ ColdPut(q) \/ Insert(q))
  BY <1>2 DEF Walk, CallReturns, StreamEnds, ColdPut, Insert
<1>7. ~(Rebuild(q) \/ DbFails(q))
  BY <1>2, <1>3 DEF Rebuild, DbFails
<1>8. ~(CallFails(q) \/ StreamFails(q) \/ StreamEvent(q) \/ Reply(q))
  BY <1>2, <1>3 DEF CallFails, StreamFails, StreamEvent, Reply
<1>9. Lookup(q)
  BY <1>4, <1>5, <1>6, <1>7, <1>8 DEF Handler
<1> QED
  BY <1>2, <1>3, <1>9 DEF Lookup

(***************************************************************************)
(* A response can be continued from the moment its answer is complete      *)
(* until it is purged (AnsweredIsUsable).                                  *)
(***************************************************************************)
THEOREM AnswersAreUsable == Spec => AnsweredIsUsable
<1>1. IInv /\ AnsweredIsStored /\ [Next]_vars =>
          [\A q, p \in Ids :
              ~Heard(q, "404") /\ Heard(q, "404")' /\ req[q].prev = p
                  /\ req[p].input.store /\ Answered(p) => p \in purged]_vars
  <2> SUFFICES ASSUME IInv, AnsweredIsStored, [Next]_vars, NEW q \in Ids,
                      NEW p \in Ids, ~Heard(q, "404"), Heard(q, "404")',
                      req[q].prev = p, req[p].input.store, Answered(p)
               PROVE  p \in purged
    OBVIOUS
  <2>1. ~Stored(p)
    BY NotFound DEF GetById, Stored
  <2>2. EverStored(p)
    BY DEF AnsweredIsStored
  <2> QED
    BY <2>1, <2>2 DEF EverStored
<1> QED
  BY <1>1, Inductive, AnswersAreStored, PTL DEF Spec, AnsweredIsUsable

=============================================================================
