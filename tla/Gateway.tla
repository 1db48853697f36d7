-------------------------------- MODULE Gateway --------------------------------
(***************************************************************************)
(* POST /v1/responses of one gateway process (create_response in           *)
(* gateway/api.py), with the SessionResolver, the SessionRecorder and the  *)
(* LLMRouter it calls, over SessionStore and ColdStorage.                  *)
(*                                                                         *)
(* asyncio runs a handler without interruption from one await to the next, *)
(* so an action is what one handler does between two awaits and handlers   *)
(* interleave at every await: a database read or commit, a cold-storage    *)
(* transfer, the provider call, each event sent to a streaming client.     *)
(*                                                                         *)
(* A request is named by the response id minted for it.  `client` is what  *)
(* its client has received: an HTTP status, or the stream's lifecycle      *)
(* events and [DONE].  Item and text events are StreamBridge's business.   *)
(*                                                                         *)
(* An operator introduced by "As a bug:" is not part of the specification; *)
(* put in the place of the definition that follows it, it makes the named  *)
(* property fail.                                                          *)
(***************************************************************************)
EXTENDS SessionStore, ColdStorage, Sequences, SequencesExt

CONSTANTS
    UnknownId,  \* an id this gateway never minted
    Models,     \* model names clients send
    Label,      \* provider_from_model of that name
    Upstream,   \* the provider LLMRouter's alias map sends it to
    Inputs,     \* the kinds of request clients send, see InputType
    Faults,     \* what may go wrong, see FaultKinds
    PurgeRuns,  \* whether some job calls delete_expired
    MaxTime     \* bound on the clock

FaultKinds == {"db", "cold", "llm", "crash", "disconnect"}

InputType == [model : Models, store : BOOLEAN, stream : BOOLEAN,
              big : BOOLEAN,        \* the payload is over cold.threshold_bytes
              unsupported : BOOLEAN] \* the validator rejects it

ASSUME GatewayAssumption ==
    /\ ColdKeys = Ids
    /\ UnknownId \notin Ids \cup {NoId}
    /\ Label \in [Models -> Providers]
    /\ Upstream \in [Models -> Providers]
    /\ Inputs \subseteq InputType
    /\ Inputs # {}
    /\ Faults \subseteq FaultKinds
    /\ PurgeRuns \in BOOLEAN
    /\ MaxTime \in Nat

VARIABLES
    up,         \* the process is running
    now,        \* datetime.now(UTC), in days
    minted,     \* how many ids new_response_id has made
    pc,         \* where each request's handler is
    req,        \* the request each handler serves
    session,    \* resolved.session_id
    chain,      \* rows _walk_parent_chain has read, newest first
    sent,       \* the `input` given to litellm.aresponses, a sequence of turns
    rec,        \* the SessionRecord being persisted
    client      \* what the client has received

vars == <<rows, purged, objects, up, now, minted, pc, req, session, chain,
          sent, rec, client>>

Stages == {"idle", "lookup", "walk", "rebuild", "llm", "put", "insert",
           "reply", "done", "gone"}

InFlight == {"lookup", "walk", "rebuild", "llm", "put", "insert", "reply"}

Request == [input : Inputs, prev : Ids \cup {NoId, UnknownId}, serial : Nat]

(***************************************************************************)
(* What one row, or the current request, contributes to the input:         *)
(*   dialogue  its user items (system items dropped) and assistant items   *)
(*   raw       its whole original request as one item, no assistant item   *)
(*   nothing   no item at all                                              *)
(*   current   the input items of the request being served                 *)
(***************************************************************************)
Turn == [of : Ids, form : {"dialogue", "raw", "nothing", "current"}]

\* "unsuccessful" is a response.failed or response.incomplete the provider
\* sent, "failed" the response.failed the gateway itself sends.
Signals == {"created", "completed", "unsuccessful", "failed", "DONE",
            "200", "404", "409", "410", "422", "500", "503", "provider_error"}

-----------------------------------------------------------------------------
Stream(q)   == req[q].input.stream
LabelOf(q)  == Label[req[q].input.model]
Heard(q, s) == \E i \in DOMAIN client[q] : client[q][i] = s

\* The client has been given the id of response q.
Announced(q) ==
    \E s \in {"created", "completed", "unsuccessful", "failed", "200"} : Heard(q, s)

At(q, stage) == up /\ pc[q] = stage

Goto(q, stage) == pc' = [pc EXCEPT ![q] = stage]

\* The handler returns an HTTP response, or yields one more SSE chunk.
Emit(q, s) == client' = [client EXCEPT ![q] = Append(@, s)]

\* A GatewayError reaches the exception handler before any byte was sent.
Refuse(q, status) ==
    /\ Goto(q, "done")
    /\ Emit(q, status)

-----------------------------------------------------------------------------
\* The request as it reaches the provider: history, then the current input.
Current(q) == [of |-> q, form |-> "current"]

(***************************************************************************)
(* _payload and the loop of _reconstruct_messages for one row.  A cold     *)
(* object is {"input": original_request, "output": response_payload};      *)
(* _payload wraps each member once more under its own name, so             *)
(* .get("input") is the whole request, which _normalize_current_input      *)
(* keeps as one item, and .get("output") is a dict, whose iteration yields *)
(* keys and no message.                                                    *)
(***************************************************************************)
TurnOf(row) ==
    [of |-> row.id,
     form |-> IF row.cold_storage_key # NoId THEN "raw"
              ELSE IF row.inline THEN "dialogue" ELSE "nothing"]

\* As a bug: no chain.reverse() (ChronologicalHistory).
NewestFirst(c) == [i \in 1..Len(c) |-> TurnOf(c[i])]

\* chain.reverse() and _reconstruct_messages.
History(c) == [i \in 1..Len(c) |-> TurnOf(c[Len(c) + 1 - i])]

\* As a bug: from the parent straight to the session's root (LinearHistory).
CurBySession(q) ==
    IF chain[q] = <<>> THEN req[q].prev
    ELSE IF Last(chain[q]).parent_id = NoId THEN NoId
    ELSE Last(chain[q]).session_id

\* The next row _walk_parent_chain reads.
Cur(q) == IF chain[q] = <<>> THEN req[q].prev ELSE Last(chain[q]).parent_id

\* _walk_parent_chain's `visited`.
Visited(q) == {chain[q][i].id : i \in DOMAIN chain[q]}

\* As a bug: only the parent is loaded (WholeHistory).
ParentOnly(q, row) == FALSE

\* The loop condition after a row was read.
WalkOn(q, row) == row.parent_id \notin Visited(q) \cup {NoId, row.id}

(***************************************************************************)
(* The record SessionRecorder.record builds; inline, until a put succeeds. *)
(***************************************************************************)
\* As a bug: no `or new_session_id()` for a root (TypeOK).
InheritedSession(q) == session[q]

\* As a bug: a session of its own for every response (SessionsAreTrees).
OwnSession(q) == q

SessionId(q) == IF session[q] = NoId THEN q ELSE session[q]

\* As a bug: response_id passed for parent_id (VisitedNeverCuts, IInv).
SelfParented(q) ==
    [id |-> q, session_id |-> SessionId(q), parent_id |-> q,
     provider |-> LabelOf(q), inline |-> TRUE, cold_storage_key |-> NoId,
     created_at |-> now, ttl_at |-> now + TTL]

NewRecord(q) ==
    [id |-> q, session_id |-> SessionId(q), parent_id |-> req[q].prev,
     provider |-> LabelOf(q), inline |-> TRUE, cold_storage_key |-> NoId,
     created_at |-> now, ttl_at |-> now + TTL]

\* The record after cold_storage.put returned key k.
Offloaded(r, k) == [r EXCEPT !.inline = FALSE, !.cold_storage_key = k]

\* As a bug: record() is not awaited (AnsweredIsStored, ImplementsConversations).
AnswerFirst(q) == "reply"

\* As a bug: record() is called on the path that does not stream only
\* (AnnouncedGetsStored).
UnlessStreaming(q) ==
    IF ~req[q].input.store \/ Stream(q) THEN "reply"
    ELSE IF ColdConfigured /\ req[q].input.big THEN "put" ELSE "insert"

\* Where record() first awaits, or returns when store_flag is false.
AfterLLM(q) ==
    IF ~req[q].input.store THEN "reply"
    ELSE IF ColdConfigured /\ req[q].input.big THEN "put" ELSE "insert"

-----------------------------------------------------------------------------
(***************************************************************************)
(* create_response up to its first await.  A client continues a response   *)
(* whose id it was given, or sends an id nobody minted.  validate() raises *)
(* before anything else happens; without previous_response_id the request  *)
(* goes to the provider as it came.                                        *)
(***************************************************************************)
Receive(q) ==
    /\ At(q, "idle")
    /\ \E inp \in Inputs,
          prev \in {NoId, UnknownId} \cup {p \in Ids : Announced(p)} :
        /\ req' = [req EXCEPT ![q] = [input |-> inp, prev |-> prev,
                                      serial |-> minted]]
        /\ \/ /\ inp.unsupported
              /\ Refuse(q, "422")
              /\ UNCHANGED <<minted, sent>>
           \/ /\ ~inp.unsupported
              /\ minted' = minted + 1
              /\ \/ /\ prev = NoId
                    /\ Goto(q, "llm")
                    /\ sent' = [sent EXCEPT ![q] = <<Current(q)>>]
                 \/ /\ prev # NoId
                    /\ Goto(q, "lookup")
                    /\ UNCHANGED sent
              /\ UNCHANGED client
    /\ UNCHANGED <<storeVars, objects, up, now, session, chain, rec>>

\* As a bug: no provider check (OneLabelPerHistory).
AnyProvider(q, row) == TRUE

SameProvider(q, row) == row.provider = LabelOf(q)

(***************************************************************************)
(* resolve(): the parent row must exist, be live and have the label of the *)
(* current request.                                                        *)
(***************************************************************************)
Lookup(q) ==
    /\ At(q, "lookup")
    /\ LET parent == GetById(req[q].prev) IN
        \/ /\ parent = NoRow
           /\ Refuse(q, "404")
           /\ UNCHANGED session
        \/ /\ parent # NoRow
           /\ Expired(parent, now)
           /\ Refuse(q, "410")
           /\ UNCHANGED session
        \/ /\ parent # NoRow
           /\ ~Expired(parent, now)
           /\ ~SameProvider(q, parent)
           /\ Refuse(q, "409")
           /\ UNCHANGED session
        \/ /\ parent # NoRow
           /\ ~Expired(parent, now)
           /\ SameProvider(q, parent)
           /\ Goto(q, "walk")
           /\ session' = [session EXCEPT ![q] = parent.session_id]
           /\ UNCHANGED client
    /\ UNCHANGED <<storeVars, objects, up, now, minted, req, chain, sent, rec>>

(***************************************************************************)
(* One round of _walk_parent_chain: each row is read afresh, the parent    *)
(* that Lookup saw included.  A missing row ends the walk quietly.         *)
(***************************************************************************)
Walk(q) ==
    /\ At(q, "walk")
    /\ LET row == GetById(Cur(q)) IN
        \/ /\ row = NoRow
           /\ Goto(q, "rebuild")
           /\ UNCHANGED chain
        \/ /\ row # NoRow
           /\ chain' = [chain EXCEPT ![q] = Append(@, row)]
           /\ Goto(q, IF WalkOn(q, row) THEN "walk" ELSE "rebuild")
    /\ UNCHANGED <<storeVars, objects, up, now, minted, req, session, sent,
                   rec, client>>

\* Cold storage raises ColdStorageUnavailableError, whatever it holds.
ColdFails == "cold" \in Faults /\ Fallible

\* The rows of q's chain whose payload cold storage must return.
ColdRows(q) == {i \in DOMAIN chain[q] : chain[q][i].cold_storage_key # NoId}

\* As a bug: a payload that cold storage does not return is waited for
\* (EveryRequestEnds).
PatientRebuild(q) ==
    /\ At(q, "rebuild")
    /\ \A i \in ColdRows(q) : Holds(chain[q][i].cold_storage_key)
    /\ sent' = [sent EXCEPT ![q] = Append(History(chain[q]), Current(q))]
    /\ Goto(q, "llm")
    /\ UNCHANGED <<storeVars, objects, up, now, minted, req, session, chain,
                   rec, client>>

(***************************************************************************)
(* _reconstruct_messages and the return of resolve().  Objects never       *)
(* change while the process lives, so the reads are one step; a get that   *)
(* fails, for whatever reason, refuses the request.                        *)
(***************************************************************************)
Rebuild(q) ==
    /\ At(q, "rebuild")
    /\ \/ /\ \A i \in ColdRows(q) : Holds(chain[q][i].cold_storage_key)
          /\ sent' = [sent EXCEPT ![q] = Append(History(chain[q]), Current(q))]
          /\ Goto(q, "llm")
          /\ UNCHANGED client
       \/ /\ \/ \E i \in ColdRows(q) : ~Holds(chain[q][i].cold_storage_key)
             \/ ColdFails /\ ColdRows(q) # {}
          /\ Refuse(q, "503")
          /\ UNCHANGED sent
    /\ UNCHANGED <<storeVars, objects, up, now, minted, req, session, chain, rec>>

\* As a bug: store_flag is not looked at (UnstoredIsNeverUsed).
RecordAlways(q) ==
    /\ Goto(q, "insert")
    /\ rec' = [rec EXCEPT ![q] = NewRecord(q)]

(***************************************************************************)
(* record() up to its first await; without store_flag it returns at once.  *)
(***************************************************************************)
Record(q) ==
    /\ Goto(q, AfterLLM(q))
    /\ rec' = IF req[q].input.store THEN [rec EXCEPT ![q] = NewRecord(q)] ELSE rec

\* llm.call returned; response["id"] = new_id and record() follow at once.
CallReturns(q) ==
    /\ At(q, "llm")
    /\ ~Stream(q)
    /\ Record(q)
    /\ UNCHANGED <<storeVars, objects, up, now, minted, req, session, chain,
                   sent, client>>

\* llm.call raised ProviderError (provider error, or timeout after retries).
CallFails(q) ==
    /\ "llm" \in Faults
    /\ At(q, "llm")
    /\ ~Stream(q)
    /\ Refuse(q, "provider_error")
    /\ UNCHANGED <<storeVars, objects, up, now, minted, req, session, chain,
                   sent, rec>>

\* A lifecycle event, its response.id rewritten to q, goes to the client.
\* Nothing looks at the outcome it tells of: what follows is the same.
StreamEvent(q) ==
    /\ At(q, "llm")
    /\ Stream(q)
    /\ \/ client[q] = <<>> /\ Emit(q, "created")
       \/ /\ ~Heard(q, "completed") /\ ~Heard(q, "unsuccessful")
          /\ Emit(q, "completed") \/ Emit(q, "unsuccessful")
    /\ UNCHANGED <<storeVars, objects, up, now, minted, pc, req, session,
                   chain, sent, rec>>

\* The upstream iterator is exhausted: final_state(), then record().
StreamEnds(q) ==
    /\ At(q, "llm")
    /\ Stream(q)
    /\ Record(q)
    /\ UNCHANGED <<storeVars, objects, up, now, minted, req, session, chain,
                   sent, client>>

\* As a bug: what was received is recorded all the same (RefusedIsNotStored,
\* IInv).
FailsAndRecords(q) ==
    /\ "llm" \in Faults
    /\ At(q, "llm")
    /\ Stream(q)
    /\ Emit(q, "failed")
    /\ Record(q)
    /\ UNCHANGED <<storeVars, objects, up, now, minted, req, session, chain, sent>>

\* The upstream raised, at any point: response.failed instead of record().
StreamFails(q) ==
    /\ "llm" \in Faults
    /\ At(q, "llm")
    /\ Stream(q)
    /\ Emit(q, "failed")
    /\ Goto(q, "reply")
    /\ UNCHANGED <<storeVars, objects, up, now, minted, req, session, chain,
                   sent, rec>>

\* As a bug: the key is generated before the put and kept when it fails
\* (PayloadReachable, IInv).
PutRegardless(q) ==
    /\ At(q, "put")
    /\ PutObject(q) \/ (ColdFails /\ PutInterrupted(q))
    /\ rec' = [rec EXCEPT ![q] = Offloaded(@, q)]
    /\ Goto(q, "insert")
    /\ UNCHANGED <<storeVars, up, now, minted, req, session, chain, sent, client>>

(***************************************************************************)
(* cold_storage.put inside record(): on success the record points at the   *)
(* object, on any exception it stays inline.                               *)
(***************************************************************************)
ColdPut(q) ==
    /\ At(q, "put")
    /\ \/ /\ PutObject(q)
          /\ rec' = [rec EXCEPT ![q] = Offloaded(@, q)]
       \/ /\ ColdFails
          /\ PutInterrupted(q)
          /\ UNCHANGED rec
    /\ Goto(q, "insert")
    /\ UNCHANGED <<storeVars, up, now, minted, req, session, chain, sent, client>>

\* As a bug: the insert is shielded from cancellation and lands when the
\* client is gone (EndedIsFinal).
ShieldedInsert(q) ==
    /\ up
    /\ pc[q] \in {"insert", "gone"}
    /\ rec[q] # NoRow
    /\ InsertRow(rec[q])
    /\ pc' = [pc EXCEPT ![q] = IF @ = "insert" THEN "reply" ELSE @]
    /\ UNCHANGED <<objects, up, now, minted, req, session, chain, sent, rec, client>>

\* store.insert committed.
Insert(q) ==
    /\ At(q, "insert")
    /\ InsertRow(rec[q])
    /\ Goto(q, "reply")
    /\ UNCHANGED <<objects, up, now, minted, req, session, chain, sent, rec, client>>

\* A commit whose outcome the process never learns.
InsertInterrupted(q) == InsertRow(rec[q]) \/ UNCHANGED storeVars

(***************************************************************************)
(* The database raises.  Nothing catches it: the client gets a 500, or a   *)
(* stream that is cut without [DONE].                                      *)
(***************************************************************************)
DbFails(q) ==
    /\ "db" \in Faults
    /\ \/ At(q, "lookup") /\ UNCHANGED storeVars
       \/ At(q, "walk") /\ UNCHANGED storeVars
       \/ At(q, "insert") /\ InsertInterrupted(q)
    /\ IF pc[q] = "insert" /\ Stream(q)
       THEN Goto(q, "gone") /\ UNCHANGED client
       ELSE Refuse(q, "500")
    /\ UNCHANGED <<objects, up, now, minted, req, session, chain, sent, rec>>

\* The handler returns the JSON body, or the generator yields [DONE].
Reply(q) ==
    /\ At(q, "reply")
    /\ Emit(q, IF Stream(q) THEN "DONE" ELSE "200")
    /\ Goto(q, "done")
    /\ UNCHANGED <<storeVars, objects, up, now, minted, req, session, chain,
                   sent, rec>>

(***************************************************************************)
(* A streaming client goes away and Starlette cancels the generator at the *)
(* await it is in.  CancelledError is not an Exception, so neither         *)
(* record's fallback nor _gen's handler runs.  A handler that does not     *)
(* stream is not cancelled.                                                *)
(***************************************************************************)
Disconnect(q) ==
    /\ "disconnect" \in Faults
    /\ up
    /\ Stream(q)
    /\ \/ /\ pc[q] \in {"llm", "reply"}
          /\ UNCHANGED <<storeVars, objects>>
       \/ /\ pc[q] = "put"
          /\ PutInterrupted(q)
          /\ UNCHANGED storeVars
       \/ /\ pc[q] = "insert"
          /\ InsertInterrupted(q)
          /\ UNCHANGED objects
    /\ Goto(q, "gone")
    /\ UNCHANGED <<up, now, minted, req, session, chain, sent, rec, client>>

-----------------------------------------------------------------------------
\* The process dies with its handlers; commits under way may have landed.
Crash ==
    /\ "crash" \in Faults
    /\ up
    /\ up' = FALSE
    /\ pc' = [q \in Ids |-> IF pc[q] \in InFlight THEN "gone" ELSE pc[q]]
    /\ \E landed \in SUBSET {q \in Ids : pc[q] = "insert" /\ ~Stored(q)} :
          rows' = [q \in Ids |-> IF q \in landed THEN rec[q] ELSE rows[q]]
    /\ ColdCrash({q \in Ids : pc[q] = "put"})
    /\ UNCHANGED <<purged, now, minted, req, session, chain, sent, rec, client>>

\* build_app and _lifespan: nothing is read back and nothing is cleaned up.
Restart ==
    /\ ~up
    /\ up' = TRUE
    /\ UNCHANGED <<storeVars, objects, now, minted, pc, req, session, chain,
                   sent, rec, client>>

\* Time passes, up to the bound.
Tick ==
    /\ now < MaxTime
    /\ now' = now + 1
    /\ UNCHANGED <<storeVars, objects, up, minted, pc, req, session, chain,
                   sent, rec, client>>

\* A job calls delete_expired(now).  No code under gateway/ does.
Purge ==
    /\ PurgeRuns
    /\ DeleteExpired(now)
    /\ UNCHANGED <<objects, up, now, minted, pc, req, session, chain, sent,
                   rec, client>>

-----------------------------------------------------------------------------
Blank == [input |-> CHOOSE inp \in Inputs : TRUE, prev |-> NoId, serial |-> 0]

Init ==
    /\ StoreInit
    /\ ColdInit
    /\ up = TRUE
    /\ now = 0
    /\ minted = 0
    /\ pc = [q \in Ids |-> "idle"]
    /\ req = [q \in Ids |-> Blank]
    /\ session = [q \in Ids |-> NoId]
    /\ chain = [q \in Ids |-> <<>>]
    /\ sent = [q \in Ids |-> <<>>]
    /\ rec = [q \in Ids |-> NoRow]
    /\ client = [q \in Ids |-> <<>>]

\* What the event loop runs for request q once it was received.
Handler(q) ==
    \/ Lookup(q)
    \/ Walk(q)
    \/ Rebuild(q)
    \/ CallReturns(q)
    \/ CallFails(q)
    \/ StreamEvent(q)
    \/ StreamEnds(q)
    \/ StreamFails(q)
    \/ ColdPut(q)
    \/ Insert(q)
    \/ DbFails(q)
    \/ Reply(q)

Next ==
    \/ \E q \in Ids : Receive(q) \/ Handler(q) \/ Disconnect(q)
    \/ Crash
    \/ Restart
    \/ Tick
    \/ Purge

Spec == Init /\ [][Next]_vars

(***************************************************************************)
(* Fairness: the event loop keeps running every handler that can go on;    *)
(* the database answers or raises, cold storage too, and the provider call *)
(* ends because litellm is given a timeout and a number of retries.        *)
(* Nobody is obliged to send a request, to disconnect or to purge.         *)
(***************************************************************************)
FairSpec == Spec /\ \A q \in Ids : WF_vars(Handler(q))

-----------------------------------------------------------------------------
TypeOK ==
    /\ StoreTypeOK
    /\ ColdTypeOK
    /\ up \in BOOLEAN
    /\ now \in Nat
    /\ minted \in Nat
    /\ pc \in [Ids -> Stages]
    /\ req \in [Ids -> Request]
    /\ session \in [Ids -> Ids \cup {NoId}]
    /\ chain \in [Ids -> Seq(Row)]
    /\ sent \in [Ids -> Seq(Turn)]
    /\ rec \in [Ids -> Row \cup {NoRow}]
    /\ client \in [Ids -> Seq(Signals)]

\* The request was given to the provider; the turns it carried from the past.
Asked(q) == sent[q] # <<>>
Past(q)  == Front(sent[q])

(***************************************************************************)
(* What a request carries is one line of ancestry: the last past turn is   *)
(* previous_response_id and each earlier one the parent of the next.       *)
(* Siblings, other sessions and responses stored while the walk was under  *)
(* way never bleed in ("Do NOT use session_id for retrieval", resolver.py).*)
(***************************************************************************)
LinearHistory ==
    \A q \in Ids : Asked(q) /\ Past(q) # <<>> =>
        /\ Last(Past(q)).of = req[q].prev
        /\ \A i \in 1..Len(Past(q)) - 1 :
              Past(q)[i].of = req[Past(q)[i + 1].of].prev

(***************************************************************************)
(* Turns are sent in the order their responses were asked for ("return     *)
(* chain in chronological order", _walk_parent_chain).                     *)
(***************************************************************************)
ChronologicalHistory ==
    \A q \in Ids : \A i, j \in DOMAIN sent[q] :
        i < j => req[sent[q][i].of].serial < req[sent[q][j].of].serial

(***************************************************************************)
(* Nothing is left out of it: the line goes back to the root of the        *)
(* conversation, and stops earlier only below a response that was purged.  *)
(***************************************************************************)
WholeHistory ==
    \A q \in Ids : Asked(q) =>
        LET next == IF Past(q) = <<>> THEN req[q].prev
                    ELSE req[Past(q)[1].of].prev
        IN  next \in purged \cup {NoId}

(***************************************************************************)
(* Every past turn has the provider label of the current request, though   *)
(* resolve() compares the parent's only.                                   *)
(***************************************************************************)
OneLabelPerHistory ==
    \A q \in Ids : Asked(q) =>
        \A i \in DOMAIN sent[q] : LabelOf(sent[q][i].of) = LabelOf(q)

(***************************************************************************)
(* A stored response belongs to the session of its parent, stored or since *)
(* purged, and a root to a session of its own: a session is exactly one    *)
(* tree of responses.                                                      *)
(***************************************************************************)
SessionsAreTrees ==
    \A q \in Ids : Stored(q) =>
        rows[q].session_id = IF req[q].prev = NoId THEN q
                             ELSE SessionId(req[q].prev)

(***************************************************************************)
(* The parent relation has no cycle, so the `visited` guard never cuts a   *)
(* walk short.                                                             *)
(***************************************************************************)
VisitedNeverCuts ==
    \A q \in Ids : chain[q] # <<>> => Last(chain[q]).parent_id \notin Visited(q)

(***************************************************************************)
(* delete_expired removes a conversation from its oldest end: whatever the *)
(* order in which requests and commits interleaved, no response outlives   *)
(* its child, so a walk is never cut in the middle of what is left.        *)
(***************************************************************************)
PurgedFromTheRoot ==
    \A q \in purged : req[q].prev # NoId => req[q].prev \in purged

\* The client was given the whole answer, and no failure.
Answered(q) == Heard(q, "200") \/ (Heard(q, "DONE") /\ ~Heard(q, "failed"))

(***************************************************************************)
(* A client that asked for storage and got its answer, by JSON body or by  *)
(* [DONE], can continue it: the row was committed before, whatever crashed *)
(* or failed meanwhile.                                                    *)
(***************************************************************************)
AnsweredIsStored ==
    \A q \in Ids : Answered(q) /\ req[q].input.store => EverStored(q)

(***************************************************************************)
(* A client told by the gateway that its request was refused or failed     *)
(* finds nothing stored under that id, then or later.  500 is not among    *)
(* them: the commit behind it may have landed.                             *)
(***************************************************************************)
RefusedIsNotStored ==
    \A q \in Ids :
        (\E s \in {"404", "409", "410", "422", "503", "provider_error",
                   "failed"} : Heard(q, s)) => ~EverStored(q)

(***************************************************************************)
(* store=false: the response is never in the table and never part of what  *)
(* another request sends.                                                  *)
(***************************************************************************)
UnstoredIsNeverUsed ==
    \A q \in Ids : pc[q] # "idle" /\ ~req[q].input.store =>
        /\ ~EverStored(q)
        /\ \A p \in Ids \ {q} : \A i \in DOMAIN sent[p] : sent[p][i].of # q

(***************************************************************************)
(* The payload of every row can be read: inline, or from an object put     *)
(* before the row that points at it was committed.  (Where the backend     *)
(* outlives the process.)                                                  *)
(***************************************************************************)
PayloadReachable ==
    \A q \in Ids : Stored(q) =>
        IF rows[q].cold_storage_key = NoId THEN rows[q].inline
        ELSE Holds(rows[q].cold_storage_key)

(***************************************************************************)
(* How a request ended is final, by an answer or by a lost connection: no  *)
(* later step, of a handler, a crash or a restart, stores its response,    *)
(* puts its payload or tells its client anything more.                     *)
(***************************************************************************)
EndedIsFinal ==
    [][\A q \in Ids : pc[q] \in {"done", "gone"} =>
          /\ EverStored(q)' => EverStored(q)
          /\ Holds(q)' => Holds(q)
          /\ client'[q] = client[q]]_vars

\* Every request that was received ends, by an answer or by a lost connection.
EveryRequestEnds == \A q \in Ids : pc[q] \in InFlight ~> pc[q] \in {"done", "gone"}

(***************************************************************************)
(* A response announced with storage asked for can eventually be continued *)
(* after all, unless its client is told that it failed, or loses the       *)
(* connection: no stream ends quietly without a commit.                    *)
(***************************************************************************)
AnnouncedGetsStored ==
    \A q \in Ids : Announced(q) /\ req[q].input.store ~>
        EverStored(q) \/ Heard(q, "failed") \/ pc[q] = "gone"

-----------------------------------------------------------------------------
(***************************************************************************)
(* What the documents say and the code does not do.                        *)
(***************************************************************************)

(***************************************************************************)
(* "This guarantees the client can immediately use that id for a follow-up *)
(* previous_response_id call" (streaming.py): no follow-up to an id that   *)
(* was announced, with storage asked for, is answered 404.                 *)
(***************************************************************************)
AnnouncedIsUsable ==
    \A q \in Ids : Heard(q, "404") /\ req[q].prev \in Ids =>
        ~req[req[q].prev].input.store

(***************************************************************************)
(* Cold storage is transparent on read (architecture design, section 5):   *)
(* every past turn is the dialogue it was, wherever its payload is kept.   *)
(***************************************************************************)
ColdIsTransparent ==
    \A q \in Ids : \A i \in DOMAIN sent[q] :
        sent[q][i].form \in {"dialogue", "current"}

(***************************************************************************)
(* Cross-provider chains are answered 409 (README): no request carries a   *)
(* turn another provider produced.                                         *)
(***************************************************************************)
OneProviderPerHistory ==
    \A q \in Ids : \A i \in DOMAIN sent[q] :
        Upstream[req[sent[q][i].of].input.model] = Upstream[req[q].input.model]

\* "rebuild full message history" (resolver.py): a continued response is sent.
ParentIsSent == \A q \in Ids : Asked(q) /\ req[q].prev # NoId => Past(q) # <<>>

=============================================================================
