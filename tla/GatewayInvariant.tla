---------------------------- MODULE GatewayInvariant ----------------------------
(***************************************************************************)
(* The inductive invariant behind Gateway's safety properties.  Each part  *)
(* says what earlier steps of a handler leave behind for the later ones,   *)
(* across the awaits at which every other handler runs; GatewayProofs      *)
(* proves that the parts hold together.                                    *)
(***************************************************************************)
EXTENDS Gateway

\* The handler is past resolve()'s checks and has not answered yet.
Resolved == {"walk", "rebuild", "llm", "put", "insert"}

\* The handler has nothing left to store.
Late == {"reply", "done", "gone"}

Parent(q) == req[q].prev

\* Nothing was received, resolved, read or sent before its stage was reached.
Untouched ==
    \A q \in Ids :
        /\ pc[q] = "idle" => client[q] = <<>> /\ Parent(q) = NoId
        /\ pc[q] \in {"idle", "lookup"} => session[q] = NoId /\ chain[q] = <<>>
        /\ pc[q] \in {"idle", "lookup", "walk", "rebuild"} => sent[q] = <<>>
        /\ pc[q] \in {"lookup", "walk", "rebuild"} => Parent(q) # NoId
        /\ Parent(q) = NoId => session[q] = NoId /\ chain[q] = <<>>

\* r is what record() builds for request q, inline or offloaded.
RecordOf(q, r) ==
    /\ r \in Row
    /\ r.id = q
    /\ r.session_id = SessionId(q)
    /\ r.parent_id = Parent(q)
    /\ r.provider = LabelOf(q)
    /\ req[q].input.store

\* A row is exactly what its request made it, and is there only once the
\* handler has committed.
Records ==
    \A q \in Ids :
        /\ pc[q] \in {"put", "insert"} => RecordOf(q, rec[q])
        /\ Stored(q) => RecordOf(q, rows[q])
        /\ EverStored(q) => pc[q] \in {"reply", "done", "gone"}
                            /\ req[q].input.store

\* What resolve() checked of the parent, and copied from it, remains true.
Parents ==
    \A q \in Ids :
        (pc[q] \in Resolved \/ EverStored(q)) /\ Parent(q) # NoId =>
            /\ Parent(q) \in Ids
            /\ EverStored(Parent(q))
            /\ session[q] = SessionId(Parent(q))
            /\ LabelOf(Parent(q)) = LabelOf(q)

\* Ids are minted in the order of the requests, and a request can only name
\* an id that was minted before it came.
Serials ==
    \A q \in Ids :
        /\ pc[q] \in InFlight \/ Announced(q) => req[q].serial < minted
        /\ Parent(q) \in Ids =>
              /\ pc[Parent(q)] # "idle"
              /\ req[Parent(q)].serial < req[q].serial

\* The rows read so far are ancestors in a line, all of q's label, each asked
\* for before the one read before it.
Chains ==
    \A q \in Ids :
        /\ \A i \in DOMAIN chain[q] :
              LET row == chain[q][i] IN
                /\ RecordOf(row.id, row)
                /\ EverStored(row.id)
                /\ row.provider = LabelOf(q)
                /\ row.id = IF i = 1 THEN Parent(q) ELSE chain[q][i - 1].parent_id
                /\ req[row.id].serial < req[q].serial
        /\ \A i, j \in DOMAIN chain[q] :
              i < j => req[chain[q][j].id].serial < req[chain[q][i].id].serial

\* Where the walk goes next, and where it has ended.
Walks ==
    \A q \in Ids :
        /\ pc[q] = "walk" => Cur(q) \in Ids /\ EverStored(Cur(q))
        /\ pc[q] = "rebuild" => Cur(q) \in purged \cup {NoId}

\* What was sent is the chain turned around, then the request.
Histories ==
    \A q \in Ids : Asked(q) =>
        /\ sent[q] = Append(History(chain[q]), Current(q))
        /\ Cur(q) \in purged \cup {NoId}

\* No row outlives a child, stored or on its way to be.
Lifetimes ==
    \A q \in Ids :
        /\ Stored(q) => rows[q].ttl_at <= now + TTL
        /\ pc[q] \in {"put", "insert"} => rec[q].ttl_at <= now + TTL
        /\ Parent(q) \in Ids /\ Stored(Parent(q)) =>
              /\ pc[q] \in {"put", "insert"} =>
                    rows[Parent(q)].ttl_at <= rec[q].ttl_at
              /\ Stored(q) => rows[Parent(q)].ttl_at <= rows[q].ttl_at
        /\ q \in purged /\ Parent(q) # NoId => Parent(q) \in purged

\* A handler that reached the provider call has asked, so a stored response
\* was asked for; and what was purged is out of the table for good.
Askings ==
    \A q \in Ids :
        /\ pc[q] \in {"llm", "put", "insert", "reply"} \/ EverStored(q) => Asked(q)
        /\ q \in purged => ~Stored(q)

\* The gateway told the client that the request failed, before any commit.
Refused(q) ==
    \E s \in {"404", "409", "410", "422", "503", "provider_error", "failed"} :
        Heard(q, s)

\* What the client was told agrees with where the handler is and with the table.
Outcomes ==
    \A q \in Ids :
        /\ Refused(q) => pc[q] \in Late /\ ~EverStored(q)
        /\ Heard(q, "failed") => Stream(q)
        /\ Heard(q, "200") \/ Heard(q, "DONE") => pc[q] = "done"
        /\ pc[q] = "reply" /\ req[q].input.store => EverStored(q) \/ Heard(q, "failed")
        /\ Answered(q) /\ req[q].input.store => EverStored(q)

\* What the backend holds outlives the process, or the process does not die.
Durable == Backend = "inmem" => "crash" \notin Faults

\* A record carries its payload, or points at an object that was put before.
Readable(r) ==
    IF r.cold_storage_key = NoId THEN r.inline ELSE Holds(r.cold_storage_key)

Payloads ==
    Durable =>
        \A q \in Ids :
            /\ pc[q] = "put" => /\ ColdConfigured
                                /\ rec[q].inline
                                /\ rec[q].cold_storage_key = NoId
            /\ pc[q] = "insert" => Readable(rec[q])
            /\ Stored(q) => Readable(rows[q])

IInv ==
    /\ TypeOK
    /\ Untouched
    /\ Records
    /\ Parents
    /\ Serials
    /\ Chains
    /\ Walks
    /\ Histories
    /\ Lifetimes
    /\ Askings
    /\ Outcomes
    /\ Payloads

=============================================================================
