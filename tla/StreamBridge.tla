------------------------------ MODULE StreamBridge ------------------------------
(***************************************************************************)
(* gateway/streaming.py: one StreamBridge between one upstream iterator    *)
(* and one streaming client.  tee() takes an upstream event, works out the *)
(* announcements the upstream left out, and yields those and then the      *)
(* event, consuming each into the final state just before it is yielded;   *)
(* at the end final_state() is what SessionRecorder stores.  "As a bug:"   *)
(* introduces operators as in Gateway.                                     *)
(*                                                                         *)
(* The upstream (litellm over some provider) is modelled from what         *)
(* streaming.py, its tests and the Responses event protocol say of it, and *)
(* may take the Liberties below.                                           *)
(* A delta's payload is a piece: the item and the content part the         *)
(* upstream means it for, whether or not the event names them.             *)
(***************************************************************************)
EXTENDS Positions, Naturals, Sequences, FiniteSets, SequencesExt

CONSTANTS
    Messages,   \* ids of message items
    Calls,      \* ids of function_call items
    Parts,      \* content_index values
    NoItem,     \* an event without item or item_id
    UpstreamId, \* the id litellm gives the response
    RewriteId,  \* the gateway's id for it
    Liberties,  \* see LibertyKinds
    MaxEvents   \* bound on the number of upstream events before the end

(***************************************************************************)
(*   silent     messages, and their parts, go unannounced ("observed: GLM  *)
(*              via LiteLLM", tee)                                         *)
(*   hidden     calls go unannounced                                       *)
(*   late       an announcement comes after what it announces              *)
(*   parallel   several items are open at once                             *)
(*   anonymous  text events without item_id (test_streaming.py)            *)
(*   abrupt     the response ends with an item still open                  *)
(***************************************************************************)
LibertyKinds == {"silent", "hidden", "late", "parallel", "anonymous", "abrupt"}

Items == Messages \cup Calls

ASSUME BridgeAssumption ==
    /\ Messages \cap Calls = {}
    /\ NoItem \notin Items
    /\ Parts \subseteq Nat
    /\ UpstreamId # RewriteId
    /\ Liberties \subseteq LibertyKinds
    /\ MaxEvents \in Nat

Ends == {"completed", "failed", "incomplete"}

\* _LIFECYCLE_EVENT_TYPES (response.in_progress is forwarded like created).
Lifecycle == {"created"} \cup Ends

\* _TEXT_PART_EVENT_TYPES and the rest of _MESSAGE_EVENT_TYPES; "other" is
\* refusal.delta, refusal.done and content_part.done, whose content only
\* output_item.done keeps.
TextPartTypes == {"text.delta", "text.done"}
MessageTypes  == TextPartTypes \cup {"part.added", "other"}

EventTypes == Lifecycle \cup MessageTypes
              \cup {"item.added", "args.delta", "item.done"}

Piece == [of : Items, part : Parts \cup {0}]

(***************************************************************************)
(* item is the id the event carries; of and part say what the upstream     *)
(* means; content is what output_item.done holds, part by part; id is      *)
(* response.id of a lifecycle event.                                       *)
(***************************************************************************)
Event == [type : EventTypes, item : Items \cup {NoItem},
          of : Items \cup {NoItem}, part : Parts \cup {0},
          content : Seq(Seq(Piece)), id : {UpstreamId, RewriteId}]

VARIABLES
    open,       \* upstream: the items it is working on
    told,       \* upstream: what it has emitted of each item
    count,      \* upstream: how many events it has emitted
    ended,      \* upstream: the iterator is exhausted
    pending,    \* events tee() has still to yield for the current one
    items,      \* _items_by_id: the content parts, or arguments, of each item
    order,      \* _item_order
    final,      \* _final_response: its id and status
    announcedItems, announcedParts,
    forwarded   \* what the client has received

upstream   == <<open, told, count, ended>>
bookkeeping == <<announcedItems, announcedParts>>
vars == <<upstream, pending, items, order, final, bookkeeping, forwarded>>

\* An item that is not in _items_by_id.
Missing == [known |-> FALSE, content |-> <<>>]
Known(content) == [known |-> TRUE, content |-> content]

-----------------------------------------------------------------------------
(***************************************************************************)
(* _synthesize_missing_announcements: the events to yield before e, and    *)
(* the announcements known afterwards.                                     *)
(***************************************************************************)
Synthetic(type, e) == [e EXCEPT !.type = type, !.content = <<>>]

\* As a bug: content_part.added does not fall through to the announcement of
\* its item (WellFormed).
SynthItemForTextOnly(e) ==
    IF e.type \in MessageTypes \ {"part.added"} /\ e.item # NoItem
       /\ e.item \notin announcedItems
    THEN <<Synthetic("item.added", e)>> ELSE <<>>

SynthItem(e) ==
    IF e.type \in MessageTypes /\ e.item # NoItem /\ e.item \notin announcedItems
    THEN <<Synthetic("item.added", e)>> ELSE <<>>

SynthPart(e) ==
    IF e.type \in TextPartTypes /\ e.item # NoItem
       /\ <<e.item, e.part>> \notin announcedParts
    THEN <<Synthetic("part.added", e)>> ELSE <<>>

\* As a bug: an event without item_id is booked too (TypeOK).
BookAnything(e) ==
    /\ announcedItems' = IF e.type \in MessageTypes \cup {"item.added"}
                         THEN announcedItems \cup {e.item} ELSE announcedItems
    /\ announcedParts' = announcedParts

\* As a bug: the upstream's own announcements are not booked (AnnouncedOnce,
\* BridgeInv).
BookSynthetic(e) ==
    /\ announcedItems' = IF e.item # NoItem /\ e.type \in MessageTypes
                         THEN announcedItems \cup {e.item} ELSE announcedItems
    /\ announcedParts' = IF e.item # NoItem /\ e.type \in TextPartTypes
                         THEN announcedParts \cup {<<e.item, e.part>>} ELSE announcedParts

SynthesizeMissingAnnouncements(e) ==
    /\ announcedItems' = IF e.item # NoItem /\ e.type \in MessageTypes \cup {"item.added"}
                         THEN announcedItems \cup {e.item} ELSE announcedItems
    /\ announcedParts' = IF e.item # NoItem /\ e.type \in TextPartTypes \cup {"part.added"}
                         THEN announcedParts \cup {<<e.item, e.part>>} ELSE announcedParts

\* As a bug: only response.created is rewritten (OneResponseId).
RewriteCreatedOnly(e) == IF e.type = "created" THEN [e EXCEPT !.id = RewriteId] ELSE e

\* _maybe_rewrite_id.
MaybeRewriteId(e) == IF e.type \in Lifecycle THEN [e EXCEPT !.id = RewriteId] ELSE e

\* tee, up to the first yield: the upstream produces e.
Take(e) ==
    /\ pending = <<>>
    /\ ~ended
    /\ count < MaxEvents \/ (e.type \in Ends /\ count = MaxEvents)
    /\ count' = count + 1
    /\ pending' = SynthItem(e) \o SynthPart(e) \o <<MaybeRewriteId(e)>>
    /\ SynthesizeMissingAnnouncements(e)
    /\ UNCHANGED <<items, order, final, forwarded>>

-----------------------------------------------------------------------------
\* As a bug: _item_order is not reversed (FinalMirrorsStream).
FirstMessage ==
    LET known == {k \in DOMAIN order : order[k] \in Messages}
    IN  IF known = {} THEN NoItem
        ELSE order[CHOOSE k \in known : \A l \in known : k <= l]

\* _latest_item_of_type("message"): NoItem if there is none.
LatestMessage ==
    LET known == {k \in DOMAIN order : order[k] \in Messages}
    IN  IF known = {} THEN NoItem
        ELSE order[CHOOSE k \in known : \A l \in known : l <= k]

\* The piece of a delta is appended to the last part of item i (its only part,
\* unless output_item.done brought more), if there is an item to append to.
AppendTo(i, e) ==
    LET piece == [of |-> e.of, part |-> e.part]
        Longer(content) == IF content = <<>> THEN <<<<piece>>>>
                           ELSE [content EXCEPT ![Len(content)] = Append(@, piece)]
    IN  items' = IF i = NoItem THEN items ELSE [items EXCEPT ![i].content = Longer(@)]

(***************************************************************************)
(* _consume.  response.failed and response.incomplete change nothing;      *)
(* response.completed only takes over the usage, which is left out.        *)
(***************************************************************************)
ConsumeCreated(e) ==
    /\ e.type = "created"
    /\ final' = [id |-> e.id, status |-> "in_progress"]
    /\ UNCHANGED <<items, order>>

\* As a bug: an item that is known already is not listed again
\* (FinalListsItems).
ConsumeItemAddedOnce(e) ==
    /\ e.type = "item.added"
    /\ items' = [items EXCEPT ![e.item] = Known(<<>>)]
    /\ order' = IF items[e.item].known THEN order ELSE Append(order, e.item)
    /\ UNCHANGED final

ConsumeItemAdded(e) ==
    /\ e.type = "item.added"
    /\ items' = [items EXCEPT ![e.item] = Known(<<>>)]
    /\ order' = Append(order, e.item)
    /\ UNCHANGED final

ConsumeTextDelta(e) ==
    /\ e.type = "text.delta"
    /\ AppendTo(LatestMessage, e)
    /\ UNCHANGED <<order, final>>

ConsumeArgumentsDelta(e) ==
    /\ e.type = "args.delta"
    /\ AppendTo(IF items[e.item].known THEN e.item ELSE NoItem, e)
    /\ UNCHANGED <<order, final>>

\* As a bug: what the deltas left is kept (ClosedIsExact).
ConsumeItemDoneIfEmpty(e) ==
    /\ e.type = "item.done"
    /\ items' = [items EXCEPT ![e.item] = IF @.content = <<>> THEN Known(e.content) ELSE @]
    /\ UNCHANGED <<order, final>>

ConsumeItemDone(e) ==
    /\ e.type = "item.done"
    /\ items' = [items EXCEPT ![e.item] = Known(e.content)]
    /\ UNCHANGED <<order, final>>

ConsumeNothing(e) ==
    /\ e.type \in (MessageTypes \ {"text.delta"}) \cup Ends
    /\ UNCHANGED <<items, order, final>>

Consume(e) ==
    \/ ConsumeCreated(e)
    \/ ConsumeItemAdded(e)
    \/ ConsumeTextDelta(e)
    \/ ConsumeArgumentsDelta(e)
    \/ ConsumeItemDone(e)
    \/ ConsumeNothing(e)

\* tee: the next event is consumed and yielded.
Yield ==
    /\ pending # <<>>
    /\ Consume(Head(pending))
    /\ forwarded' = Append(forwarded, Head(pending))
    /\ pending' = Tail(pending)
    /\ UNCHANGED <<upstream, bookkeeping>>

\* final_state().
FinalOutput == [k \in DOMAIN order |-> [id |-> order[k], content |-> items[order[k]].content]]

-----------------------------------------------------------------------------
(***************************************************************************)
(* The upstream.  told[i] records of item i whether it, and which of its   *)
(* parts, were announced, what of that came late, the parts its events     *)
(* were about, the pieces emitted and whether it is done.                  *)
(***************************************************************************)
Untold == [added |-> FALSE, parts |-> {}, late |-> FALSE, lateParts |-> {},
           used |-> {}, pieces |-> <<>>, done |-> FALSE]

Telling == [added : BOOLEAN, parts : SUBSET Parts, late : BOOLEAN,
            lateParts : SUBSET Parts, used : SUBSET Parts,
            pieces : Seq(Piece), done : BOOLEAN]

May(liberty) == liberty \in Liberties

\* Pieces sorted into content parts, in the order of content_index.
ByPart(pieces) ==
    LET parts == {pieces[k].part : k \in DOMAIN pieces}
        At(c) == {k \in DOMAIN pieces : pieces[k].part = c}
    IN  [n \in 1..Cardinality(parts) |-> Pick(pieces, At(Nth(parts, n)))]

Plain(type, i, c) == [type |-> type, item |-> i, of |-> i, part |-> c,
                      content |-> <<>>, id |-> UpstreamId]

\* The same event, or, of an item that was announced, without its item_id.
Naming(e) ==
    {e} \cup IF May("anonymous") /\ told[e.item].added
             THEN {[e EXCEPT !.item = NoItem]} ELSE {}

Started == count > 0

Begun(i) == told[i].used # {} \/ told[i].pieces # <<>>

CanWorkOn(i) == Started /\ (open \subseteq {i} \/ May("parallel")) /\ ~told[i].done

\* Item i may be written to: it was announced, or need not be.
Writable(i) ==
    CanWorkOn(i) /\ (told[i].added \/ May(IF i \in Messages THEN "silent" ELSE "hidden"))

UpCreated ==
    /\ ~Started
    /\ Take(Plain("created", NoItem, 0))
    /\ UNCHANGED <<open, told, ended>>

\* Work goes on on item i, about which t is told.
Work(i, t) ==
    /\ open' = open \cup {i}
    /\ told' = [told EXCEPT ![i] = t]
    /\ UNCHANGED ended

UpItemAdded(i) ==
    /\ CanWorkOn(i)
    /\ ~told[i].added
    /\ Begun(i) => May("late")
    /\ Take(Plain("item.added", i, 0))
    /\ Work(i, [told[i] EXCEPT !.added = TRUE, !.late = Begun(i)])

UpPartAdded(i, c) ==
    /\ Writable(i)
    /\ c \notin told[i].parts
    /\ c \in told[i].used => May("late")
    /\ Take(Plain("part.added", i, c))
    /\ Work(i, [told[i] EXCEPT !.parts = @ \cup {c}, !.used = @ \cup {c},
                               !.lateParts = @ \cup ({c} \cap told[i].used)])

UpText(i, c, type) ==
    /\ Writable(i)
    /\ c \in told[i].parts \/ May("silent")
    /\ \E e \in Naming(Plain(type, i, c)) : Take(e)
    /\ Work(i, [told[i] EXCEPT !.used = @ \cup {c},
                !.pieces = IF type = "text.delta"
                           THEN Append(@, [of |-> i, part |-> c]) ELSE @])

UpOther(i, c) ==
    /\ Writable(i)
    /\ c \in told[i].parts
    /\ Take(Plain("other", i, c))
    /\ Work(i, told[i])

UpArguments(i) ==
    /\ Writable(i)
    /\ Take(Plain("args.delta", i, 0))
    /\ Work(i, [told[i] EXCEPT !.pieces = Append(@, [of |-> i, part |-> 0])])

UpItemDone(i) ==
    /\ i \in open
    /\ Take([Plain("item.done", i, 0) EXCEPT !.content = ByPart(told[i].pieces)])
    /\ told' = [told EXCEPT ![i].done = TRUE]
    /\ open' = open \ {i}
    /\ UNCHANGED ended

\* The response's own end; a completed response has closed its items.
UpEnds(type) ==
    /\ Started
    /\ open = {} \/ (May("abrupt") /\ type # "completed")
    /\ Take(Plain(type, NoItem, 0))
    /\ ended' = TRUE
    /\ UNCHANGED <<open, told>>

-----------------------------------------------------------------------------
Init ==
    /\ open = {}
    /\ told = [i \in Items |-> Untold]
    /\ count = 0
    /\ ended = FALSE
    /\ pending = <<>>
    /\ items = [i \in Items |-> Missing]
    /\ order = <<>>
    /\ final = [id |-> UpstreamId, status |-> "none"]
    /\ announcedItems = {}
    /\ announcedParts = {}
    /\ forwarded = <<>>

Upstream ==
    \/ UpCreated
    \/ \E i \in Items :
        UpItemAdded(i) \/ UpItemDone(i)
    \/ \E i \in Calls : UpArguments(i)
    \/ \E i \in Messages, c \in Parts :
        \/ UpPartAdded(i, c)
        \/ \E type \in TextPartTypes : UpText(i, c, type)
        \/ UpOther(i, c)
    \/ \E type \in Ends : UpEnds(type)

Next == Upstream \/ Yield

Spec == Init /\ [][Next]_vars

-----------------------------------------------------------------------------
TypeOK ==
    /\ open \subseteq Items
    /\ told \in [Items -> Telling]
    /\ \A i \in Items : /\ told[i].lateParts \subseteq told[i].parts
                        /\ told[i].parts \subseteq told[i].used
    /\ count \in 0..MaxEvents + 1
    /\ ended \in BOOLEAN
    /\ pending \in Seq(Event)
    /\ items \in [Items -> [known : BOOLEAN, content : Seq(Seq(Piece))]]
    /\ order \in Seq(Items)
    /\ final \in [id : {UpstreamId, RewriteId}, status : {"none", "in_progress"}]
    /\ announcedItems \subseteq Items
    /\ announcedParts \subseteq Items \X (Parts \cup {0})
    /\ forwarded \in Seq(Event)

\* Where a stream announces item i, and part c of it.
ItemIn(stream, i) ==
    {k \in DOMAIN stream : stream[k].type = "item.added" /\ stream[k].item = i}
PartIn(stream, i, c) ==
    {k \in DOMAIN stream : /\ stream[k].type = "part.added"
                           /\ stream[k].item = i
                           /\ stream[k].part = c}

\* Where the client's does.
ItemAdded(i)    == ItemIn(forwarded, i)
PartAdded(i, c) == PartIn(forwarded, i, c)

(***************************************************************************)
(* "The protocol surface stays well-formed" (tee): whatever the upstream   *)
(* leaves out or brings late, a client that rejects unknown messages or    *)
(* parts accepts every event: a part is announced after its item, text     *)
(* after its part, and a message is closed after it was announced.         *)
(***************************************************************************)
WellFormed ==
    \A l \in DOMAIN forwarded :
        LET e == forwarded[l] IN
        /\ e.item \in Messages /\ e.type # "item.added" =>
              \E k \in ItemAdded(e.item) : k < l
        /\ e.item # NoItem /\ e.type \in TextPartTypes =>
              \E k \in PartAdded(e.item, e.part) : k < l

(***************************************************************************)
(* No item and no part is announced twice, by the upstream and by the      *)
(* bridge or by the bridge alone; only an announcement the upstream itself *)
(* brings after its item's or part's first event comes a second time.      *)
(***************************************************************************)
AnnouncedOnce ==
    \A i \in Items :
        /\ Cardinality(ItemAdded(i)) <= IF told[i].late THEN 2 ELSE 1
        /\ \A c \in Parts :
              Cardinality(PartAdded(i, c)) <= IF c \in told[i].lateParts THEN 2 ELSE 1

\* The stream is over and the client has all of it.
Finished == ended /\ pending = <<>>

\* Where a stream brings text or arguments of item i, and these.
DeltasIn(stream, i) ==
    {k \in DOMAIN stream : stream[k].of = i /\ stream[k].type \in {"text.delta", "args.delta"}}
PiecesIn(stream, i) ==
    LET deltas == Pick(stream, DeltasIn(stream, i))
    IN  [n \in DOMAIN deltas |-> [of |-> i, part |-> deltas[n].part]]

\* Where the client's does.
Deltas(i)   == DeltasIn(forwarded, i)
Received(i) == PiecesIn(forwarded, i)

\* The message announced last before event l of the client's stream.
MessageBefore(l) ==
    LET at == {k \in 1..l - 1 : /\ forwarded[k].type = "item.added"
                                /\ forwarded[k].item \in Messages}
    IN  IF at = {} THEN NoItem ELSE forwarded[Max(at)].item

\* Text that an upstream with several open messages sends for an older one.
Strays ==
    {l \in DOMAIN forwarded : forwarded[l].type = "text.delta"
                              /\ forwarded[l].of # MessageBefore(l)}

\* Item i was announced once, before its text, and no stray text is its own
\* or could be taken for its own.
Orderly(i) ==
    /\ \E k \in DOMAIN forwarded : ItemAdded(i) = {k} /\ \A l \in Deltas(i) : k < l
    /\ \A l \in Strays : i \notin {forwarded[l].of, MessageBefore(l)}

(***************************************************************************)
(* What is stored lists the items the client saw announced, each time it   *)
(* did, in that order, at every moment of the stream.                      *)
(***************************************************************************)
FinalListsItems ==
    /\ Len(FinalOutput) = Cardinality(UNION {ItemAdded(i) : i \in Items})
    /\ \A k, l \in DOMAIN FinalOutput : k < l =>
          \E a \in ItemAdded(FinalOutput[k].id), b \in ItemAdded(FinalOutput[l].id) : a < b

(***************************************************************************)
(* "The final state mirrors what a non-streaming response would have       *)
(* looked like" (streaming.py): an item that came in order is stored with  *)
(* exactly the text the client received of it, closed or cut off.          *)
(***************************************************************************)
FinalMirrorsStream ==
    Finished =>
        \A k \in DOMAIN FinalOutput : LET out == FinalOutput[k] IN
            Orderly(out.id) =>
                ByPart(FlattenSeq(out.content)) = ByPart(Received(out.id))

(***************************************************************************)
(* output_item.done is the last word on an item: however its announcement  *)
(* and text came, it is stored as it was closed, part by part, unless      *)
(* stray text of another message is taken for its own afterwards.          *)
(***************************************************************************)
ClosedIsExact ==
    Finished =>
        \A k \in DOMAIN FinalOutput, l \in DOMAIN forwarded :
            /\ forwarded[l].type = "item.done"
            /\ forwarded[l].item = FinalOutput[k].id
            /\ \A m \in Strays : m > l => MessageBefore(m) # FinalOutput[k].id
            => FinalOutput[k].content = forwarded[l].content

(***************************************************************************)
(* Whatever the client was shown of the output is stored, in some form;    *)
(* only a call that the provider never announced is not.                   *)
(***************************************************************************)
OnlyHiddenCallsAreLost ==
    Finished =>
        \A l \in DOMAIN forwarded : LET i == forwarded[l].of IN
            \/ i = NoItem
            \/ i \in Calls /\ ~told[i].added
            \/ \E k \in DOMAIN FinalOutput : FinalOutput[k].id = i

(***************************************************************************)
(* The id the client heard first is the id of every lifecycle event and of *)
(* what is stored.                                                         *)
(***************************************************************************)
OneResponseId ==
    /\ \A k \in DOMAIN forwarded :
          forwarded[k].type \in Lifecycle => forwarded[k].id = forwarded[1].id
    /\ Finished => final.id = forwarded[1].id

-----------------------------------------------------------------------------
(***************************************************************************)
(* What streaming.py says and does not do: the stored response has the     *)
(* status the stream ended with, as a non-streaming response would.        *)
(***************************************************************************)
FinalHasStatus ==
    \A k \in DOMAIN forwarded :
        Finished /\ forwarded[k].type \in Ends => final.status = forwarded[k].type

=============================================================================
