------------------------- MODULE StreamBridgeInvariant -------------------------
(***************************************************************************)
(* The inductive invariant behind StreamBridge's safety properties.  tee() *)
(* books an announcement when it takes an event and yields it up to three  *)
(* yields later, so most parts speak of Out, the client's stream with what *)
(* is still pending; StreamBridgeProofs proves that they hold together.    *)
(***************************************************************************)
EXTENDS StreamBridge

\* What the client has received and will receive of the events taken so far.
Out == forwarded \o pending

\* Where item i, and part c of it, is announced in Out.
ItemOut(i)    == ItemIn(Out, i)
PartOut(i, c) == PartIn(Out, i, c)

AtMostOne(S) == \A a, b \in S : a = b
AtMostTwo(S) == \A a, b, c \in S : a = b \/ a = c \/ b = c

\* Which fields an event of each type has.
Shapes ==
    \A l \in DOMAIN Out : LET e == Out[l] IN
        /\ e.item \in {e.of, NoItem}
        /\ e.type \in Lifecycle => e.of = NoItem /\ e.id = RewriteId
        /\ e.type \notin Lifecycle => e.of \in Items
        /\ e.type \in MessageTypes => e.of \in Messages
        /\ e.type \in {"item.added", "part.added", "args.delta", "item.done"} => e.item = e.of

\* The stream begins with response.created, and nothing comes before it.
Beginning ==
    /\ count = 0 => open = {} /\ Out = <<>> /\ ~ended
    /\ count # 0 => Out # <<>> /\ Out[1].type = "created"

\* What the upstream told of an item agrees with what the bridge has booked.
Booked ==
    /\ \A i \in Items :
        /\ told[i].late => told[i].added
        /\ told[i].added => i \in announcedItems
        /\ i \in open => ~told[i].done
        /\ i \in open \cap Messages => i \in announcedItems
        /\ i \in announcedItems => told[i].added \/ Begun(i)
    /\ \A i \in Items, c \in Parts :
        <<i, c>> \in announcedParts => c \in told[i].used

\* An item or part is booked as announced exactly when it is announced in Out,
\* and it is a second time only by an upstream that comes late.
Announcements ==
    /\ \A i \in Items : LET at == ItemOut(i) IN
        /\ i \in announcedItems <=> at # {}
        /\ AtMostTwo(at)
        /\ ~told[i].late => AtMostOne(at)
    /\ \A i \in Items, c \in Parts : LET at == PartOut(i, c) IN
        /\ <<i, c>> \in announcedParts <=> at # {}
        /\ AtMostTwo(at)
        /\ c \notin told[i].lateParts => AtMostOne(at)

\* In Out every event comes after the announcements it needs.
Precedence ==
    \A l \in DOMAIN Out : LET e == Out[l] IN
        /\ e.item \in Messages /\ e.type # "item.added" =>
              \E k \in ItemOut(e.item) : k < l
        /\ e.item # NoItem /\ e.type \in TextPartTypes =>
              \E k \in PartOut(e.item, e.part) : k < l

\* Nothing in Out is about an item after its output_item.done.
Closings ==
    \A l \in DOMAIN Out : Out[l].type = "item.done" =>
        /\ told[Out[l].of].done
        /\ \A m \in DOMAIN Out : l < m => Out[m].of # Out[l].of

\* Only a call that was never announced is in Out and not announced.
Accounted ==
    \A l \in DOMAIN Out : LET i == Out[l].of IN
        i \in {NoItem} \cup announcedItems \/ (i \in Calls /\ ~told[i].added)

\* Where the client's stream announces any item.
AddedAt == {k \in DOMAIN forwarded : forwarded[k].type = "item.added"}

\* _item_order is what was forwarded of announcements, in that order.
Listing ==
    /\ Len(order) = Cardinality(AddedAt)
    /\ \A k \in DOMAIN order : order[k] = forwarded[Nth(AddedAt, k)].item

\* _final_response took over the id with the first event.
Identity == forwarded # <<>> => final.id = RewriteId

\* An item that was closed is kept as it was, until stray text hits it.
Closed ==
    \A l \in DOMAIN forwarded :
        /\ forwarded[l].type = "item.done"
        /\ \A m \in Strays : l < m => MessageBefore(m) # forwarded[l].item
        => items[forwarded[l].item] = Known(forwarded[l].content)

\* The pieces the upstream told of an item are those Out brings of it, and
\* output_item.done brings them all again, part by part.
Retold ==
    /\ \A i \in Items : told[i].pieces = PiecesIn(Out, i)
    /\ \A l \in DOMAIN Out : Out[l].type = "item.done" =>
          Out[l].content = ByPart(told[Out[l].of].pieces)

\* An item that was announced is known, and one that comes in order and is not
\* closed holds, as its only part, the pieces received of it.
Gathered ==
    \A i \in Items :
        /\ ItemAdded(i) # {} => items[i].known
        /\ (\A l \in DOMAIN forwarded :
               forwarded[l].of = i => forwarded[l].type # "item.done") /\ Orderly(i) =>
              /\ Len(items[i].content) <= 1
              /\ FlattenSeq(items[i].content) = Received(i)

BridgeInv ==
    /\ TypeOK
    /\ Shapes
    /\ Beginning
    /\ Booked
    /\ Announcements
    /\ Precedence
    /\ Closings
    /\ Accounted
    /\ Listing
    /\ Identity
    /\ Closed
    /\ Retold
    /\ Gathered

================================================================================
