-------------------------- MODULE RequestPathInvariant --------------------------
(***************************************************************************)
(* The inductive invariants of RequestPath: RequestInv, from which         *)
(* AliasDecides, OnlyTimeoutsCollide, NothingRejectedIsSent and            *)
(* StrippedAddsUp follow, and beside it DialogueInv, for the dialogue.     *)
(* TLC checks them on the deployments of MCRequestPath; RequestPathProofs  *)
(* and DialogueProofs prove them for all.                                  *)
(***************************************************************************)
EXTENDS RequestPath

TurnFields == {"client", "prev", "verdict", "outcome", "sent"}

\* No request is served by a process that has not started.
Starting == stage \in {"boot", "refused"} => turns = <<>>

\* Every request was judged by the configuration that is in force, and one that
\* was refused ended there.
Judged ==
    /\ turns \in Seq(Range(turns))
    /\ \A t \in DOMAIN turns :
          /\ DOMAIN turns[t] = TurnFields
          /\ "tools" \in DOMAIN turns[t].client => turns[t].client.tools \in Seq(STRING)
          /\ turns[t].verdict = Validate(Reject, turns[t].client)
          /\ turns[t].outcome = "422" <=> turns[t].verdict.raises

\* Until it is called, the request underway is what the validator left of it,
\* without `store`, and from resolve() on with another input.
Underway ==
    /\ stage \in {"resolve", "call"} => turns # <<>> /\ turns[This].outcome = "open"
    /\ stage = "resolve" => request = PopStore(Left(This))
    /\ stage = "call" => Without(request, {"input"}) = Without(Left(This), {"store", "input"})

\* What neither the alias nor the gateway sets is sent as the client asked for
\* it, and it asked for it; `store` is not for the provider.
NothingElseIsSent ==
    \A t \in Called : LET sent == turns[t].sent IN
        \A k \in DOMAIN sent \ (DOMAIN Params(t) \cup DOMAIN Own \cup {"input", "stream"}) :
            k # "store" /\ k \in DOMAIN Left(t) /\ sent[k] = Left(t)[k]

(***************************************************************************)
(* From the verdict of the validator to the keyword arguments, what is     *)
(* sent of a request is accounted for, while it is underway and after.     *)
(***************************************************************************)
RequestInv ==
    /\ scene \in Scenes
    /\ Starting
    /\ Judged
    /\ Underway
    /\ AliasDecides
    /\ NothingElseIsSent
    /\ OnlyTimeoutsCollide

-----------------------------------------------------------------------------
\* The provers do not know that "assistant" is a STRING.
Item == [role : STRING \cup {"assistant"}, of : Nat, side : {"in", "out"}, at : Nat]

\* The items of one side of request t, each at its place.
AreItems(items, t, side) ==
    /\ items \in Seq(Item)
    /\ \A k \in DOMAIN items : items[k].of = t /\ items[k].side = side /\ items[k].at = k

HasRole(items, role) == \E k \in DOMAIN items : items[k].role = role

\* A row is a turn that was answered, with what its own request and answer had.
RowsAreTurns ==
    \A q \in DOMAIN rows :
        /\ q \in Called
        /\ rows[q].parent = turns[q].prev
        /\ rows[q].input = Input(Left(q))
        /\ AreItems(rows[q].output, q, "out")

\* A request continues an earlier one that has a row, and answers its calls.
TurnsFollow ==
    \A t \in DOMAIN turns :
        LET prev == turns[t].prev  client == turns[t].client
        IN  /\ prev \in DOMAIN rows \cup {0} /\ prev < t
            /\ "input" \in DOMAIN client /\ AreItems(client.input.items, t, "in")
            /\ HasRole(client.input.items, "function_call_output") =>
                  prev # 0 /\ HasRole(rows[prev].output, "function_call")

\* What the rows before request t tell, and after it what is left of its input.
Told(t) == Reconstruct(Chain(rows, turns[t].prev)) \o Normalize(Input(Left(t)))

\* That is the input the request is called with, and it stays so afterwards.
TellsAll ==
    /\ stage = "call" => Normalize(Input(request)) = Told(This)
    /\ \A t \in Continued : Dialogue(t) = Told(t)

(***************************************************************************)
(* From the stored rows to what the provider is told: the second inductive *)
(* invariant, from which DialogueInOrder, DialogueIsWhole and              *)
(* CallsComeFirst follow.                                                  *)
(***************************************************************************)
DialogueInv == RowsAreTurns /\ TurnsFollow /\ TellsAll

===============================================================================
