-------------------------- MODULE GatewayConversations --------------------------
(***************************************************************************)
(* Gateway implements Conversations: a request is asked when its input is  *)
(* handed to litellm, kept when its row is committed, answered when the    *)
(* client has the whole answer, and forgotten when its row is purged.      *)
(***************************************************************************)
EXTENDS Gateway

CONSTANT Unasked

ASSUME UnaskedAssumption == Unasked \notin Seq(Ids)

\* The response that request q continues, and the line it was asked with.
Line(turns)  == [i \in DOMAIN turns |-> turns[i].of]
Continued(q) == IF Asked(q) THEN req[q].prev ELSE NoId
Carried(q)   == IF Asked(q) THEN Line(Past(q)) ELSE Unasked

C == INSTANCE Conversations WITH
    parent    <- [q \in Ids |-> Continued(q)],
    lineage   <- [q \in Ids |-> Carried(q)],
    promised  <- {q \in Ids : Asked(q) /\ req[q].input.store},
    kept      <- {q \in Ids : EverStored(q)},
    forgotten <- purged,
    answered  <- {q \in Ids : Answered(q)}

(***************************************************************************)
(* Every behaviour of the gateway is one of Conversations: the many reads  *)
(* of a walk, spread over other handlers' commits and over purges, look    *)
(* like a lineage taken at once, and no answer precedes its commit.        *)
(***************************************************************************)
ImplementsConversations == C!CSpec

=============================================================================
