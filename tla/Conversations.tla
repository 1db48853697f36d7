----------------------------- MODULE Conversations -----------------------------
(***************************************************************************)
(* What the gateway promises of stored conversations, without handlers,    *)
(* tables, reads or crashes: a growing forest of responses.  A request     *)
(* asks with the lineage of the response it continues; its own response    *)
(* may then be kept; and a client that asked for it to be kept is answered *)
(* only after it was.  Kept responses may be forgotten, oldest first.      *)
(***************************************************************************)
EXTENDS Naturals, Sequences

CONSTANTS
    Ids,        \* responses
    NoId,       \* the parent of a root
    Unasked     \* the lineage of a request that has not been asked

VARIABLES
    parent,     \* the response each request continues
    lineage,    \* the responses each request was asked with, oldest first
    promised,   \* requests whose response is to be kept
    kept,       \* responses kept, now or formerly
    forgotten,  \* those that were kept and are no longer
    answered    \* requests whose client has the answer

cvars == <<parent, lineage, promised, kept, forgotten, answered>>

CInit ==
    /\ parent = [q \in Ids |-> NoId]
    /\ lineage = [q \in Ids |-> Unasked]
    /\ promised = {}
    /\ kept = {}
    /\ forgotten = {}
    /\ answered = {}

\* s is an unbroken line of kept responses from p back to a root, or back to
\* where the line was forgotten.
IsLineage(s, p) ==
    /\ s \in Seq(kept)
    /\ s # <<>> => s[Len(s)] = p
    /\ \A i \in 1..Len(s) - 1 : s[i] = parent[s[i + 1]]
    /\ (IF s = <<>> THEN p ELSE parent[s[1]]) \in forgotten \cup {NoId}

Ask(q) ==
    /\ lineage[q] = Unasked
    /\ \E p \in kept \cup {NoId} :
        /\ parent' = [parent EXCEPT ![q] = p]
        /\ IsLineage(lineage'[q], p)
    /\ lineage' = [lineage EXCEPT ![q] = lineage'[q]]
    /\ promised' \in {promised, promised \cup {q}}
    /\ UNCHANGED <<kept, forgotten, answered>>

\* Several at once: a crash may reveal several commits.
Keep(S) ==
    /\ S \subseteq promised \ kept
    /\ S # {}
    /\ kept' = kept \cup S
    /\ UNCHANGED <<parent, lineage, promised, forgotten, answered>>

Answer(q) ==
    /\ lineage[q] # Unasked
    /\ q \in promised => q \in kept
    /\ answered' = answered \cup {q}
    /\ UNCHANGED <<parent, lineage, promised, kept, forgotten>>

Forget(S) ==
    /\ S # {}
    /\ S \subseteq kept \ forgotten
    /\ \A q \in S : parent[q] \in S \cup forgotten \cup {NoId}
    /\ forgotten' = forgotten \cup S
    /\ UNCHANGED <<parent, lineage, promised, kept, answered>>

CNext ==
    \/ \E q \in Ids : Ask(q) \/ Answer(q)
    \/ \E S \in SUBSET Ids : Keep(S) \/ Forget(S)

CSpec == CInit /\ [][CNext]_cvars

=============================================================================
