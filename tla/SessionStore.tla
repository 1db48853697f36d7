----------------------------- MODULE SessionStore -----------------------------
(***************************************************************************)
(* The `sessions` table (gateway/session/models.py) and the operations     *)
(* SessionStore offers on it (gateway/session/store.py).  A row is written *)
(* once, read by primary key, and leaves the table only through            *)
(* delete_expired.  Each operation opens its own session and is one        *)
(* statement or one commit, so it is one atomic step.                      *)
(*                                                                         *)
(* A response id names the request it was minted for.  The columns the     *)
(* gateway only copies (model, usage_json) are left out; input_json and    *)
(* output_json are always set or cleared together and become `inline`.     *)
(***************************************************************************)
EXTENDS Naturals

CONSTANTS
    Ids,        \* gateway-assigned response ids (resp_<uuid7>)
    NoId,       \* None, in the columns and arguments that may be null
    NoRow,      \* what get_by_id returns for an absent row
    Providers,  \* provider labels
    TTL         \* session.default_ttl_days

VARIABLES
    rows,       \* the table: id -> row, NoRow where there is none
    purged      \* auxiliary: the ids delete_expired has removed

storeVars == <<rows, purged>>

ASSUME StoreAssumption ==
    /\ NoId \notin Ids
    /\ TTL \in Nat

(***************************************************************************)
(* SessionRecord / SessionRow.  cold_storage_key is the id whose payload   *)
(* was put under that key.                                                 *)
(***************************************************************************)
Row == [id : Ids, session_id : Ids, parent_id : Ids \cup {NoId},
        provider : Providers, inline : BOOLEAN,
        cold_storage_key : Ids \cup {NoId}, created_at : Nat, ttl_at : Nat]

ASSUME NoRowAssumption == NoRow \notin Row

StoreTypeOK ==
    /\ rows \in [Ids -> Row \cup {NoRow}]
    /\ purged \subseteq Ids

StoreInit ==
    /\ rows = [i \in Ids |-> NoRow]
    /\ purged = {}

Stored(i) == rows[i] # NoRow

\* A response that is in the table or was until it expired.
EverStored(i) == Stored(i) \/ i \in purged

-----------------------------------------------------------------------------
\* get_by_id: the row, or NoRow.  Any string may be asked for.
GetById(i) == IF i \in Ids THEN rows[i] ELSE NoRow

\* insert: the primary key admits one row per id.
InsertRow(rec) ==
    /\ ~Stored(rec.id)
    /\ rows' = [rows EXCEPT ![rec.id] = rec]
    /\ UNCHANGED purged

\* The strict comparison both SessionResolver.resolve and delete_expired use.
Expired(row, t) == row.ttl_at < t

\* The WHERE clause of delete_expired.
Doomed(t) == {i \in Ids : Stored(i) /\ Expired(rows[i], t)}

\* As a bug: expired rows are deleted one at a time, in any order
\* (Gateway's PurgedFromTheRoot).
DeleteOneExpired(t) ==
    \E i \in Doomed(t) :
        /\ rows' = [rows EXCEPT ![i] = NoRow]
        /\ purged' = purged \cup {i}

\* delete_expired: one DELETE removes every row past its ttl.
DeleteExpired(t) ==
    /\ Doomed(t) # {}
    /\ rows' = [i \in Ids |-> IF i \in Doomed(t) THEN NoRow ELSE rows[i]]
    /\ purged' = purged \cup Doomed(t)

=============================================================================
