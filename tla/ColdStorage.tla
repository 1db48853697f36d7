------------------------------ MODULE ColdStorage ------------------------------
(***************************************************************************)
(* The optional object store for large payloads (gateway/storage/cold.py): *)
(* build_cold_storage picks no backend, InMemoryColdStorage or             *)
(* S3ColdStorage.  Keys are fresh uuid4s; a key is named by the response   *)
(* whose payload it holds.  Nothing ever deletes an object.                *)
(***************************************************************************)
CONSTANTS
    ColdKeys,
    Backend     \* "none" (cold.enabled false), "inmem" or "s3"

VARIABLE
    objects     \* keys of the payloads the backend holds

ASSUME BackendAssumption == Backend \in {"none", "inmem", "s3"}

ColdTypeOK == objects \subseteq ColdKeys

ColdInit == objects = {}

\* build_cold_storage returned a backend.
ColdConfigured == Backend # "none"

\* An operation on a key that is fine may fail all the same: S3 is remote.
Fallible == Backend = "s3"

\* put returned its key.
PutObject(k) == objects' = objects \cup {k}

\* put raised or was cancelled: the object may have been written all the same
\* (S3 answers after the write; asyncio.to_thread cannot be interrupted).
PutInterrupted(k) == objects' \in {objects, objects \cup {k}}

\* get raises ColdStorageUnavailableError for a key the backend does not hold.
Holds(k) == ColdConfigured /\ k \in objects

\* The process dies with writes W under way: what InMemoryColdStorage held is
\* lost, S3 keeps its objects and may have completed some of the writes.
ColdCrash(W) ==
    objects' \in IF Backend = "s3" THEN {objects \cup K : K \in SUBSET W} ELSE {{}}

=============================================================================
