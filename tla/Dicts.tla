--------------------------------- MODULE Dicts ---------------------------------
(***************************************************************************)
(* Python dicts as functions.  A value is a token that reads as Python     *)
(* writes it: "None", "True", "False" and "1" are what they say, a string  *)
(* that could be taken for one of them keeps its quotes ("'true'").        *)
(***************************************************************************)
EXTENDS TLC, Functions

\* d.get(k)
Get(d, k) == IF k \in DOMAIN d THEN d[k] ELSE "None"

\* d.pop(k, None) for every k in K
Without(d, K) == Restrict(d, DOMAIN d \ K)

\* {**d, **e}
Update(d, e) == [k \in DOMAIN d \cup DOMAIN e |-> IF k \in DOMAIN e THEN e[k] ELSE d[k]]

Bools == {"True", "False"}

\* a == b, where True == 1 and False == 0
PyEqual(a, b) == a = b \/ {a, b} \in {{"True", "1"}, {"False", "0"}}

Truthy(v) == v \notin {"None", "False", "0", "''"}

=============================================================================
