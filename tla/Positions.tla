-------------------------------- MODULE Positions --------------------------------
(***************************************************************************)
(* Selections from a sequence by position, in the order of the sequence.   *)
(***************************************************************************)
EXTENDS Naturals, Sequences, FiniteSets

\* The n-th smallest of a set of numbers, and what s holds at positions P.
Nth(S, n)  == CHOOSE k \in S : Cardinality({l \in S : l <= k}) = n
Pick(s, P) == [n \in 1..Cardinality(P) |-> s[Nth(P, n)]]

===================================================================================
