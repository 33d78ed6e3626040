-------------------------------- MODULE Ranks --------------------------------
(***************************************************************************)
(* The elements of a finite set of integers in order, and of a sequence    *)
(* those at a set of positions.                                            *)
(***************************************************************************)
EXTENDS Integers, FiniteSets

Rank(t, S) == Cardinality({u \in S : u <= t})
Ascending(S) == [n \in 1 .. Cardinality(S) |-> CHOOSE t \in S : Rank(t, S) = n]
Sublist(s, positions) ==
  LET at == Ascending(positions) IN [n \in DOMAIN at |-> s[at[n]]]
=============================================================================
