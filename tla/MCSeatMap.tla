------------------------------ MODULE MCSeatMap ------------------------------
(* Bounded instances of SeatMap. *)
EXTENDS SeatMap, FiniteSetsExt, TLC

MCPartnerTotal == [S \in SUBSET Seats |-> 3 * Cardinality(S)]
Symmetry == Permutations(Seats) \cup Permutations(Orders) \cup Permutations(Calls)
=============================================================================
