------------------------------ MODULE MCBooking ------------------------------
(***************************************************************************)
(* Booking on a small instance for TLC.                                    *)
(***************************************************************************)
EXTENDS Booking, TLC

MCPartnerTotal == [S \in SUBSET Seats |-> 3 * Cardinality(S)]

Symmetry == Permutations(Seats) \cup Permutations(Orders) \cup Permutations(Calls)
=============================================================================
