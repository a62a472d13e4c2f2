---------------------------- MODULE MCWithdrawals ----------------------------
(***************************************************************************)
(* Withdrawals on a small instance for TLC.                                *)
(***************************************************************************)
EXTENDS Withdrawals, TLC

MCAmount == [w \in Requests |-> 2]

Symmetry == Permutations(Requests) \cup Permutations(Calls)
=============================================================================
