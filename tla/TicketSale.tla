------------------------------ MODULE TicketSale ------------------------------
(***************************************************************************)
(* What the booking and payment code promises about the seats of one       *)
(* showtime, seen from outside: an order claims a set of seats nobody has  *)
(* claimed before, and from then on all of its seats move together.  A     *)
(* held order is sold or released; a sale is final.  A release does not    *)
(* return the claim (a seat row keeps its ticket row for ever), and a late *)
(* payment may still turn a released order into a sold one.                *)
(***************************************************************************)
CONSTANTS Seats, Orders

VARIABLES
  claim,   \* the seats each order has claimed
  phase    \* "none" | "held" | "sold" | "released"

vars == <<claim, phase>>

TypeOK ==
  /\ claim \in [Orders -> SUBSET Seats]
  /\ phase \in [Orders -> {"none", "held", "sold", "released"}]

Init ==
  /\ claim = [o \in Orders |-> {}]
  /\ phase = [o \in Orders |-> "none"]

Hold(o, S) ==
  /\ phase[o] = "none"
  /\ S # {}
  /\ \A p \in Orders : claim[p] \cap S = {}
  /\ claim' = [claim EXCEPT ![o] = S]
  /\ phase' = [phase EXCEPT ![o] = "held"]

Sell(o) ==
  /\ phase[o] \in {"held", "released"}
  /\ phase' = [phase EXCEPT ![o] = "sold"]
  /\ UNCHANGED claim

\* The cleanup job releases the orders of one scan in one statement.
Release(O) ==
  /\ \A o \in O : phase[o] = "held"
  /\ phase' = [o \in Orders |-> IF o \in O THEN "released" ELSE phase[o]]
  /\ UNCHANGED claim

Next ==
  \/ \E o \in Orders, S \in SUBSET Seats : Hold(o, S)
  \/ \E o \in Orders : Sell(o)
  \/ \E O \in SUBSET Orders : Release(O)

Spec == Init /\ [][Next]_vars
=============================================================================
