SPECIFICATION Spec
CONSTANTS
  Seats = {s1}
  Orders = {o1}
  Calls = {c1, c2}
  NoOrder = NoOrder
  MaxSeats = 2
  MaxRequests = 4
  PartnerTotal <- MCPartnerTotal
SYMMETRY Symmetry
INVARIANTS
  CreditedOnce
