SPECIFICATION Spec
CONSTANTS
  Seats = {s1}
  Orders = {o1, o2}
  Calls = {c1}
  NoOrder = NoOrder
  MaxSeats = 2
  MaxRequests = 3
  PartnerTotal <- MCPartnerTotal
SYMMETRY Symmetry
INVARIANTS
  ExpiredLockIsAvailable
