SPECIFICATION Spec
CONSTANTS
  Seats = {s1, s2}
  Orders = {o1}
  Calls = {c1, c2, c3}
  NoOrder = NoOrder
  MaxSeats = 2
  MaxRequests = 5
  PartnerTotal <- MCPartnerTotal
SYMMETRY Symmetry
INVARIANTS
  OrderTicketsUniform
  PaidOrderKeepsTickets
  LedgerBalances
