SPECIFICATION Spec
CONSTANTS
  Seats = {s1, s2}
  Orders = {o1, o2}
  Calls = {c1, c2}
  NoOrder = NoOrder
  MaxSeats = 2
  MaxRequests = 3
  PartnerTotal <- MCPartnerTotal
SYMMETRY Symmetry
INVARIANTS
  TypeOK
  OneTicketPerSeat
  SeatStatusHasItsTicket
  AvailableSeatsCovered
PROPERTIES
  HoldRespected
  ImplementsSale
