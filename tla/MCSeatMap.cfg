SPECIFICATION MapSpec
CONSTANTS
  Seats = {s1, s2}
  Orders = {o1, o2}
  Calls = {c1, c2}
  NoOrder = NoOrder
  MaxSeats = 2
  MaxRequests = 2
  PartnerTotal <- MCPartnerTotal
  Viewers = {v1}
SYMMETRY Symmetry
INVARIANTS
  SaleSurvivesViews
PROPERTIES
  HoldSurvivesViews
CHECK_DEADLOCK FALSE
