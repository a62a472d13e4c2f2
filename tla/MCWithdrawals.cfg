SPECIFICATION Spec
CONSTANTS
  Requests = {w1, w2, w3}
  Calls = {c1, c2}
  NoRequest = NoRequest
  Amount <- MCAmount
  SaleAmount = 3
  MaxSales = 2
SYMMETRY Symmetry
INVARIANTS
  EntryFollowsWithdrawal
  WalletAccounted
  NeverOverdrawn
PROPERTIES
  DecisionIsFinal
CHECK_DEADLOCK FALSE
