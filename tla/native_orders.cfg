\* Two orders with queued exits: one trade at a time on the account, and a
\* close meets only its own position.
SPECIFICATION Spec
CONSTANTS
  o1 = o1
  o2 = o2
  Orders = {o1, o2}
  Qty = 1
  MaxCrashes = 0
  MaxRevisions = 0
  LateReports = FALSE
  Callers = {"exit"}
  AgeCap = 1
SYMMETRY SymmetricOrders
INVARIANTS
  SingleExposure
  NoFillIsFinal
  CloseHitsOwnPosition
PROPERTIES
  OneTradeAtATime
CHECK_DEADLOCK FALSE
