\* Execution reports that lag the status of their order.
SPECIFICATION Spec
CONSTANTS
  o1 = o1
  o2 = o2
  Orders = {o1}
  Qty = 2
  MaxCrashes = 0
  MaxRevisions = 0
  LateReports = TRUE
  Callers = {}
  AgeCap = 1
INVARIANTS
  NeverCancelsLiveBracket
CHECK_DEADLOCK FALSE
