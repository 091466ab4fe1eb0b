\* One order, a crash, a queued exit: everything received is resolved.
SPECIFICATION FairSpec
CONSTANTS
  o1 = o1
  o2 = o2
  Orders = {o1}
  Qty = 1
  MaxCrashes = 1
  MaxRevisions = 1
  LateReports = FALSE
  Callers = {"exit"}
  AgeCap = 1
PROPERTIES
  EventuallyResolved
CHECK_DEADLOCK FALSE
