\* One order of two contracts, a queued exit and the exit manager: partial fills.
SPECIFICATION Spec
CONSTANTS
  o1 = o1
  o2 = o2
  Orders = {o1}
  Qty = 2
  MaxCrashes = 0
  MaxRevisions = 0
  LateReports = FALSE
  Callers = {"exit", "close"}
  AgeCap = 1
INVARIANTS
  TypeOK
  NeverCancelsLiveBracket
  NoUnownedFill
  NeverResent
PROPERTIES
  OutcomeIsFinal
CHECK_DEADLOCK FALSE
