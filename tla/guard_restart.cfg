\* The continuation dispatcher and the end-of-day flatten: every reply, two trading
\* days, a restart at any step.
SPECIFICATION Spec
CONSTANTS
  g1 = g1
  g2 = g2
  g3 = g3
  Setups = {g1, g2}
  Dispatchers = {"CO"}
  Chores = {"eod"}
  Requests = {}
  Replies = {"accepted", "rejected", "lost", "partial"}
  Ramp = 2
  DayLossN = 1
  Carry = FALSE
  MaxDay = 1
  MaxCrashes = 1
SYMMETRY SymmetricSetups
INVARIANTS
  
  
  
  
  EodFlattened
CHECK_DEADLOCK FALSE
