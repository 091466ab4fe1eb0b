\* Both dispatchers among every reply, HALT, ARM, two trading days and a restart,
\* scheduled fairly.
SPECIFICATION FairSpec
CONSTANTS
  g1 = g1
  g2 = g2
  g3 = g3
  Setups = {g1}
  Dispatchers = {"AB", "CO"}
  Chores = {}
  Requests = {"halt", "arm"}
  Replies = {"accepted", "rejected", "lost", "partial"}
  Ramp = 1
  DayLossN = 1
  Carry = FALSE
  MaxDay = 1
  MaxCrashes = 1
INVARIANTS
  TypeOK
PROPERTIES
  HaltStands
  DispatchEnds
CHECK_DEADLOCK FALSE
