\* A HALT while the heartbeat stamps the file.
SPECIFICATION Spec
CONSTANTS
  g1 = g1
  g2 = g2
  g3 = g3
  Setups = {g1}
  Dispatchers = {"CO"}
  Chores = {"beat"}
  Requests = {"halt"}
  Replies = {"accepted"}
  Ramp = 1
  DayLossN = 1
  Carry = FALSE
  MaxDay = 0
  MaxCrashes = 0
SYMMETRY SymmetricSetups
PROPERTIES
  HardHaltHolds
CHECK_DEADLOCK FALSE
