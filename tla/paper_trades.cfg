\* A long and a short plan of one structure: every alarm and
\* acknowledgement.
SPECIFICATION Spec
CONSTANTS
  Plans = {"long", "short"}
  Plan <- LongOrShort
  Prices = {7, 11, 13}
  GuardBudgets = {42}
  Delays = {0}
  Acks = {"fill", "hold", "reject"}
  Signals <- Alarms
  Slippage = 1
  Fee = 1
  NewsOffset = 1
  DayLength = 100
  MaxNow = 4
  MaxQuotes = 5
  Steady = TRUE
  MaxCrashes = 0
INVARIANTS
  TypeOK
  RiskWithinBudget
  PositionKept
PROPERTIES
  StopOutWithinBudget
  ProtectionFirst
CHECK_DEADLOCK FALSE
