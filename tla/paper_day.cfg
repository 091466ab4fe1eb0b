\* Three plans on one day, a quote a second, a restart, every one stopped out.
SPECIFICATION Spec
CONSTANTS
  Plans = {p1, p2, p3}
  Plan <- NoSetups
  Prices = {7, 10}
  GuardBudgets = {40}
  Delays = {0}
  Acks = {"fill"}
  Signals <- QuietOnly
  Slippage = 1
  Fee = 1
  NewsOffset = 1
  DayLength = 100
  MaxNow = 8
  MaxQuotes = 9
  Steady = TRUE
  MaxCrashes = 1
SYMMETRY Alike
INVARIANTS
  TwoLossesADay
  ReplayIsExact
PROPERTIES
  NoLookahead
CHECK_DEADLOCK FALSE
