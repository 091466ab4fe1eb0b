\* Bars, a hole in the feed, two catalysts of one trade and a DOL trade; a
\* restart and a failed detection at any step.
SPECIFICATION FairSpec
CONSTANTS
  Keys = {"k1", "k2", "k3"}
  Trades = {"ab", "dol"}
  TradeOf <- ThreeKeys
  Dol = {"dol"}
  Fresh = 1
  GapLimit = 1
  Hold = 1
  Replies = {"accepted", "rejected", "lost"}
  MaxTime = 3
  MaxCrashes = 1
  MaxFails = 1
INVARIANTS
  TypeOK
  OneOrderPerSetup
  NothingSwallowed
PROPERTIES
  NoCatchUp
  EverySetupHandled
CHECK_DEADLOCK FALSE
