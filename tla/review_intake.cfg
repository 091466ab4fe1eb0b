\* Bars that arrive late or wait for the file, a restart at any step, one review.
SPECIFICATION FairSpec
CONSTANTS
  Series = {"ES", "NQ"}
  Watched = {}
  Reviewers = {"service"}
  LateLimit = 1
  Fresh = 2
  Contig = 2
  WindowEnd = 4
  Interval = 2
  Daily = 1
  Lifetime = 2
  MaxBar = 2
  MaxTime = 2
  MaxGaps = 1
  MaxRequests = 1
  MaxFaults = 1
INVARIANTS
  TypeOK
  FullPacket

  
  
CHECK_DEADLOCK FALSE
