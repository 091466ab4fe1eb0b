\* The service and an operator's manual review on one file, and the plans they lead to.
SPECIFICATION Spec
CONSTANTS
  Series = {"ES", "NQ"}
  Watched = {"NQ"}
  Reviewers = {"service", "manual"}
  LateLimit = 1
  Fresh = 2
  Contig = 1
  WindowEnd = 2
  Interval = 2
  Daily = 2
  Lifetime = 2
  MaxBar = 2
  MaxTime = 3
  MaxGaps = 1
  MaxRequests = 0
  MaxFaults = 1
INVARIANTS
  PaidOnce
  
  LatestReviewDecides
  PlanUntouched
PROPERTIES
  FailurePauses
CHECK_DEADLOCK FALSE
