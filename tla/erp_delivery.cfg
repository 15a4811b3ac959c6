SPECIFICATION FairErpSpec
CONSTANTS
  Requests = {}
  Budgets <- SittingOrDelivery
  MaxLost = 2
CHECK_DEADLOCK FALSE
INVARIANT ErpTypeOK
INVARIANT VersionIsSitting
INVARIANT CandidateTold
PROPERTY ResultStands
PROPERTY ErpGetsResult
