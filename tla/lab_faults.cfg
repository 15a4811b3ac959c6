SPECIFICATION Spec
CONSTANTS
  i1 = i1
  i2 = i2
  w1 = w1
  w2 = w2
  NoOne = NoOne
  Instances = {i1}
  Workers = {w1, w2}
  StreamOf <- OneStream
  TenantOf <- OneTenant
  MaxAttempts <- LowCeilings
  MaxLabs = 1
  TenantLabs = 1
  Budgets <- SomeFaults
CHECK_DEADLOCK FALSE
INVARIANT TypeOK
INVARIANT RowTruthful
PROPERTY OnlyOrphansDestroyed
PROPERTY ImplementsLeaseQueue
