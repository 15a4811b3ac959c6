SPECIFICATION Spec
CONSTANTS
  i1 = i1
  i2 = i2
  w1 = w1
  w2 = w2
  NoOne = NoOne
  Instances = {i1, i2}
  Workers = {w1}
  StreamOf <- TwoStreams
  TenantOf <- OneTenant
  MaxAttempts <- LowCeilings
  MaxLabs = 1
  TenantLabs = 1
  Budgets <- OneContention
CHECK_DEADLOCK FALSE
INVARIANT CapacityHeld
