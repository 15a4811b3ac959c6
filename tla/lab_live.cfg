SPECIFICATION FairSpec
CONSTANTS
  i1 = i1
  i2 = i2
  w1 = w1
  w2 = w2
  NoOne = NoOne
  Instances = {i1}
  Workers = {w1, w2}
  StreamOf <- OneStream
  TenantOf <- OneTenant
  MaxAttempts <- ShortCeilings
  MaxLabs = 1
  TenantLabs = 1
  Budgets <- StallAndMore
CHECK_DEADLOCK FALSE
INVARIANT ClaimsSound
PROPERTY FencedSettlement
PROPERTY LabSettles
