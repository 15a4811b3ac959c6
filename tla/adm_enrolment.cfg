SPECIFICATION Spec
CONSTANTS
  r1 = r1
  r2 = r2
  Requests = {r1, r2}
  Budgets <- EnrolmentActs
CHECK_DEADLOCK FALSE
SYMMETRY Interchangeable
INVARIANT EnrolmentSound
