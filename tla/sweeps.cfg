SPECIFICATION OneSpec
CONSTANTS
  net = net
  sec = sec
  cohort = cohort
  ann = ann
  bob = bob
  timer = timer
  one = one
  two = two
  three = three
  none = none
  dean = dean
  operator = operator
  Courses = {net, sec}
  Cohort = cohort
  Requests = {ann, bob}
  Sweeper = timer
  Limit = 1
  MaxNominations = 2
  MaxAborts = 1
  Rows = {one, two, three}
  Staff = {dean}
  Sweepers = {timer, operator}
  Timer = timer
  None = none
  MaxCrashes = 1
INVARIANT SweepsTypeOK
INVARIANT TaughtIsEarned
PROPERTY SweepsRepair
