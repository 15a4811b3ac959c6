SPECIFICATION FairSpec
CONSTANTS
  grade = grade
  deadline = deadline
  Occurrences = {grade}
  Spells = 1
  Windows = 3
  MaxNudges = 1
  Hours = 2
  Quiet = {1}
  Digest = 1
  Timer = "timer"
  Sweepers = {"timer", "manual"}
  Budget <- OneOfEach
  Disturbances = 1
CHECK_DEADLOCK FALSE
INVARIANT TypeOK
INVARIANT LedgerTrue
PROPERTY QueuedFlushed
