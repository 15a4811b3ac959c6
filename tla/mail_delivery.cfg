SPECIFICATION FairSpec
CONSTANTS
  welcome = welcome
  digest = digest
  Messages = {welcome, digest}
  Callers = {"timer", "manual"}
  Workers = {"timer", "operator"}
  MaxAttempts = 2
  MaxBatch = 2
  Budget <- OneOfEach
CHECK_DEADLOCK FALSE
INVARIANT TypeOK
PROPERTY ImplementsMailbox
PROPERTY MailSettles
