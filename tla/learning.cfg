SPECIFICATION Spec
CONSTANTS
  quiz = quiz
  essay = essay
  lab = lab
  ann = ann
  bob = bob
  Activities = {quiz, essay, lab}
  AtStart = {quiz, lab}
  Pools = {quiz}
  Manuals = {essay}
  Labs = {lab}
  Writers = {ann, bob}
  MaxAttempts = 1
  MaxGrants = 1
  MaxChecks = 1
SYMMETRY Symmetry
INVARIANT TypeOK
INVARIANT AttemptsHeld
INVARIANT CompletionExact
INVARIANT ErpAccepted
