SPECIFICATION Spec
CONSTANTS
  nthreads = 3
  numInsertions = 2
  trials = 3
  stopError = FALSE
  testDelIns = TRUE
  None = None
CHECK_DEADLOCK FALSE
INVARIANTS
  TypeOK
  CallsAreInTheTrial
  ReportIsFinal
  EndsAreOfThisTrial
PROPERTIES
  Terminates
