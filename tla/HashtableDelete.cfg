SPECIFICATION FairSpec
CONSTANTS
  a = a
  b = b
  a1 = a1
  a2 = a2
  b1 = b1
  b2 = b2
  t1 = t1
  t2 = t2
  Threads = {t1, t2}
  Entries = {a1, b1, b2}
  val <- valOfThree
  NULL = NULL
  HashAttempts = 2
  InitSize = 1
  Place <- PlaceShared
INVARIANTS
  TypeOK
  NoDuplicateKey
  NoGapBeforeEntry
PROPERTIES
  LeavesOnlyMarked
  LinearizableUntilOverwritten
  WaitFree
