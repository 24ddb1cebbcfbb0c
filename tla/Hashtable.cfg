SPECIFICATION FairSpec
CONSTANTS
  a = a
  b = b
  c = c
  t1 = t1
  t2 = t2
  Threads = {t1, t2}
  Keys = {a, b, c}
  NULL = NULL
  HashAttempts = 2
  InitSize = 1
  Place <- PlaceCrossing
INVARIANTS
  TypeOK
  FirstNullBucket
  NoDuplicateKey
  SubtablesInOrder
  GrowthIsEarned
PROPERTIES
  Linearizable
  WaitFree
