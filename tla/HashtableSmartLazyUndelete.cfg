SPECIFICATION Spec
CONSTANTS
  a = a
  b = b
  a1 = a1
  a2 = a2
  a3 = a3
  b1 = b1
  b2 = b2
  t1 = t1
  t2 = t2
  Threads = {t1, t2}
  Entries = {a1, a2, a3, b1, b2}
  val <- valOfTwo
  NULL = NULL
  HashAttempts = 1
  InitSize = 1
  Hash <- HashParting
  MaxTables = 4
  ManyTables = 8
  MaxSubTables = 3
  MaxDeletes = 2
SYMMETRY Symmetry
INVARIANTS
  UndeletedIsFound
CHECK_DEADLOCK FALSE
