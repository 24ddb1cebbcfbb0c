SPECIFICATION Spec
CONSTANTS
  a = a
  b = b
  a1 = a1
  a2 = a2
  b1 = b1
  b2 = b2
  t1 = t1
  t2 = t2
  Threads = {t1, t2}
  Entries = {a1, a2, b1, b2}
  val <- valOfTwo
  NULL = NULL
  HashAttempts = 2
  InitSize = 1
  Place <- PlaceShared
SYMMETRY Symmetry
PROPERTIES
  Linearizable
