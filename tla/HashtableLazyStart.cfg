SPECIFICATION Spec
CONSTANTS
  a = a
  b = b
  c = c
  t1 = t1
  t2 = t2
  Threads = {t1, t2}
  Keys = {a, b, c}
  NULL = NULL
  HashAttempts = 2
  InitSize = 2
  Hash <- HashFilling
SYMMETRY Symmetry
INVARIANTS
  EmptiedIsLeft
