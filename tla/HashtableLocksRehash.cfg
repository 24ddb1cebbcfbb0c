SPECIFICATION Spec
CONSTANTS
  a = a
  b = b
  c = c
  d = d
  t1 = t1
  t2 = t2
  Threads = {t1, t2}
  Keys = {a, b, c}
  NULL = NULL
  InitSize = 1
  Hash <- HashChained
SYMMETRY Symmetry
PROPERTIES
  InsertsOnlyNew
