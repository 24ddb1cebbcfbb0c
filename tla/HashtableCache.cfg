SPECIFICATION Spec
CONSTANTS
  a = a
  b = b
  c = c
  d = d
  t1 = t1
  t2 = t2
  Threads = {t1, t2}
  Keys = {a, b, c, d}
  NULL = NULL
  HashAttempts = 2
  InitSize = 1
  entPerLine = 1
  readsPerLine = 2
  Hash <- HashLines
  hashtag <- hashtagLines
SYMMETRY Symmetry
INVARIANTS
  ProbesInTable
  NoDuplicateKey
PROPERTIES
  ImplementsHashtable
  LinearizableButWideTags
