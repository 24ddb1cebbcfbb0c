SPECIFICATION FairSpec
CONSTANTS
  a = a
  b = b
  c = c
  t1 = t1
  t2 = t2
  Threads = {t1, t2}
  Keys = {a, b, c}
  NULL = NULL
  HashAttempts = 1
  InitSize = 1
  Hash <- HashParting
INVARIANTS
  TypeOK
  StartLosesNoKey
  CountedIsCopied
  OneUnmarkedSlot
PROPERTIES
  Linearizable
  WaitFree
