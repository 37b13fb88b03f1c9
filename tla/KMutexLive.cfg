SPECIFICATION FairSpec
CONSTANTS
  Threads = {t1, t2, t3}
  CPUs = {c1}
  None = None
  MAX_MUTEXES = 1
  LINKED_LIST_SIZE = 3
  MaxId = 1
  MaxHeld = 1
  Calls = {"alloc", "lock", "unlock", "reap"}
  t1 = t1
  t2 = t2
  t3 = t3
  c1 = c1
PROPERTIES
  LockReturns
  HandsOver
