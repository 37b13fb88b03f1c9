SPECIFICATION Spec
CONSTANTS
  Threads = {t1, t2, t3}
  CPUs = {c1}
  None = None
  MAX_MUTEXES = 2
  LINKED_LIST_SIZE = 3
  MaxId = 3
  MaxHeld = 2
  Calls = {"alloc", "dealloc", "lock", "unlock", "yieldlock", "reap", "kill"}
  t1 = t1
  t2 = t2
  t3 = t3
  c1 = c1
SYMMETRY Symmetry
INVARIANTS
  TypeOK
  MutualExclusion
  HeldIsOwned
  NoOrphanLock
  QueuedOnce
  QueueFits
  SchedHoldsOnlyPtable
  NoLostWakeup
  NeverSpins
