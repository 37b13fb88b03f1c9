SPECIFICATION Spec
CONSTANTS
  Threads = {t1, t2, t3}
  CPUs = {c1, c2}
  None = None
  MAX_MUTEXES = 2
  LINKED_LIST_SIZE = 3
  MaxId = 3
  MaxHeld = 2
  Calls = {"alloc", "lock", "unlock"}
  t1 = t1
  t2 = t2
  t3 = t3
  c1 = c1
  c2 = c2
SYMMETRY Symmetry
INVARIANT NoLostWakeup
