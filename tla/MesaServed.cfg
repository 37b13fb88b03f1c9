SPECIFICATION Spec
CONSTANTS
  None = None
  Grader = grader
  Main = main
  Students = {s1, s2, s3}
  Threads = {s1, s2, s3, grader, main}
  Mutexes = {"innerMutex", "noSlots", "freeSlots"}
  Conds = {"noSlots", "freeSlots"}
  n = 2
  s1 = s1
  s2 = s2
  s3 = s3
  grader = grader
  main = main
INVARIANT EveryStudentServed
