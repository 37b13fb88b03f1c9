SPECIFICATION Spec
CONSTANTS
  NTHREAD = 3
  None = None
  IO = IO
  MaxTid = 3
  Calls = {"create", "nomem", "join", "sleep", "read", "exit", "kthread_exit", "exec", "kill"}
INVARIANTS
  TypeOK
  JoinersWoken
  ParentWoken
  ExecWaitEnds
PROPERTIES
  FreedOffCpu
CHECK_DEADLOCK FALSE
