\* Other threads of the process spin in user mode while one calls exec.
SPECIFICATION FairSpec
CONSTANTS
  NTHREAD = 2
  None = None
  IO = IO
  MaxTid = 2
  Calls = {"create", "join", "sleep", "exec"}
PROPERTY GivesUpCpu
CHECK_DEADLOCK FALSE
