SPECIFICATION Spec
CONSTANTS
  MAX_TASKS = 3
  PRIO_NULL = 2
  U32MOD = 7
  BootTasks <- BootEquals
  Avoid = {}
INVARIANT
  TypeOK
CHECK_DEADLOCK FALSE
