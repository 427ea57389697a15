SPECIFICATION Spec
CONSTANTS
  MAX_TASKS = 5
  PRIO_NULL = 3
  U32MOD = 16
  BootTasks <- BootUserAndKcd
  Avoid = {"no_tid", "kcd_twice", "drain_top", "not_ready"}
INVARIANT
  StrictPriority
CHECK_DEADLOCK FALSE
