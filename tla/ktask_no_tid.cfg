SPECIFICATION Spec
CONSTANTS
  MAX_TASKS = 5
  PRIO_NULL = 3
  U32MOD = 16
  BootTasks <- BootUserAndKcd
  Avoid = {"kcd_twice", "self_raise", "drain_top", "not_ready"}
INVARIANT
  NullTcbIntact
CHECK_DEADLOCK FALSE
