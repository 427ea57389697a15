SPECIFICATION Spec
CONSTANTS
  MAX_TASKS = 5
  PRIO_NULL = 3
  U32MOD = 16
  BootTasks <- BootUserAndKcd
  Avoid = {"no_tid", "kcd_twice", "self_raise", "drain_top", "not_ready"}
PROPERTY
  KeepsCpuFromEquals
CHECK_DEADLOCK FALSE
