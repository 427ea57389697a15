SPECIFICATION FairSpec
CONSTANTS
  MAX_TASKS = 5
  PRIO_NULL = 4
  U32MOD = 11
  BootTasks <- BootUserAndKcd
  Avoid = {"no_tid", "kcd_twice", "self_raise", "drain_top", "not_ready"}
INVARIANTS
  ReadyListExact
  HighestPriorityExact
  StrictPriority
  CurrentRuns
  TidPoolExact
  NeverWild
PROPERTIES
  FifoLevels
  DispatchIsFirst
  RoundRobin
