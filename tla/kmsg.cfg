SPECIFICATION MsgSpec
CONSTANTS
  MAX_TASKS = 3
  PRIO_NULL = 3
  U32MOD = 7
  SIZEMOD = 128
  BootTasks <- BootUserAndKcd
  Avoid = {"no_tid", "kcd_twice", "self_raise", "drain_top", "not_ready"}
  MbxSizes = {34}
  Lengths = {18}
  Keys = {"k"}
  RxDepth = 1
  MaxNb = 1
INVARIANTS
  NoLostWakeup
  AccountExact
  SenderNamed
  BlocksExact
  HandlerSurvives
