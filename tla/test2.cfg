SPECIFICATION Test2Spec
CONSTANTS
  MAX_TASKS = 5
  PRIO_NULL = 5
  U32MOD = 11
  SIZEMOD = 2048
  BootTasks <- Boot2
  Avoid = {}
  MbxSizes = {28, 512}
  Lengths <- Lengths2
  Keys <- Chars2
  RxDepth = 1
  MaxNb = 0
  INPUT_SIZE = 6
  Char <- Chars2
  Alphanumeric = {"c", "d", "G", "T", "A"}
  Script <- Script2
  Junk <- Junk2
  Haste = 3
INVARIANTS
  PassIfObeyed
  KernelSound
  CommandsAsTyped
  StaleTextNotSent
PROPERTIES
  KeyboardAlive
  TestFinishes
CHECK_DEADLOCK FALSE
