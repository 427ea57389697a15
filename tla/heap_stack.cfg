SPECIFICATION Spec
CONSTANTS
  IMAGE_END = 13
  RAM_END = 143
  U32MOD = 256
  Tasks = {1, 4}
  TID_KCD = 4
  Requests = {1, 30, 250}
  StackSize = 16
  TextLen = 8
  KeyLen = 9
  NodeSize = 12
  Avoid = {"interrupted", "double_free"}
INVARIANT
  StackInItsBlock
CHECK_DEADLOCK FALSE
