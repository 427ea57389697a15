SPECIFICATION Spec
CONSTANTS
  IMAGE_END = 13
  RAM_END = 20000
  U32MOD = 65536
  Huge = 30000
  HeapEnds = {150, 300, 463, 479, 1200, 14255, 14256, 14271, 14279, 14280, 20000}
INVARIANTS
  TestsPass
  PassedMeansRestored
CHECK_DEADLOCK FALSE
