CONSTANTS
  Threads = {t1, t2}
  NoThread = NoThread
  InCapacity = 1
  OutCapacity = 1
  MaxLength = 2
  Offered = {"write", "writeByte", "drain", "sendBreak", "setBreak", "clearBreak"}
  TimedDirs = {"out"}
SYMMETRY Symmetry
SPECIFICATION Spec
CHECK_DEADLOCK FALSE
INVARIANTS
  CloseNotMisreported
  AtMostOneStrayCall
  ReportedBytes
  DrainedWhenReturned
  BreakHeldAndEnded
