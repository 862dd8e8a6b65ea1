CONSTANTS
  Threads = {t1, t2}
  NoThread = NoThread
  InCapacity = 1
  OutCapacity = 1
  MaxLength = 2
  Lengths = {0, 2}
  Offered = {"read", "write", "drain", "sendBreak", "count"}
  TimedDirs = {"in"}
  Signals = TRUE
  MaxInterrupts = 1
  CloseFails = FALSE
SYMMETRY Symmetry
SPECIFICATION Spec
CHECK_DEADLOCK FALSE
INVARIANTS
  CloseNotMisreported
  ReportedBytes
  AtMostOneStrayCall
  BreakHeldAndEnded
  WatchersWoken
PROPERTIES
  ReleasedOnce
  ChannelSafeSpec
