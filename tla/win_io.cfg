CONSTANTS
  Threads = {t1, t2}
  NoThread = NoThread
  InCapacity = 1
  OutCapacity = 1
  MaxLength = 2
  Lengths = {2}
  Offered = {"read", "write", "flush", "count"}
  TimedDirs = {"in", "out"}
  MaxInterrupts = 1
  CloseFails = TRUE
SPECIFICATION Spec
CHECK_DEADLOCK FALSE
INVARIANTS
  TypeOK
  CloseNotMisreported
  ReportedBytes
  EventsClosed
PROPERTY ChannelSafeSpec
