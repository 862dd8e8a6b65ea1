CONSTANTS
  Threads = {t1, t2}
  NoThread = NoThread
  InCapacity = 2
  OutCapacity = 1
  MaxLength = 2
  Offered = {"read", "readByte"}
  TimedDirs = {"in"}
SYMMETRY Symmetry
SPECIFICATION Spec
CHECK_DEADLOCK FALSE
INVARIANTS
  TypeOK
  CloseNotMisreported
  ReportedBytes
PROPERTY ChannelSafeSpec
