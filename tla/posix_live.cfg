CONSTANTS
  Threads = {t1, t2}
  NoThread = NoThread
  InCapacity = 1
  OutCapacity = 1
  MaxLength = 1
  Offered = {"write", "drain", "readByte"}
  TimedDirs = {}
SPECIFICATION FairSpec
CHECK_DEADLOCK FALSE
PROPERTY ChannelSpec
