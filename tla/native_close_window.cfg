CONSTANTS
  Threads = {t1}
  NoThread = NoThread
  InCapacity = 1
  OutCapacity = 1
  MaxLength = 2
  Lengths = {0, 2}
  Offered = {"read"}
  TimedDirs = {}
  Signals = FALSE
  MaxInterrupts = 0
  CloseFails = FALSE
SPECIFICATION FairSpec
CHECK_DEADLOCK FALSE
PROPERTY CloseUnblocks
