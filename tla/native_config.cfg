CONSTANTS
  Threads = {t1, t2}
  Platforms = {"termios", "windows"}
  Speeds = {"B9600", "B115200", "B4000000"}
  SpeedsOfOS = {"B9600", "B115200"}
  Stuck = {"CMSPAR", "MARK", "inX"}
  MaxInt = 127
  Requests <- AllRequests
  OpenAsks <- AllOpenAsks
  Previous <- AllPrevious
SYMMETRY Symmetry
SPECIFICATION Spec
CHECK_DEADLOCK FALSE
INVARIANTS
  TypeOK
  StopBitsFit
  FailedOpenClosesPort
PROPERTIES
  ReportedInForce
  OthersUntouched
  ClosedIsReported
