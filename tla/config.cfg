CONSTANTS
  Threads = {t1, t2}
  Speeds = {"B9600", "B115200", "B4000000"}
  SpeedsOfOS = {"B9600", "B115200"}
  Stuck = {"CMSPAR"}
  Detaches = TRUE
  Requests <- AllRequests
  OpenAsks <- AllOpenAsks
  Previous <- AllPrevious
SYMMETRY Symmetry
SPECIFICATION Spec
CHECK_DEADLOCK FALSE
INVARIANTS
  TypeOK
  RawMode
  FailedOpenClosesPort
PROPERTIES
  ReportedInForce
  OthersUntouched
  ClosedIsReported
