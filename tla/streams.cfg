CONSTANTS
  Threads = {t1, t2}
  NoThread = NoThread
  BufferSize = 2
  Lengths = {0, 1, 2, 3}
SYMMETRY Symmetry
SPECIFICATION Spec
CHECK_DEADLOCK FALSE
INVARIANTS
  OwnBytesIn
PROPERTY OwnBytesOut
