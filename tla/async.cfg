CONSTANTS
  Requests = {r1, r2, r3}
  Offered = {"readCallback", "readFuture", "writeCallback", "blocking"}
  PoolSize = 3
  CallbackThrows = FALSE
SPECIFICATION FairSpec
CHECK_DEADLOCK FALSE
INVARIANTS
  AnsweredOnce
  CallbacksSynchronized
  PermitConserved
PROPERTY CloseAnswersReads
