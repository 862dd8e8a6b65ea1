CONSTANTS
  Requests = {r1, r2}
  Offered = {"writeCallback"}
  PoolSize = 3
  CallbackThrows = FALSE
SPECIFICATION FairSpec
CHECK_DEADLOCK FALSE
PROPERTY CloseAnswersAll
