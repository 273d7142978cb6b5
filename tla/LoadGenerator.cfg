CONSTANTS
  Tasks = {t1, t2, t3}
  Duration = 2
  Timeout = 2
  Buffer = 2
  Capacity = 2
  Batch = 2
  MaxRequests = 6
SPECIFICATION FairSpec
INVARIANTS EarlyResultsCounted
PROPERTIES Stops
CHECK_DEADLOCK FALSE
