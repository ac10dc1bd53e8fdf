SPECIFICATION LiveSpec
CONSTANTS
  Callers = {t1, t2}
  RetryCount = 1
  MaxConnections = 3
  MaxCalls = 2
  MaxFaults = 1
INVARIANTS
  SupervisedOnce
  RefusedForCause
  DisposedIsClosed
PROPERTIES
  ConnectionRecovers
CHECK_DEADLOCK FALSE
