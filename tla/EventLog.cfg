SPECIFICATION LiveSpec
CONSTANTS
  Events <- MCEvents
  Known <- MCKnown
  Publishers = {p1, p2}
  MaxFaults = 3
INVARIANTS
  LogIsTrue
  SentOncePerRetrieval
PROPERTIES
  RetrievedIsSettled
CHECK_DEADLOCK FALSE
