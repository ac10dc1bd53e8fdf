SPECIFICATION Spec
CONSTANTS
  Redirects = {r1}
  Silents = {s1}
  Popups = {p1, p2}
  ResponseType = {"id_token", "token"}
  Tries = 1
  None = None
  MaxReplays = 1
INVARIANTS
  OneTokenPerRequest
  SavedIsSound
  PendingPopupIsWatched
PROPERTIES
  OnlyLatestRequestAccepted
  FlowsSettle
CHECK_DEADLOCK FALSE
