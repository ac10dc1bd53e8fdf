SPECIFICATION Spec
CONSTANTS
  Redirects = {}
  Silents = {}
  Popups = {p1, p2, p3}
  ResponseType = {"id_token", "token"}
  Tries = 1
  None = None
  MaxReplays = 0
INVARIANTS
  OnePendingPopup
CHECK_DEADLOCK FALSE
