SPECIFICATION Spec
CONSTANTS
  Tabs = {t1, t2}
  RenewingTabs = {t1}
  Lead = 1
  Lifetimes = {0, 1, 2, 8}
  TimerSpan = 14
  None = None
  Undefined = Undefined
  Off = Off
  MaxTime = 3
  MaxTokens = 2
INVARIANTS
  TimersMatchToken
  TabsAgree
PROPERTIES
  FreshTokensSurvive
  TimersActInTime
  ExpirationIsNoticed
CHECK_DEADLOCK FALSE
