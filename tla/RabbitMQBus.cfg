SPECIFICATION LiveSpec
CONSTANTS
  enrolled = enrolled
  closed = closed
  Names <- MCTwoNames
  EventTypes <- MCTwoNames
  NameOf <- MCNamesakes
  Handlers = {h1, h2}
  Resolvable = {h1}
  Msgs = {m1}
  EventOf <- MCEventOf
  MaxCalls = 3
  MaxFaults = 1
INVARIANTS
  SubscribedIsRouted
  AtLeastOnce
PROPERTIES
  CallsImplementRegistry
  RoutedIsSettled
CHECK_DEADLOCK FALSE
