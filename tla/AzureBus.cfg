SPECIFICATION LiveSpec
CONSTANTS
  enrolledIntegrationEvent = enrolledIntegrationEvent
  enrolled = enrolled
  label = label
  Enrolled = Enrolled
  Plain = Plain
  m1 = m1
  Names <- MCNames
  Labels = {label}
  LabelOf <- MCLabelOf
  NamedBy <- MCNamedBy
  EventTypes <- MCTypes
  NameOf <- MCNameOf
  EventOf <- MCEventOf
  Handlers = {h1, h2}
  Resolvable = {h1}
  Msgs = {m1}
  MaxConcurrent = 2
  MaxDeliveries = 2
  MaxCalls = 3
  MaxFaults = 2
INVARIANTS
  AtLeastOnce
PROPERTIES
  RoutedIsSettled
CHECK_DEADLOCK FALSE
