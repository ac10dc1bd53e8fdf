SPECIFICATION Spec
CONSTANTS
  enrolled = enrolled
  enrolledV2 = enrolledV2
  closed = closed
  Enrolled = Enrolled
  Closed = Closed
  EventTypes <- MCEventTypes
  Names <- MCNames
  NameOf <- MCNameOf
  Handlers = {h1, h2}
INVARIANTS
  TableAgrees
PROPERTIES
  LastHandlerAnnounced
  ImplementsRegistry
