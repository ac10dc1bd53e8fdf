SPECIFICATION Spec
CONSTANTS
  Requests = {r1, r2, r3}
  Customers = {c1, c2}
  References = {ref1, ref2}
  Statuses = {pending, active}
  FirstStatus = pending
SYMMETRY Symmetric
PROPERTIES
  NoBlindWrite
  CommandsAreAtomic
CHECK_DEADLOCK FALSE
