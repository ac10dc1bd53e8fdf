SPECIFICATION LookupSpec
CONSTANTS
  Values = {v1, v2}
  NoValue = none
  Resolvers = {c1, c2, c3}
  MaxKey = 1
INVARIANTS
  HealingFinds
PROPERTIES
  HealsEventually
CHECK_DEADLOCK FALSE
