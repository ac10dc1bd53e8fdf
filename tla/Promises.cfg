SPECIFICATION EngineSpec
CONSTANTS
  MaxPromises = 3
  MaxCalls = 1
INVARIANTS
  EngineIsSound
PROPERTIES
  ContractIsKept
  CallsEventually
CHECK_DEADLOCK FALSE
