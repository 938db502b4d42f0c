SPECIFICATION FairSpec
CONSTANTS
  BufferSize = 2
  Retries = 1
  MaxEvents = 4
  MaxAdrift = 1
INVARIANTS
  NoEventStranded
  InOrder
  NothingVanishes
PROPERTIES
  Drains
CHECK_DEADLOCK FALSE
