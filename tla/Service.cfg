SPECIFICATION Spec
CONSTANTS
  Deltas = {0, 1, 2, 3}
  Genesis = 0
  Parents <- MCParents
  Refused = {3}
  Handlers = {h1, h2}
  MaxFaults = 1
  MaxBatches = 1
INVARIANTS
  TypeOK
  StoreIsLoadable
  AnsweredIsStored
PROPERTIES
  OnlySolicited
  RequestsEnd
CHECK_DEADLOCK FALSE
