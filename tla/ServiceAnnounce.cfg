SPECIFICATION Spec
CONSTANTS
  Deltas = {0, 1, 2}
  Genesis = 0
  Parents <- MCParents
  Refused = {}
  Handlers = {h1, h2}
  MaxFaults = 0
  MaxBatches = 0
PROPERTIES
  AnnouncedIsStored
CHECK_DEADLOCK FALSE
