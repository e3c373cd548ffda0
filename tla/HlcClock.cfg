SPECIFICATION Spec
CONSTANTS
  Nodes = {1, 2}
  LogicalWidth = 3
  Readings = {1, 2}
  MaxEvents = 3
INVARIANTS
  HlcInv
  ClockCondition
PROPERTIES
  FreshTimestamps
