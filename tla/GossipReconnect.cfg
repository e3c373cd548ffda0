SPECIFICATION Spec
CONSTANTS
  Hashes = {0, 1, 9}
  Nodes = {1, 2}
  Seeds = {1}
  Genesis = 0
  Foreign = 9
  Setups <- MCReplicating
  StraySize = 0
  MaxFaults = 1
PROPERTIES
  ReconnectConverges
CHECK_DEADLOCK FALSE
