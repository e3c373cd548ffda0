SPECIFICATION Spec
CONSTANTS
  Hashes = {0, 1, 2, 9}
  Nodes = {1, 2}
  Seeds = {1}
  Genesis = 0
  Foreign = 9
  Setups <- MCSetups
  StraySize = 2
  MaxFaults = 1
INVARIANTS
  TypeOK
  AnnouncementSuffices
  ReconciledAtRest
PROPERTIES
  BatchIsExhausted
  AnswersFit
  Converges
CHECK_DEADLOCK FALSE
