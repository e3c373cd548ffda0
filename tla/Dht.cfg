SPECIFICATION Spec
CONSTANTS
  Nodes = {n1, n2}
  Addrs = {a1, a2}
  DedupWindow = 1
  RefreshInterval = 2
  RecordTtl = 2
  MaxDelay = 1
  MaxFaults = 2
INVARIANTS
  TypeOK
  OutageIsBounded
PROPERTIES
  FoundAgain
