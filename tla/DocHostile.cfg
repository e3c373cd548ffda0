SPECIFICATION EnrolledSpec
CONSTANTS
  Hashes = {0, 1, 2, 3}
  Nodes = {1, 2}
  LogicalWidth = 8
  Replicas = {1, 2}
  KeyIds = {"k0", "k1"}
  GenesisId = "k0"
  GenesisPub = 1
  DeviceId <- MCDeviceId
  DevicePub <- MCDevicePub
  Ops <- HostileOps
  Rogues = {2}
  Tampering = TRUE
  Readings = {1}
  Relationships <- MCRelationships
  Renderable = {1, 2}
  IdRank <- MCIdRank
  ReservedProperties = {"id"}
INVARIANTS
  HistoryComplete
  OnlyAuthorised
  AdmissionAgreement
