SPECIFICATION Spec
CONSTANTS
  Hashes = {1, 2, 3, 4}
  Replicas = {r1, r2}
INVARIANTS
  DagInv
  FrontierIsLeaves
  AnswerIsComplete
  EmptyFetchListMeansSynced
  FetchIsSound
