SPECIFICATION FairSpec
CONSTANTS
  Workers = {w1, w2}
  Versions = {v1, v2}
  Base = base
  NULL = NULL
  Records = 3
  ResultRecords = 2
  Common = 1
  Deployments <- EveryDeployment
  MaxFaults = 2
INVARIANTS
  TypeOK
  ExactlyOnceOnSnapshots
  EffectAtomicWithCheckpoint
PROPERTIES
  CheckpointFollowsStream
  EveryRecordAcknowledged
