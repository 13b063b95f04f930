SPECIFICATION Spec
CONSTANTS
  Workers = {w1, w2}
  Requests = {1, 2, 3, 4, 5}
  ModelOf <- MCModelOf
  TokensOf <- MCTokensOf
  BytesOf <- MCBytesOf
  CreatedAt <- MCCreatedAt
  PerBatch = 5
  Buffer = 20
  Overrides = {NULL, 2}
  MaxBytes = 4
  MaxRecords = 2
  MaxFiles = 1
  NULL = NULL
  MaxQueued = 3
SYMMETRY Symmetry
INVARIANTS
  PreparedAsRead
  EachRequestOnce
  CallersAgree
  TotalsMatchFiles
PROPERTIES
  PreparedOnce
