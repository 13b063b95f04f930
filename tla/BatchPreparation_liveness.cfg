SPECIFICATION FairSpec
CONSTANTS
  Workers = {w1, w2}
  Requests = {1, 2}
  ModelOf <- MCModelOf
  TokensOf <- MCTokensOf
  BytesOf <- MCBytesOf
  CreatedAt <- MCCreatedAt
  PerBatch = 5
  Buffer = 20
  Overrides = {NULL}
  MaxBytes = 5
  MaxRecords = 1
  MaxFiles = 1
  NULL = NULL
  MaxQueued = 2
PROPERTIES
  CallReturns
