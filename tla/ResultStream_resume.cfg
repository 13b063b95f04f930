SPECIFICATION Spec
CONSTANTS
  ResultFiles <- AllFiles
  ErrorFiles <- AllErrorFiles
  MaxChunk = 3
  MaxBytes = 5
  MaxLineBytes = 3
  MaxLines = 5
  MaxRecords = 3
  Revisions <- AllRevisions
  NULL = NULL
INVARIANTS
  ChunkingIsInvisible
  StreamIsBounded
  AckedIsCheckpointed
PROPERTIES
  CheckpointIsContinued
