SPECIFICATION Spec
CONSTANTS
  Files = {orig, spare}
  Original = orig
  NULL = NULL
  Chunks = 2
  MaxSize = 3
  MaxTampers = 3
  MaxBackups = 2
  MaxRestores = 2
CHECK_DEADLOCK FALSE
INVARIANTS
  BackupAllOrNothing
  RestoreIsTheArchive
  ReceiptNamesTheTarget
