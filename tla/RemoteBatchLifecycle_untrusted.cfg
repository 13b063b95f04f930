SPECIFICATION Spec
CONSTANTS
  Clients = {c1, c2}
  Tenants = {t1}
  Batches = {b1}
  Fields = {}
  Values = {v1}
  Times = {w1, w2}
  NULL = NULL
  Total = 0
  MaxCount = 1
  IntMax = 1
  MaxOrder = 3
  HonestProvider = FALSE
  AnyStatuses = {"in_progress", "completed", "failed"}
SYMMETRY Symmetry
INVARIANTS
  KnownProgress
  TerminalStamped
PROPERTIES
  TerminalIsFinal
  ImplementsProjection
CHECK_DEADLOCK FALSE
