SPECIFICATION Spec
CONSTANTS
  Clients = {c1, c2}
  Tenants = {t1}
  Batches = {b1}
  Fields = {"output_file_id"}
  Values = {v1}
  Times = {w1, w2}
  NULL = NULL
  Total = 1
  MaxCount = 1
  IntMax = 1
  MaxOrder = 4
  HonestProvider = TRUE
  AnyStatuses = {}
SYMMETRY Symmetry
INVARIANTS
  TypeOK
  OrderUsedOnce
  ProjectionIsBacked
  SuccessIsCovered
  PollAfterFinishSettles
PROPERTIES
  NothingForgotten
CHECK_DEADLOCK FALSE
