SPECIFICATION Spec
CONSTANTS
  Processes = {client, operator}
  Client = client
  Tasks = {t1, t2}
  FernetKeys = {k1, k2}
  Urls = {a, b, bad}
  ValidUrls = {a, b}
  NULL = NULL
  MaxSets = 2
  MaxStarts = 2
  MaxCalls = 3
  MaxPolls = 2
SYMMETRY Symmetry
CHECK_DEADLOCK FALSE
INVARIANTS
  SettingsAgree
  KeyIsTheSecret
  OneGatewayPerTask
  MeasuredOnce
