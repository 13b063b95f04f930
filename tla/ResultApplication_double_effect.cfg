SPECIFICATION Spec
CONSTANTS
  Workers = {w1, w2}
  Versions = {v1}
  Base = base
  NULL = NULL
  Records = 1
  ResultRecords = 1
  Common = 0
  Deployments <- DefaultIsolation
  MaxFaults = 0
INVARIANTS
  EffectExactlyOnce
