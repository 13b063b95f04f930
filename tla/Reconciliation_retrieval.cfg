SPECIFICATION FairSpec
CONSTANTS
  Workers = {w1, w2}
  Jobs = {j1, j2, j3}
  Broken = {j1}
  Fileless = {j2}
  MaxCandidates = 2
  MaxJobs = 2
  MaxScan = 2
  Prepended = {}
  SingleFlight = {TRUE}
  MaxFaults = 1
PROPERTIES
  EveryResultRetrieved
