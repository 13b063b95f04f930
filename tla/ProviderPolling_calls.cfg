SPECIFICATION FairSpec
CONSTANTS
  MaxAttempts = 3
  BaseDelay = 1
  MaxDelay = 2
  ReqTimeout = 2
  PollInterval = 3
  WaitTimeout = 7
  RetryAfters = {NULL, 0, 2, 3}
  Lateness = 1
  FinishTimes = {NULL, 0, 4, 5, 6, 7, 9}
  NULL = NULL
INVARIANTS
  NeverReplayed
  RetryAfterIsHonored
  OverrunIsBounded
  TimeoutIsFresh
PROPERTIES
  CallEnds
