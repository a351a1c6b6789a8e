SPECIFICATION Spec
CONSTANTS
  j1 = j1
  j2 = j2
  k1 = k1
  d1 = d1
  d2 = d2
  NULL = NULL
  Watch = {}
  Job = {j1, j2}
  Daemon = {d1}
  Target = {}
  Scope = {k1}
  Config <- ScopedConfig
  LeaseTTL = 1
  MinEvery = 1
  MaxBackoff = 1
  MaxDueCandidates = 4
  MaxJobs = 2
  MaxConcurrentRuns = 2
  MaxCalls = 2
  MaxTime = 2
  MaxRunId = 1
INVARIANTS
  ScopeMutex
  WatermarkIsSuccess
PROPERTIES
  PausedStartsNothing
