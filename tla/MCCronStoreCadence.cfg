SPECIFICATION Spec
CONSTANTS
  j1 = j1
  j2 = j2
  k1 = k1
  d1 = d1
  d2 = d2
  NULL = NULL
  Watch = {}
  Job = {j1, j2}
  Daemon = {d1}
  Target = {}
  Scope = {}
  Config <- CadenceConfig
  LeaseTTL = 1
  MinEvery = 2
  MaxBackoff = 1
  MaxDueCandidates = 1
  MaxJobs = 1
  MaxConcurrentRuns = 2
  MaxCalls = 2
  MaxTime = 3
  MaxRunId = 1
PROPERTIES
  CadenceFloor
  SkipNeverRunsLate
