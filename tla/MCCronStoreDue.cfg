SPECIFICATION Spec
CONSTANTS
  j1 = j1
  j2 = j2
  k1 = k1
  d1 = d1
  d2 = d2
  NULL = NULL
  Watch = {}
  Job = {j1, j2}
  Daemon = {d1}
  Target = {}
  Scope = {}
  Config <- DueConfig
  LeaseTTL = 1
  MinEvery = 1
  MaxBackoff = 1
  MaxDueCandidates = 2
  MaxJobs = 1
  MaxConcurrentRuns = 2
  MaxCalls = 1
  MaxTime = 4
  MaxRunId = 1
INVARIANTS
  ConcurrencyLimit
  
