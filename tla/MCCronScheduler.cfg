SPECIFICATION SchedulerSpec
CONSTANTS
  j1 = j1
  d1 = d1
  d2 = d2
  NULL = NULL
  Job = {j1}
  Daemon = {d1, d2}
  Target = {"chat"}
  Marker = "chat"
  Delivers = {j1}
  Watch = {}
  Scope = {}
  Config <- PlainConfig
  LeaseTTL = 1
  MinEvery = 1
  MaxBackoff = 1
  MaxDueCandidates = 4
  MaxJobs = 2
  MaxConcurrentRuns = 1
  MaxCalls = 1
  MaxTime = 2
  MaxRunId = 1
  MaxStops = 1
SYMMETRY Daemons
INVARIANTS
  AtMostOneDelivery
  WithinCapacity
