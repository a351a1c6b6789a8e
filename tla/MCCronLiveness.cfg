SPECIFICATION LiveSpec
CONSTANTS
  j1 = j1
  j2 = j2
  k1 = k1
  d1 = d1
  NULL = NULL
  Job = {j1}
  Daemon = {d1}
  Target = {"chat"}
  Marker = "chat"
  Delivers = {j1}
  Watch = {j1}
  Scope = {}
  Config <- OneTimeConfig
  LeaseTTL = 1
  MinEvery = 1
  MaxBackoff = 1
  MaxDueCandidates = 4
  MaxJobs = 4
  MaxConcurrentRuns = 2
  MaxCalls = 1
  MaxTime = 0
  MaxRunId = 1
  MaxStops = 1
PROPERTIES
  RunsEnd
  DueIsServed
