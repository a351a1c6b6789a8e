SPECIFICATION SchedulerSpec
CONSTANTS
  j1 = j1
  d1 = d1
  d2 = d2
  NULL = NULL
  Job = {j1}
  Daemon = {d1}
  Target = {"chat"}
  Marker = "chat"
  Delivers = {j1}
  Watch = {j1}
  Scope = {}
  Config <- OneTimeConfig
  LeaseTTL = 1
  MinEvery = 1
  MaxBackoff = 1
  MaxDueCandidates = 4
  MaxJobs = 4
  MaxConcurrentRuns = 2
  MaxCalls = 1
  MaxTime = 2
  MaxRunId = 1
  MaxStops = 1
INVARIANTS
  SchedulerTypeOK
PROPERTIES
  OutcomeByHolder
  ImplementsStore
