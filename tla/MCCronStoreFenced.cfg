SPECIFICATION Spec
CONSTANTS
  j1 = j1
  j2 = j2
  k1 = k1
  d1 = d1
  d2 = d2
  NULL = NULL
  Watch = {j1}
  Job = {j1}
  Daemon = {d1, d2}
  Target = {"chat"}
  Scope = {k1}
  Config <- FencedConfig
  LeaseTTL = 1
  MinEvery = 1
  MaxBackoff = 1
  MaxDueCandidates = 4
  MaxJobs = 1
  MaxConcurrentRuns = 2
  MaxCalls = 2
  MaxTime = 3
  MaxRunId = 2
SYMMETRY Daemons
INVARIANTS
  TypeOK
  FencingTokens
  AttemptLimit
  LeaseIffRunning
PROPERTIES
  TerminalIsFinal
  MarkersStay
  ImplementsLifecycle
