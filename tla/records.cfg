SPECIFICATION RecordsSpec
CONSTANTS
  i2 = i2
  NULL = NULL
  NONE = NONE
  Call = {c1, c2, c3}
  JobCall = {c1, c2, c3}
  Runtime = {r1}
  MaxJobFault = 3
  Operator = {o1, o2}
  Recorder = {k1}
  MaxRuns = 2
  MaxTaskFault = 1
  ProjectWorker = {w1, w2}
  Nobody = Nobody
  MaxCycle = 2
  MaxCrash = 1
  MaxStall = 1
  Message = {m1}
  InboxWorker = {i1, i2}
  OutboxWorker = {q1}
  MaxAttempts = 2
  MaxClaims = 4
  MaxLost = 1
INVARIANTS
  CyclesAreSafe
PROPERTIES
  CallsAreHonoured
  JobsAreHonoured
  StopIsHonoured
  QueuesAreSafe
  RecordsSettle
CHECK_DEADLOCK FALSE
