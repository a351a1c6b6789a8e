SPECIFICATION GatewaySpec
CONSTANTS
  t1 = t1
  t2 = t2
  t3 = t3
  t4 = t4
  a1 = a1
  a2 = a2
  NULL = NULL
  Turn = {t1, t2, t3, t4}
  Request = {t1, t3, t4}
  request <- RequestOf
  Attach = {a1, a2}
  Input <- AllInputs
  TTL = 1
  MaxLife = 1
  MaxLog = 20
  MaxCrash = 1
  MaxStall = 1
INVARIANTS
  WritesAreFenced
  
PROPERTIES
  ImplementsLease
  
CHECK_DEADLOCK FALSE
