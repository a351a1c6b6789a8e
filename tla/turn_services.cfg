SPECIFICATION TurnServicesSpec
CONSTANTS
  t1 = t1
  t2 = t2
  t3 = t3
  e1 = e1
  e2 = e2
  e3 = e3
  a1 = a1
  a2 = a2
  c1 = c1
  c2 = c2
  c3 = c3
  c4 = c4
  l1 = l1
  l2 = l2
  l3 = l3
  p1 = p1
  p2 = p2
  NULL = NULL
  IdemCall = {c1, c2, c3, c4}
  MaxCrash = 1
  Turn = {t1, t2, t3}
  Agent = {a1, a2}
  agentOf <- AgentOfTurn
  MaxAsk = 2
  MaxHot = 1
  Limit = 1
  Entry = {e1, e2, e3}
  Steer = {e3}
  Caller = {c1, c2}
  First = First
  MaxPending = 2
  Asker = {s1, s2}
INVARIANTS
  InputsRunOnce
PROPERTIES
  
  KeyIsHonoured
  ApprovalsSettleOnce
  
CHECK_DEADLOCK FALSE
