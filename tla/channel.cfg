SPECIFICATION ChannelSpec
CONSTANTS
  r1 = r1
  r2 = r2
  i1 = i1
  o1 = o1
  NULL = NULL
  Runner = {r1, r2}
  MaxUpdate = 2
  Message = {1, 2}
  Malformed = {2}
  Limit = 2
  StaleAfter = 1
  DropPending = FALSE
  InboxWorker = {i1}
  OutboxWorker = {o1}
  ReclaimTTL = 1
  MaxAttempts = 1
  MaxBackoff = 1
  MaxClaims = 1
  MaxLost = 0

  
PROPERTIES
  PipelineDelivers
