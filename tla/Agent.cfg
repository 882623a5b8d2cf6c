SPECIFICATION MCSpec
CONSTANTS
  ToolNames = {x1}
  Capabilities = {cp1}
  Callers = {a1, a2, a3}
  Threshold = 2
  Window = 1
  Cooldown = 1
  MaxConcurrent = 1
  MaxQueued = 1
  DefaultTimeout = 1
  MaxTimeout = 1
  MaxToolNow = 2
  MaxCalls = 3
  LlmCallers = {u1, u2}
  CostCentres = {cc1}
  MaxRequests = 2
  MaxTokens = 9
  LlmWindow = 2
  MaxRetries = 1
  BaseDelay = 1
  DelayCap = 4
  PriceUnit = 10
  MaxLlmNow = 4
  MaxCompletions = 4
  MaxTurns = 3
  SdkTasks = {k1, k2}
  CoordClients = {co1}
  Operators = {op1}
  ChanCap = 2
  BufCap = 1
  MaxEnvelopes = 4
  MaxEvents = 3
  MaxRestarts = 1
  MaxRuns = 2
  x1 = x1 cp1 = cp1 a1 = a1 a2 = a2 a3 = a3
  u1 = u1 u2 = u2 cc1 = cc1 k1 = k1 k2 = k2 co1 = co1 op1 = op1
SYMMETRY Symmetry
INVARIANTS GatewaySound
  
CHECK_DEADLOCK FALSE
