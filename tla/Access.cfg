SPECIFICATION MCSpec
CONSTANTS
  MaxFaults = 1
  Spaces = {w1, w2}
  Ips = {i1, i2, i3}
  MaxAuthNow = 3
  TokenTtl = 1
  MaxTokensIssued = 3
  MaxFailures = 2
  FailWindow = 1
  MaxTrackedIps = 2
  MaxAttempts = 3
  MaxRights = 2
  Letters = {e1, e2}
  MaxDeliveries = 4
  w1 = w1 w2 = w2 i1 = i1 i2 = i2 i3 = i3 e1 = e1 e2 = e2
SYMMETRY Symmetry
INVARIANTS StartSound 
PROPERTIES  OnlyTheLivingAuthenticate ImplementsQueues
CHECK_DEADLOCK FALSE
