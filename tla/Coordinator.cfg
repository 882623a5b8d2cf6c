SPECIFICATION MCSpec
CONSTANTS
  Nodes = {0, 1, 2, 3}
  Root = 0
  u1 = u1
  u2 = u2
  Users = {u1, u2}
  NoNode = NoNode
  System = System
  MaxRights = 10
  MaxEnvelopes = 1
  a = a
  b = b
  c = c
  TaskIds = {a, b, c}
  NoTask = NoTask
  MaxConcurrent = 1
  MaxAttempts = 2
  MaxGates = 1
  MaxDispatched = 2
  MaxEdges = 2
  s1 = s1
  Spaces = {s1}
  NoEntry = NoEntry
  Limits = {0, 2}
  Interval = 2
  MarginPct = 50
  WarnPct = 80
  MaxNow = 4
  MaxUsage = 3
  MaxLimit = 4
  p1 = p1
  p2 = p2
  Sources = {p1, p2}
  f1 = f1
  Artifacts = {f1}
  NoSource = NoSource
  MaxPushes = 2
SYMMETRY Symmetry
PROPERTIES TopologyHolds   MergesSafe
CHECK_DEADLOCK FALSE
