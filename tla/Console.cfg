SPECIFICATION MCSpec
CONSTANTS
  Items = {g1, g2, e1}
  EscalationIds = {e1}
  Operators = {o1, o2}
  MaxBatch = 2
  BroadcastCap = 1
  FailureCap = 2
  MaxPublished = 2
  MaxBreaks = 2
  Rows = {r1, r2, r3}
  Keys = {1, 2, 3}
  MaxPage = 2
  MaxRowChanges = 2
  g1 = g1 g2 = g2 e1 = e1 o1 = o1 o2 = o2 r1 = r1 r2 = r2 r3 = r3
INVARIANTS HighwaySound WalkExact
CHECK_DEADLOCK FALSE
