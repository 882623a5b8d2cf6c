SPECIFICATION FairSpec
CONSTANTS
  w1 = w1
  w2 = w2
  Workspaces = {w1, w2}
  t1 = t1
  t2 = t2
  Tasks = {t1, t2}
  NoWs = NoWs
  NoTask = NoTask
  CoordCap = 2
  AgentCap = 1
  EventCap = 8
  MaxRequests = 4
  Ops = {"SubmitGoal", "SendDirective", "Complete", "Provisional", "Shutdown"}
INVARIANTS StoppedMeansEnded
PROPERTIES ShutdownEnds
CHECK_DEADLOCK FALSE
