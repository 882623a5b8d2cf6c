SPECIFICATION FairSpec
CONSTANTS
  w1 = w1
  w2 = w2
  Workspaces = {w1, w2}
  t1 = t1
  t2 = t2
  Tasks = {t1, t2}
  NoWs = NoWs
  NoTask = NoTask
  CoordCap = 3
  AgentCap = 2
  EventCap = 2
  MaxRequests = 5
  Ops = {"SubmitGoal", "SendDirective", "CancelTask", "SuspendWorkspace", "Complete", "Provisional", "Approve"}
PROPERTIES IntegratingCloses EndedForgotten CancelledStops
CHECK_DEADLOCK FALSE
