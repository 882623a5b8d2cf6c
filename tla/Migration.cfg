SPECIFICATION MigrationSpec
CONSTANTS
  w1 = w1
  t1 = t1
  Workspaces = {w1}
  Tasks = {t1}
  NoWs = NoWs
  NoTask = NoTask
  NoMigration = NoMigration
  CoordCap = 2
  AgentCap = 2
  EventCap = 2
  MaxRequests = 7
  Ops = {"SubmitGoal", "SendDirective", "AbortWorkspace", "SuspendWorkspace", "ResumeWorkspace", "Provisional", "Approve", "Complete", "Blocked"}
INVARIANTS FrozenIsTracked SnapshotIsFrozen
CHECK_DEADLOCK FALSE
