SPECIFICATION Spec
CONSTANTS
  w1 = w1
  w2 = w2
  Workspaces = {w1, w2}
  t1 = t1
  t2 = t2
  Tasks = {t1, t2}
  NoWs = NoWs
  NoTask = NoTask
  CoordCap = 2
  AgentCap = 1
  EventCap = 2
  MaxRequests = 5
  Ops = {"SubmitGoal", "Decompose", "Dispatch", "CancelTask", "AbortWorkspace", "SuspendWorkspace", "ResumeWorkspace", "TriggerIntegration", "SendDirective", "SendFeedback", "InjectEnvelope", "SendEnvelope", "Started", "Blocked", "Complete", "Failed", "Escalation", "Provisional", "Final", "Unspecified", "Approve", "Reject", "EscFeedback", "EscAbort", "EscDelegate"}
SYMMETRY Symmetry
INVARIANTS TypeOK MirrorConsistent BookkeepingBounded FirstResponseWins
PROPERTIES TreeTerminalSticky AbortPrecedence
CHECK_DEADLOCK FALSE
