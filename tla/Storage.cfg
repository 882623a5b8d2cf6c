SPECIFICATION MCSpec
CONSTANTS
  Workspaces = {w1}
  Tasks = {t1}
  Envelopes = {e1}
  WsStates = {"Idle", "Active", "Unknown"}
  TaskStates = {"Pending"}
  KnownStates = {"Idle", "Active", "Pending"}
  SegmentMax = 2
  MaxLog = 5
  MaxCrashes = 2
  MaxFaults = 1
  HotLimit = 1
  SmallFile = 3
  Payloads = {p1, p2}
  SnapIds = {s1}
  BlobCrashes = 2
  Nodes = {n1, n2}
  LogicalMax = 2
  MaxPhysical = 2
  w1 = w1 t1 = t1 e1 = e1
  p1 = p1 p2 = p2 s1 = s1
  n1 = n1 n2 = n2
SYMMETRY Symmetry
 
PROPERTIES RecoveryExact StoreHonest 
CHECK_DEADLOCK FALSE
