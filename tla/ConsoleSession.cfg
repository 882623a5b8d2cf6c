CONSTANTS
  l1 = l1  l2 = l2  c1 = c1
  w1 = w1  w2 = w2  w3 = w3  w4 = w4
  Launches = {l1, l2}
  Cancels = {c1}
  Ids = {w1, w2, w3, w4}
  None = None
  Slots = 1
  changes = changes
  Streams = {changes}
  Changes = changes
  FailureCap = 2
  Pools = {{}, {"coordinator", "highway"}}
  MaxFaults = 1
SPECIFICATION Spec
CHECK_DEADLOCK FALSE
SYMMETRY Symmetry
INVARIANTS
  SessionTypeOK
  NoSilentLeak
  ActiveIsWatched
  
PROPERTY TerminalFinality
