SPECIFICATION MCSpec
CONSTANTS
  Handlers = {1, 2}
  Pids = {p1, p2}
  Owners = {u1}
  Contents = {n1, n2}
  MaxVersions = 3
  MaxRequests = 5
  Slots = {s1, s2}
  MaxSettings = 2
  UserIds = {u1, u2, u3}
  Clients = {c1, c2}
  Admins = {u1, u2}
  MaxPerAccount = 1
  MaxPerIp = 2
  MaxCalls = 3
  SettingKeys = {k1, k2}
  KnownKeys = {k1}
  Verticals = {v1, v2}
  RoleIds = {a1}
  ToolNames = {t1, t2}
  MaxReloads = 3
  MaxProfVersions = 2
  Entities = {1, 2, 3}
  p1 = p1 p2 = p2 n1 = n1 n2 = n2 s1 = s1 s2 = s2
  u1 = u1 u2 = u2 u3 = u3 c1 = c1 c2 = c2 k1 = k1 k2 = k2 v1 = v1 v2 = v2 a1 = a1 t1 = t1 t2 = t2
  
PROPERTIES ProfilesSound LastAdminNeedsARace
CHECK_DEADLOCK FALSE
