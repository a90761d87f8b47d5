SPECIFICATION ServerFairSpec
CONSTANTS
  r1 = r1  r2 = r2  r3 = r3  t1 = t1  k1 = k1  k2 = k2
  NoShard = NoShard  Free = Free  Earlier = Earlier  Server = Server
  Requests = {r1, r2, r3}  Closers = {Server}  Tenants = {t1}
  TenantOf <- OneTenant  KindOf <- WriteReadWrite  MaxOpenShards = 1  Stored = {}
  Connections = {k1, k2}  ConnectionOf <- TwoConnections
  MaxConnections = 1  MaxConcurrentRequests = 1
PROPERTIES EveryTaskEnds ShutdownCompletes
CHECK_DEADLOCK FALSE
