SPECIFICATION Spec
CONSTANTS
  r1 = r1  r2 = r2  r3 = r3  r4 = r4  t1 = t1  t2 = t2  c1 = c1  c2 = c2
  NoShard = NoShard  Free = Free  Earlier = Earlier
  Requests = {r1, r2, r3, r4}  Closers = {c1, c2}  Tenants = {t1, t2}
  TenantOf <- FourOfTwo  KindOf <- FourKinds  MaxOpenShards = 1  Stored = {t2}
INVARIANTS OneCoordinatorPerFile SeesAcknowledged ReadsCreateNothing ShutdownReleases
CHECK_DEADLOCK FALSE
