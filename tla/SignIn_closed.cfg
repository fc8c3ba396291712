SPECIFICATION Spec
CONSTANTS
  None = None
  Emails = {boot, ann}
  Bootstrap = boot
  AllowSignup = FALSE
  Links = {l1}
  Sessions = {k1, k2}
  Tokens = {t1}
  Requests = {r1, r2}
  LinkLife = 1
  SessionLife = 2
  Retention = 1
  MaxTime = 3
  RLS = FALSE
CHECK_DEADLOCK FALSE
INVARIANT LinkOpensOneSession
PROPERTY BootstrapFirst
PROPERTY HousekeepingSparesLive
