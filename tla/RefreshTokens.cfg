\* One user of a tenant that can be suspended, two tokens, two requests, idle tiers and
\* the retention sweep.
SPECIFICATION Spec
CONSTANTS
  Token = {t1, t2}
  u1 = u1
  n0 = n0
  n1 = n1
  User = {u1}
  Tenant = {n0, n1}
  DefaultTenant = n0
  TenantOf <- InTenant
  Req = {r1, r2}
  NoToken = NoToken
  NoUser = NoUser
  Status = {"active", "pending"}
  Grace = 0
  Ttl = 1
  Retain = 0
  IdleTiers = {0, 1}
  Latency = 2
  LookupFails = FALSE
  MaxTime = 3
SYMMETRY Symmetry
INVARIANT TypeOK
PROPERTIES ShutUsersAreFrozen DeadChainsStayDead
CHECK_DEADLOCK FALSE
