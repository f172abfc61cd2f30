\* One window of the console, whose bearer may expire before the user signs out.
SPECIFICATION HouseSpec
CONSTANTS
  Parts = {"console"}
  Token = {t1, t2, t3}
  u1 = u1
  n0 = n0
  User = {u1}
  Tenant = {n0}
  DefaultTenant = n0
  TenantOf <- InDefault
  Req = {r1, r2}
  NoToken = NoToken
  NoUser = NoUser
  Status = {"active"}
  Grace = 1
  Ttl = 2
  Retain = 0
  IdleTiers = {0}
  Latency = 1
  LookupFails = FALSE
  MaxTime = 3
  Slot = {c1, c2}
  MaxLogin = 2
  MaxRotation = 3
  Talks <- SigningOut
  Plots <- SmallPlots
  MaxFile = 3
  MaxCrashes = 1
SYMMETRY Symmetry
INVARIANT SignOutEndsTheSession
CHECK_DEADLOCK FALSE
