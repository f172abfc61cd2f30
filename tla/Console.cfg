\* One user of the default tenant, three tokens and two requests at once; a request lives
\* no longer than the grace window.  And the console and the migrations, whose bounds
\* are in the module.
SPECIFICATION HouseSpec
CONSTANTS
  Parts = {"tokens", "console", "migrations"}
  Token = {t1, t2, t3}
  u1 = u1
  n0 = n0
  User = {u1}
  Tenant = {n0}
  DefaultTenant = n0
  TenantOf <- InDefault
  Req = {r1, r2}
  NoToken = NoToken
  NoUser = NoUser
  Status = {"active"}
  Grace = 1
  Ttl = 1
  Retain = 1
  IdleTiers = {0}
  Latency = 1
  LookupFails = FALSE
  MaxTime = 3
  Slot = {c1, c2}
  MaxLogin = 2
  MaxRotation = 3
  Talks <- SmallTalks
  Plots <- SmallPlots
  MaxFile = 3
  MaxCrashes = 1
SYMMETRY Symmetry
INVARIANTS AtMostOneSuccessor FamilyBurnMeansReplay RefreshesCostNoSession ChainIsApplied
CHECK_DEADLOCK FALSE
