\* Two users, three where there are exports, one group, two requests, one or two kinds of callers.
SPECIFICATION Spec
CONSTANTS
  Users = 3
  Group = {1}
  Proc = {p1, p2}
  Manager = 1
  Keep = 1
  MaxPw = 3
  MaxHistory = 2
  PageSize = 1
  MaxPages = 2
  Workloads <- SmallWorkloads
CONSTRAINT SmallTenant
SYMMETRY Symmetry
INVARIANTS BatchesAreWhole ManagersStayInScope
PROPERTIES OldPasswordsStayOut AdministratorsAreMeant
