\* Two secrets through one rotation of the key, as the runbook has it.
SPECIFICATION HouseSpec
CONSTANTS
  User = {u1, u2}
  Group = {g1, g2}
  Proc = {p1, p2}
  Node = {p1, p2}
  Visit = {g1, g2}
  Boss = boss
  Address = {boss, other}
  Probes = 2
  NoNode = none
  Launches <- SmallLaunches
  Request = {g1, g2}
  Cell = {client, webhook}
  Columns <- SmallColumns
  MaxKey = 1
  MaxSecret = 2
  None = none
SYMMETRY Symmetry
INVARIANT RetiredKeyIsNotNeeded
