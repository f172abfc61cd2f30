\* Every way in, two requests: each deployment has one or two methods switched on.  And
\* the OpenID provider: two users, two requests, at most four rows.
SPECIFICATION HouseSpec
CONSTANTS
  Proc = {p1, p2}
  Token = {t1, t2}
  MaxFailures = 2
  MaxSecret = 2
  MaxCount = 2
  Sites <- SmallSites
  Subject = {u1, u2}
  RowId = {1, 2, 3, 4}
  Limit = 2
  Nil = nil
  Tasks <- SmallTasks
SYMMETRY Symmetry
INVARIANTS TokensOpenOnce GatesHold GuessesAreCounted ProviderIsSound
PROPERTIES FactorsAreSpent
