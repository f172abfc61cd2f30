\* Two requests and two mutations of one user, with Redis and database outages; and
\* logins through providers and logouts by them, for two users, two requests at a time.
SPECIFICATION HouseSpec
CONSTANTS
  Req = {r1, r2}
  Writer = {w1, w2}
  Ttl = 2
  Latency = 1
  MaxVersion = 2
  Outages = TRUE
  Person = {u1, u2}
  m1 = m1
  m2 = m2
  Mail = {m1, m2}
  hub = hub
  own = own
  roam = roam
  mute = mute
  corp = corp
  alias = alias
  Account = {hub, own, roam, mute, corp, alias}
  Kind <- SmallKind
  Asserts <- SmallAsserts
  NameId <- SmallNameId
  l1 = l1
  l2 = l2
  l3 = l3
  Logout = {l1, l2, l3}
  About <- SmallAbout
  Session = {s1, s2}
  MaxBumps = 1
  Code = {c1, c2}
  Proc = {p1, p2}
  NoMail = nomail
  Nobody = nobody
  Works <- SmallWorks
SYMMETRY Symmetry
INVARIANTS LoginsAreSound LogoutsHold
PROPERTIES RevokedInTime RefusedOnlyAfterChange RefusalsAreExplained
