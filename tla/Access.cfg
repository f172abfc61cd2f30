\* One user, three roles, two editors, one node that is asked and one that is
\* not; three entries of the audit log over two days of two hours, two rows to an anchor.
SPECIFICATION NodeSpec
CONSTANTS
  Node = {n1, n2}
  Asked = {n1}
  User = {u1}
  Role = {r1, r2, r3}
  Admin = r1
  Perm = {p1, p2}
  Editor = {1, 2}
  Key = {k1, k2}
  Member = {u1}
  Offer <- SmallOffer
  Bindable = {p1}
  KeyPerm = p2
  Name = {secret}
  Value = {v1, mask}
  Mask = mask
  Sensitive = {secret}
  MaxWrites = 3
  Life = 1
  Delay = 1
  MaxRow = 3
  MaxTime = 4
  DayLength = 2
  Grace = 1
  MaxDelay = 1
  Batch = 2
  RetentionDays = 1
  MaxAltered = 1
  LogScenes <- SmallLogScenes
  Ttl = 1
  MaxEdits = 2
  Scenes <- SmallScenes
INVARIANTS CopiesAreTrue AnswersAreFresh RolesAreSound LogIsWhole VerifierIsRight
PROPERTIES AnswersCome ErasureLeavesTheProofs
CHECK_DEADLOCK FALSE
