\* One process, one subscriber: what becomes of an event committed during a tick.
SPECIFICATION HouseSpec
CONSTANTS
  Parts = {"outbox"}
  Making = 2
  Scenes <- SmallScenes
  Event = {1}
  Endpoint = {w1}
  Node = {n1}
  NoEndpoint = NoEndpoint
  ClaimLimit = 2
  MaxAttempts = 2
  Lease = 2
  BatchTime = 3
  Unreadable = {}
  MaxCrashes = 0
SYMMETRY Symmetry
INVARIANTS NoSubscriberMissed
