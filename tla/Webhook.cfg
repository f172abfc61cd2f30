\* One event, one endpoint, two processes; a batch may take longer than its lease.
\* And one process from its boot to its exit, with two requests.  The timers keep firing
\* and the receivers answer whatever they like.
SPECIFICATION FairHouse
CONSTANTS
  Parts = {"outbox", "process"}
  Making = 2
  Scenes <- SmallScenes
  Event = {1}
  Endpoint = {w1}
  Node = {n1, n2}
  NoEndpoint = NoEndpoint
  ClaimLimit = 2
  MaxAttempts = 2
  Lease = 2
  BatchTime = 3
  Unreadable = {}
  MaxCrashes = 1
INVARIANTS Partitioned PostsCounted DeliveredMeansAcked PoolsServeTheWork
PROPERTIES LedgerSpec EveryDeliverySettles ShutdownEnds
