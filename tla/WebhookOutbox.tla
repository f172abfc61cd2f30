--------------------------- MODULE WebhookOutbox ---------------------------
(***************************************************************************)
(* The durable event outbox and the webhook dispatcher that runs in every  *)
(* server process.  Managers commit events; a dispatcher tick fans open    *)
(* events out to delivery rows, marks events without a pending row         *)
(* terminal, claims due rows under a lease, posts them one after the other *)
(* and stamps each outcome.  Each statement of a tick commits on its own,  *)
(* so ticks of several processes interleave between statements.            *)
(*                                                                         *)
(* Events and endpoints are those of one tenant that is not the default    *)
(* one; a subscription that stops matching is modelled by the endpoint     *)
(* going inactive.  Times are countdowns in units of half a lease, so that *)
(* the model is finite without a bound on the clock.  attempts stops       *)
(* counting at MaxAttempts, beyond which the code no longer tells values   *)
(* apart.                                                                  *)
(***************************************************************************)
EXTENDS Integers, FiniteSets

CONSTANTS
  Event,        \* numbers: the ids, in the order the sequence hands them out
  Endpoint,
  Node,         \* server processes, one dispatcher each
  NoEndpoint,
  ClaimLimit,   \* CLAIM_LIMIT
  MaxAttempts,  \* MAX_ATTEMPTS
  Lease,        \* LEASE_SECS
  BatchTime,    \* longest time from a claim to the last stamp of its rows
  Unreadable,   \* endpoints whose secret cannot be decrypted
  MaxCrashes    \* bound on crashes and failed statements, for model checking

ASSUME ConstAssumption ==
  /\ Event \subseteq Nat /\ NoEndpoint \notin Endpoint
  /\ ClaimLimit \in Nat \ {0} /\ MaxAttempts \in Nat \ {0}
  /\ Lease \in Nat \ {0} /\ BatchTime \in Nat
  /\ Unreadable \subseteq Endpoint /\ MaxCrashes \in Nat

\* Arithmetic that no prover knows: the backoff is a natural number.
ASSUME PowerAssumption == \A k \in 0..MaxAttempts : 2^k \in Nat

VARIABLES
  event,     \* per id: "absent", "open" (fanout_complete_at is null), "done", "pruned"
  target,    \* the endpoint a ping event is for, NoEndpoint for all others
  pinging,   \* pings between their two INSERTs
  endpoint,  \* "absent", "active", "inactive", "deleted"
  live,      \* is the tenant active?
  ledger,    \* webhook_deliveries, by event and endpoint
  audience,  \* history: endpoints that want the event, ever since its commit
  posts,     \* history: POSTs made for a delivery, up to MaxAttempts
  acked,     \* history: deliveries whose receiver has answered 2xx
  outlived,  \* history: deliveries still worked on when their lease ended
  pc,        \* the next step of each dispatcher's tick
  plan,      \* rows its fan-out statement is about to insert
  held,      \* rows it has claimed and not yet stamped
  job,       \* the row it has posted, and the outcome
  since,     \* time since the claim of the batch it works on
  crashes

eventVars == <<event, target, pinging>>
setupVars == <<endpoint, live>>
histVars  == <<audience, posts, acked, outlived>>
nodeVars  == <<pc, plan, held, job, since>>
vars      == <<eventVars, setupVars, ledger, histVars, nodeVars, crashes>>

Delivery == Event \X Endpoint

Row == [status: {"none", "pending", "delivered", "dead"}, attempts: 0..MaxAttempts, wait: Nat]

NoRow   == [status |-> "none", attempts |-> 0, wait |-> 0]
Pending == [status |-> "pending", attempts |-> 0, wait |-> 0]

\* A claimed row in a dispatcher's memory: the delivery, and attempts as the
\* claim returned it.
Claimed == [delivery: Delivery, attempts: 0..MaxAttempts]
Outcome == [delivery: Delivery, attempts: 0..MaxAttempts, ok: BOOLEAN]

Steps == {"idle", "fanout", "insert", "terminalize", "claim", "enrich", "post", "stamp", "settle"}

Init ==
  /\ event = [e \in Event |-> "absent"]
  /\ target = [e \in Event |-> NoEndpoint]
  /\ pinging = {}
  /\ endpoint = [w \in Endpoint |-> "absent"]
  /\ live = TRUE
  /\ ledger = [d \in Delivery |-> NoRow]
  /\ audience = [e \in Event |-> {}]
  /\ posts = [d \in Delivery |-> 0]
  /\ acked = {} /\ outlived = {}
  /\ pc = [n \in Node |-> "idle"]
  /\ plan = [n \in Node |-> {}]
  /\ held = [n \in Node |-> {}]
  /\ job = [n \in Node |-> {}]
  /\ since = [n \in Node |-> 0]
  /\ crashes = 0

Least(a, b) == IF a < b THEN a ELSE b

\* nextAttemptAt: 30 s doubled for every attempt after the first
Backoff(attempts) == 2^((IF attempts < 1 THEN 1 ELSE attempts) - 1)

Stored(e) == event[e] \in {"open", "done"}
Exists(w) == endpoint[w] \in {"active", "inactive"}

-----------------------------------------------------------------------------
(* The rest of the server *)

\* emitEvent: the row commits with the mutation it reports.
Emit(e) ==
  /\ event[e] = "absent"
  /\ event' = [event EXCEPT ![e] = "open"]
  /\ audience' = [audience EXCEPT ![e] = IF live THEN {w \in Endpoint : endpoint[w] = "active"} ELSE {}]
  /\ UNCHANGED <<target, pinging, setupVars, ledger, posts, acked, outlived, nodeVars, crashes>>

\* POST /webhooks/:id/ping inserts a webhook.test event, then its delivery.
PingEvent(e, w) ==
  /\ event[e] = "absent" /\ Exists(w)
  /\ event' = [event EXCEPT ![e] = "open"]
  /\ target' = [target EXCEPT ![e] = w]
  /\ pinging' = pinging \cup {e}
  /\ UNCHANGED <<setupVars, ledger, histVars, nodeVars, crashes>>

PingDelivery(e) ==
  /\ e \in pinging
  /\ pinging' = pinging \ {e}
  /\ LET d == <<e, target[e]>>
     IN  ledger' = IF Stored(e) /\ Exists(target[e]) /\ ledger[d].status = "none"
                   THEN [ledger EXCEPT ![d] = Pending] ELSE ledger
  /\ UNCHANGED <<event, target, setupVars, histVars, nodeVars, crashes>>

PingLost(e) ==   \* the process dies between the two INSERTs
  /\ e \in pinging
  /\ pinging' = pinging \ {e}
  /\ UNCHANGED <<event, target, setupVars, ledger, histVars, nodeVars, crashes>>

\* POST and PUT /webhooks
SetEndpoint(w, from, to) ==
  /\ endpoint[w] = from
  /\ endpoint' = [endpoint EXCEPT ![w] = to]
  /\ audience' = [e \in Event |-> audience[e] \ {w}]
  /\ UNCHANGED <<eventVars, live, ledger, posts, acked, outlived, nodeVars, crashes>>

Without(gone) == [d \in Delivery |-> IF gone[d] THEN NoRow ELSE ledger[d]]

DeleteEndpoint(w) ==   \* deliveries cascade
  /\ Exists(w)
  /\ endpoint' = [endpoint EXCEPT ![w] = "deleted"]
  /\ audience' = [e \in Event |-> audience[e] \ {w}]
  /\ ledger' = Without([d \in Delivery |-> d[2] = w])
  /\ UNCHANGED <<eventVars, live, posts, acked, outlived, nodeVars, crashes>>

SetTenant(alive) ==   \* suspend or reactivate the tenant
  /\ live # alive
  /\ live' = alive
  /\ audience' = [e \in Event |-> {}]
  /\ UNCHANGED <<eventVars, endpoint, ledger, posts, acked, outlived, nodeVars, crashes>>

-----------------------------------------------------------------------------
(* A tick of dispatcher n *)

Step(n, from, to) ==
  /\ pc[n] = from
  /\ pc' = [pc EXCEPT ![n] = to]

\* PRUNE_SQL opens every tick; with the kill-switch off it is all of it.  Retention is
\* so much longer than all other times that the model leaves open when an event is
\* past it, and whether it ever is.
StartTick(n, to) ==
  /\ Step(n, "idle", to)
  /\ \E old \in SUBSET {e \in Event : Stored(e)} :
       /\ event' = [e \in Event |-> IF e \in old THEN "pruned" ELSE event[e]]
       /\ ledger' = Without([d \in Delivery |-> d[1] \in old])
  /\ UNCHANGED <<target, pinging, setupVars, histVars, plan, held, job, since, crashes>>

\* FANOUT_SQL reads one snapshot and inserts what it found when it commits;
\* rows of events and endpoints deleted in between fail the whole statement.
Fanout(n) ==
  /\ Step(n, "fanout", "insert")
  /\ plan' = [plan EXCEPT ![n] =
        {d \in Delivery : event[d[1]] = "open" /\ target[d[1]] = NoEndpoint
                          /\ endpoint[d[2]] = "active" /\ live}]
  /\ UNCHANGED <<eventVars, setupVars, ledger, histVars, held, job, since, crashes>>

FanoutInsert(n) ==
  /\ pc[n] = "insert"
  /\ plan' = [plan EXCEPT ![n] = {}]
  /\ \/ /\ \A d \in plan[n] : Stored(d[1]) /\ Exists(d[2])
        /\ pc' = [pc EXCEPT ![n] = "terminalize"]
        /\ ledger' = [d \in Delivery |->
             IF d \in plan[n] /\ ledger[d].status = "none" THEN Pending ELSE ledger[d]]
     \/ /\ \E d \in plan[n] : ~(Stored(d[1]) /\ Exists(d[2]))
        /\ pc' = [pc EXCEPT ![n] = "idle"]
        /\ UNCHANGED ledger
  /\ UNCHANGED <<eventVars, setupVars, histVars, held, job, since, crashes>>

\* TERMINALIZE_SQL: every open event without a pending row
Terminal(e) == event[e] = "open" /\ \A w \in Endpoint : ledger[<<e, w>>].status # "pending"

Terminalize(n, from, to) ==
  /\ Step(n, from, to)
  /\ event' = [e \in Event |-> IF Terminal(e) THEN "done" ELSE event[e]]
  /\ UNCHANGED <<target, pinging, setupVars, ledger, histVars, plan, held, job, since, crashes>>

\* Faulty variant: only what was posted since its last claim is claimed again.
DueIfPosted ==
  {d \in Delivery : ledger[d].status = "pending" /\ ledger[d].wait = 0 /\ posts[d] = ledger[d].attempts}

Due == {d \in Delivery : ledger[d].status = "pending" /\ ledger[d].wait = 0}

\* Faulty variants of the row a claim leaves behind: not leased, not counted.
ClaimedUnleased(r) == [r EXCEPT !.attempts = Least(@ + 1, MaxAttempts)]
ClaimedUncounted(r) == [r EXCEPT !.wait = Lease]

Leased(r) == [r EXCEPT !.attempts = Least(@ + 1, MaxAttempts), !.wait = Lease]

\* CLAIM_SQL: due rows in the order of their events, up to the limit.  A row
\* locked by another claim is skipped; that claim then holds the lease.
Claim(n) ==
  /\ pc[n] = "claim"
  /\ \E S \in SUBSET Due :
       /\ Cardinality(S) = Least(ClaimLimit, Cardinality(Due))
       /\ \A d \in S, x \in Due \ S : d[1] <= x[1]
       /\ ledger' = [d \in Delivery |-> IF d \in S THEN Leased(ledger[d]) ELSE ledger[d]]
       /\ held' = [held EXCEPT ![n] = {[delivery |-> d, attempts |-> Leased(ledger[d]).attempts] : d \in S}]
       /\ pc' = [pc EXCEPT ![n] = IF S = {} THEN "idle" ELSE "enrich"]
  /\ since' = [since EXCEPT ![n] = 0]
  /\ UNCHANGED <<eventVars, setupVars, histVars, plan, job, crashes>>

\* The SELECTs that follow: rows whose endpoint or event is gone are skipped,
\* and a secret that does not decrypt throws out of the whole tick.
Enrich(n) ==
  /\ pc[n] = "enrich"
  /\ LET found == {c \in held[n] : Exists(c.delivery[2]) /\ Stored(c.delivery[1])}
         fails == \E c \in held[n] : Exists(c.delivery[2]) /\ c.delivery[2] \in Unreadable
     IN  /\ held' = [held EXCEPT ![n] = IF fails THEN {} ELSE found]
         /\ pc' = [pc EXCEPT ![n] = IF fails THEN "idle" ELSE IF found = {} THEN "settle" ELSE "post"]
         /\ since' = [since EXCEPT ![n] = IF fails \/ found = {} THEN 0 ELSE @]
  /\ UNCHANGED <<eventVars, setupVars, ledger, histVars, plan, job, crashes>>

\* One POST: 2xx, or anything else (an error answer, a timeout, a lost answer,
\* a denied address).  The receiver may have accepted what looks like a failure.
Post(n, c, ok) ==
  /\ c \in held[n]
  /\ Step(n, "post", "stamp")
  /\ held' = [held EXCEPT ![n] = @ \ {c}]
  /\ job' = [job EXCEPT ![n] = {[delivery |-> c.delivery, attempts |-> c.attempts, ok |-> ok]}]
  /\ posts' = [posts EXCEPT ![c.delivery] = Least(@ + 1, MaxAttempts)]
  /\ acked' = IF ok THEN acked \cup {c.delivery} ELSE acked
  /\ UNCHANGED <<eventVars, setupVars, ledger, audience, outlived, plan, since, crashes>>

\* Faulty variants of the outcome: dead one attempt early, and delivered
\* whatever the answer was.
StampedEarly(r, j) ==
  [r EXCEPT !.status = IF j.ok THEN "delivered" ELSE IF j.attempts + 1 >= MaxAttempts THEN "dead" ELSE "pending",
            !.wait = IF j.ok \/ j.attempts >= MaxAttempts THEN 0 ELSE Backoff(j.attempts)]
StampedBlindly(r, j) == [r EXCEPT !.status = "delivered", !.wait = 0]

Stamped(r, j) ==
  [r EXCEPT !.status = IF j.ok THEN "delivered" ELSE IF j.attempts >= MaxAttempts THEN "dead" ELSE "pending",
            !.wait = IF j.ok \/ j.attempts >= MaxAttempts THEN 0 ELSE Backoff(j.attempts)]

\* The outcome UPDATE goes by id alone: it hits the row in whatever state it
\* is by then, or no row.
Stamp(n) ==
  /\ pc[n] = "stamp"
  /\ \E j \in job[n] :
       ledger' = [d \in Delivery |->
         IF d = j.delivery /\ ledger[d].status # "none" THEN Stamped(ledger[d], j) ELSE ledger[d]]
  /\ job' = [job EXCEPT ![n] = {}]
  /\ pc' = [pc EXCEPT ![n] = IF held[n] = {} THEN "settle" ELSE "post"]
  /\ since' = [since EXCEPT ![n] = IF held[n] = {} THEN 0 ELSE @]
  /\ UNCHANGED <<eventVars, setupVars, histVars, plan, held, crashes>>

\* The process dies or a statement fails: the tick is over, what it claimed is
\* left to the lease.
Crash(n) ==
  /\ pc[n] # "idle" /\ crashes < MaxCrashes
  /\ crashes' = crashes + 1
  /\ pc' = [pc EXCEPT ![n] = "idle"]
  /\ plan' = [plan EXCEPT ![n] = {}]
  /\ held' = [held EXCEPT ![n] = {}]
  /\ job' = [job EXCEPT ![n] = {}]
  /\ since' = [since EXCEPT ![n] = 0]
  /\ UNCHANGED <<eventVars, setupVars, ledger, histVars>>

Posting(n) == pc[n] \in {"enrich", "post", "stamp"}

\* The deliveries a dispatcher is working on.
Working(n) == {c.delivery : c \in held[n]} \cup {j.delivery : j \in job[n]}

\* Time passes.  Nobody works on a batch for longer than BatchTime, which may well
\* be longer than its lease.
Tick ==
  /\ UNCHANGED <<event, target, pinging, setupVars, audience, posts, acked, pc, plan, held, job, crashes>>
  /\ \A n \in Node : Posting(n) => since[n] < BatchTime
  /\ since' = [n \in Node |-> IF Posting(n) THEN since[n] + 1 ELSE since[n]]
  /\ outlived' = outlived \cup UNION {Working(n) : n \in {m \in Node : since'[m] >= Lease}}
  /\ ledger' = [d \in Delivery |-> [ledger[d] EXCEPT !.wait = IF @ > 0 THEN @ - 1 ELSE 0]]

Dispatch(n) ==
  \/ StartTick(n, "fanout")
  \/ Fanout(n) \/ FanoutInsert(n)
  \/ Terminalize(n, "terminalize", "claim")
  \/ Claim(n) \/ Enrich(n)
  \/ \E c \in held[n], ok \in BOOLEAN : Post(n, c, ok)
  \/ Stamp(n)
  \/ Terminalize(n, "settle", "idle")

Server ==
  \/ \E e \in Event : Emit(e) \/ PingDelivery(e) \/ PingLost(e)
  \/ \E e \in Event, w \in Endpoint : PingEvent(e, w)
  \/ \E w \in Endpoint :
       \/ SetEndpoint(w, "absent", "active")
       \/ SetEndpoint(w, "active", "inactive")
       \/ SetEndpoint(w, "inactive", "active")
       \/ DeleteEndpoint(w)
  \/ \E alive \in BOOLEAN : SetTenant(alive)

Next ==
  \/ Server
  \/ \E n \in Node : Dispatch(n) \/ StartTick(n, "idle") \/ Crash(n)
  \/ Tick

Spec == Init /\ [][Next]_vars

\* The timers keep firing, a tick keeps moving and time keeps passing; the
\* kill-switch stays on.
FairSpec == Spec /\ WF_vars(Tick) /\ \A n \in Node : WF_vars(Dispatch(n))

-----------------------------------------------------------------------------
(* Properties *)

\* Shapes, and the foreign keys: a delivery row has its event and its endpoint.
TypeOK ==
  /\ event \in [Event -> {"absent", "open", "done", "pruned"}]
  /\ target \in [Event -> Endpoint \cup {NoEndpoint}]
  /\ pinging \subseteq {e \in Event : target[e] \in Endpoint}
  /\ endpoint \in [Endpoint -> {"absent", "active", "inactive", "deleted"}]
  /\ live \in BOOLEAN
  /\ ledger \in [Delivery -> Row]
  /\ \A d \in Delivery : ledger[d].status # "none" => Stored(d[1]) /\ Exists(d[2])
  /\ audience \in [Event -> SUBSET Endpoint]
  /\ posts \in [Delivery -> 0..MaxAttempts] /\ acked \subseteq Delivery /\ outlived \subseteq Delivery
  /\ pc \in [Node -> Steps]
  /\ plan \in [Node -> SUBSET Delivery]
  /\ held \in [Node -> SUBSET Claimed]
  /\ job \in [Node -> SUBSET Outcome]
  /\ since \in [Node -> Nat]
  /\ crashes \in 0..MaxCrashes

\* The dispatchers of several processes partition the deliveries (CLAIM_SQL's
\* lease): none is worked on by two at a time, unless one of them once outlived its
\* lease on it.
Partitioned == \A m, n \in Node : m # n => Working(m) \cap Working(n) \subseteq outlived

\* Every POST has been counted before it is made, so that neither crashes nor
\* batches that outlive their lease send a delivery more often than its attempts say.
PostsCounted == \A d \in Delivery : ledger[d].status # "none" => posts[d] <= ledger[d].attempts

\* A delivery is only ever stamped delivered after its receiver said so, however
\* late the stamp is and whatever others have stamped.
DeliveredMeansAcked == \A d \in Delivery : ledger[d].status = "delivered" => d \in acked

\* What the ledger promises its readers, with all that leases, batches and
\* crashes do hidden: see DeliveryLedger.  A late outcome may revise another one
\* only where a lease was outlived.
Phase == [d \in Delivery |->
  IF event[d[1]] = "pruned" \/ endpoint[d[2]] = "deleted" THEN "gone" ELSE ledger[d].status]
Tries == [d \in Delivery |-> ledger[d].attempts]
Ledger == INSTANCE DeliveryLedger WITH phase <- Phase, tries <- Tries, late <- outlived
LedgerSpec == Ledger!Spec

\* Every queued delivery is delivered, given up or removed in the end, whatever the
\* receivers answer and whoever dies at work on it; events may never get old.
EveryDeliverySettles ==
  \A d \in Delivery : ledger[d].status = "pending" ~> ledger[d].status # "pending"

\* Stated by the comment on the events table: only events without subscribers
\* become terminal without deliveries.
NoSubscriberMissed ==
  \A e \in Event, w \in Endpoint :
    event[e] = "done" /\ w \in audience[e] => ledger[<<e, w>>].status # "none"
=============================================================================
