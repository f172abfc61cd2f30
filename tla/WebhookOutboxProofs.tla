------------------------ MODULE WebhookOutboxProofs ------------------------
(***************************************************************************)
(* Proofs about WebhookOutbox: the dispatchers partition the deliveries    *)
(* until they outlive a lease, count every POST and implement the delivery *)
(* ledger, for any events, endpoints, processes and times.  Then, of       *)
(* Lifecycle, the process they run in: the pools it builds, the requests   *)
(* it has taken and the hooks of its shutdown are in step.                 *)
(***************************************************************************)
EXTENDS MCWebhookOutbox, Sequences, FiniteSetTheorems, TLAPS

\* The removal of its event or its endpoint is the only way a row that has
\* been worked on can be missing, and it is for good.
Gone(d) == event[d[1]] = "pruned" \/ endpoint[d[2]] = "deleted"

\* Where a tick stands decides what it holds, and it holds a row once.
Batches ==
  \A n \in Node :
    /\ held[n] # {} => Posting(n)
    /\ job[n] # {} => pc[n] = "stamp"
    /\ \A b, c \in held[n] : b.delivery = c.delivery => b = c
    /\ \A i, j \in job[n] : i = j
    /\ \A c \in held[n], j \in job[n] : c.delivery # j.delivery

\* A row worked on is pending under its lease until that is outlived.
UnderLease(n, d) ==
  /\ ledger[d].status = "none" => Gone(d)
  /\ d \notin outlived =>
       /\ since[n] < Lease /\ ledger[d].status \in {"none", "pending"}
       /\ ledger[d].status = "pending" => ledger[d].wait + since[n] >= Lease

\* What the claim returned of attempts.
Numbered(c) ==
  /\ c.attempts > 0
  /\ ledger[c.delivery].status # "none" => c.attempts <= ledger[c.delivery].attempts

Leases ==
  \A n \in Node :
    /\ \A d \in Working(n) : UnderLease(n, d)
    /\ \A c \in held[n] \cup job[n] : Numbered(c)

\* Every POST is of a row that was queued, and what is stamped was answered.
Posts ==
  /\ \A d \in Delivery : posts[d] > 0 /\ ledger[d].status = "none" => Gone(d)
  /\ \A n \in Node : \A j \in job[n] : j.ok => j.delivery \in acked

Safe == Leases /\ Posts /\ Partitioned /\ DeliveredMeansAcked

Inv == TypeOK /\ Batches /\ Safe

\* The dispatchers that have claimed a row and not yet posted it.
Holders(d) == {n \in Node : \E c \in held[n] : c.delivery = d}

\* Every claim is counted and posts at most once.
Counted ==
  \A d \in Delivery : ledger[d].status # "none" /\ ledger[d].attempts < MaxAttempts =>
    posts[d] + Cardinality(Holders(d)) <= ledger[d].attempts

-----------------------------------------------------------------------------
\* What the provers need to know about the rows that a step may write.
LEMMA BackoffIsNat == \A a \in 0..MaxAttempts : Backoff(a) \in Nat
<1> TAKE a \in 0..MaxAttempts
<1>1. (IF a < 1 THEN 1 ELSE a) - 1 \in 0..MaxAttempts
  BY ConstAssumption
<1> QED BY <1>1, PowerAssumption DEF Backoff

LEMMA LeasedRow == ASSUME NEW r \in Row
                   PROVE  /\ Leased(r) \in Row
                          /\ Leased(r).status = r.status
                          /\ Leased(r).wait = Lease
                          /\ Leased(r).attempts = Least(r.attempts + 1, MaxAttempts)
                          /\ Leased(r).attempts \in 1..MaxAttempts
<1> DEFINE a == Least(r.attempts + 1, MaxAttempts)
<1>1. Leased(r) = [r EXCEPT !.attempts = a, !.wait = Lease]
  BY DEF Leased
<1>2. a \in 1..MaxAttempts /\ a \in 0..MaxAttempts /\ Lease \in Nat
  BY ConstAssumption DEF Least, Row
<1> HIDE DEF a
<1>3. Leased(r) \in Row /\ Leased(r).status = r.status /\ Leased(r).attempts = a /\ Leased(r).wait = Lease
  BY <1>1, <1>2 DEF Row
<1> QED BY <1>2, <1>3 DEF a

LEMMA StampedRow == ASSUME NEW r \in Row, NEW j \in Outcome
                    PROVE  /\ Stamped(r, j) \in Row
                           /\ Stamped(r, j).status # "none"
                           /\ Stamped(r, j).attempts = r.attempts
                           /\ Stamped(r, j).status = "delivered" <=> j.ok
                           /\ Stamped(r, j).status = "dead" => j.attempts >= MaxAttempts
<1> DEFINE s == IF j.ok THEN "delivered" ELSE IF j.attempts >= MaxAttempts THEN "dead" ELSE "pending"
           w == IF j.ok \/ j.attempts >= MaxAttempts THEN 0 ELSE Backoff(j.attempts)
<1>1. w \in Nat
  BY BackoffIsNat DEF Outcome
<1>2. /\ s \in {"delivered", "dead", "pending"}
      /\ s = "delivered" <=> j.ok
      /\ s = "dead" => j.attempts >= MaxAttempts
  BY DEF Outcome
<1>3. Stamped(r, j) = [r EXCEPT !.status = s, !.wait = w]
  BY DEF Stamped
<1> HIDE DEF s, w
<1> QED BY <1>1, <1>2, <1>3 DEF Row

LEMMA DeliveryParts == /\ \A d \in Delivery : d[1] \in Event /\ d[2] \in Endpoint /\ d = <<d[1], d[2]>>
               /\ \A e \in Event, w \in Endpoint : <<e, w>> \in Delivery
BY DEF Delivery

LEMMA Rows == NoRow \in Row /\ Pending \in Row
BY ConstAssumption DEF NoRow, Pending, Row

-----------------------------------------------------------------------------
(* Types and foreign keys *)

LEMMA TypeInit == Init => TypeOK
BY ConstAssumption, Rows DEF Init, TypeOK, NoRow, Steps

LEMMA TypeServer == ASSUME TypeOK, Server PROVE TypeOK'
<1> USE ConstAssumption, DeliveryParts, Rows DEF TypeOK, setupVars, histVars, nodeVars, eventVars
<1>1. ASSUME NEW e \in Event, Emit(e) PROVE TypeOK'
  <2>1. event' \in [Event -> {"absent", "open", "done", "pruned"}] /\ audience' \in [Event -> SUBSET Endpoint]
    BY <1>1 DEF Emit
  <2>2. \A x \in Event : Stored(x) => Stored(x)'
    BY <1>1 DEF Emit, Stored
  <2>3. \A w \in Endpoint : Exists(w)' = Exists(w)
    BY <1>1 DEF Emit, Exists
  <2> QED BY <1>1, <2>1, <2>2, <2>3 DEF Emit
<1>2. ASSUME NEW e \in Event, NEW w \in Endpoint, PingEvent(e, w) PROVE TypeOK'
  <2>1. /\ event' \in [Event -> {"absent", "open", "done", "pruned"}]
        /\ target' \in [Event -> Endpoint \cup {NoEndpoint}]
        /\ pinging' \subseteq {x \in Event : target'[x] \in Endpoint}
    BY <1>2 DEF PingEvent
  <2>2. \A x \in Event : Stored(x) => Stored(x)'
    BY <1>2 DEF PingEvent, Stored
  <2>3. \A x \in Endpoint : Exists(x)' = Exists(x)
    BY <1>2 DEF PingEvent, Exists
  <2> QED BY <1>2, <2>1, <2>2, <2>3 DEF PingEvent
<1>3. ASSUME NEW e \in Event, PingDelivery(e) PROVE TypeOK'
  <2>1. target[e] \in Endpoint
    BY <1>3 DEF PingDelivery
  <2> QED BY <1>3, <2>1 DEF PingDelivery, Stored, Exists
<1>4. ASSUME NEW e \in Event, PingLost(e) PROVE TypeOK'
  BY <1>4 DEF PingLost, Stored, Exists
<1>5. ASSUME NEW w \in Endpoint, NEW from, NEW to \in {"active", "inactive"}, SetEndpoint(w, from, to) PROVE TypeOK'
  BY <1>5 DEF SetEndpoint, Exists, Stored
<1>6. ASSUME NEW w \in Endpoint, DeleteEndpoint(w) PROVE TypeOK'
  <2>1. \A d \in Delivery : ledger'[d] = IF d[2] = w THEN NoRow ELSE ledger[d]
    BY <1>6 DEF DeleteEndpoint, Without
  <2>2. ledger' \in [Delivery -> Row]
    BY <1>6 DEF DeleteEndpoint, Without
  <2>3. \A x \in Endpoint : x # w /\ Exists(x) => Exists(x)'
    BY <1>6 DEF DeleteEndpoint, Exists
  <2>4. \A x \in Event : Stored(x)' = Stored(x)
    BY <1>6 DEF DeleteEndpoint, Stored
  <2>5. \A d \in Delivery : ledger'[d].status # "none" => d[2] # w /\ ledger[d].status # "none"
    BY <2>1 DEF NoRow
  <2>6. \A d \in Delivery : ledger'[d].status # "none" => Stored(d[1])' /\ Exists(d[2])'
    BY <2>3, <2>4, <2>5
  <2> QED BY <1>6, <2>2, <2>6 DEF DeleteEndpoint
<1>7. ASSUME NEW alive \in BOOLEAN, SetTenant(alive) PROVE TypeOK'
  BY <1>7 DEF SetTenant, Exists, Stored
<1> QED BY <1>1, <1>2, <1>3, <1>4, <1>5, <1>6, <1>7 DEF Server

LEMMA TypeDispatch == ASSUME TypeOK, NEW n \in Node, Dispatch(n) \/ StartTick(n, "idle") \/ Crash(n)
                      PROVE  TypeOK'
<1> USE ConstAssumption, DeliveryParts, Rows DEF TypeOK, setupVars, histVars, nodeVars, eventVars
<1>1. ASSUME NEW to \in {"fanout", "idle"}, StartTick(n, to) PROVE TypeOK'
  <2>0. PICK old \in SUBSET {e \in Event : Stored(e)} :
          /\ event' = [e \in Event |-> IF e \in old THEN "pruned" ELSE event[e]]
          /\ ledger' = Without([d \in Delivery |-> d[1] \in old])
    BY <1>1 DEF StartTick
  <2>1. \A e \in Event : event'[e] = IF e \in old THEN "pruned" ELSE event[e]
    BY <2>0
  <2>2. \A d \in Delivery : ledger'[d] = IF d[1] \in old THEN NoRow ELSE ledger[d]
    BY <2>0 DEF Without
  <2>3. event' \in [Event -> {"absent", "open", "done", "pruned"}]
    BY <2>0
  <2>4. ledger' \in [Delivery -> Row]
    BY <2>0 DEF Without
  <2>5. \A e \in Event : e \notin old /\ Stored(e) => Stored(e)'
    BY <2>1 DEF Stored
  <2>6. \A d \in Delivery : ledger'[d].status # "none" => d[1] \notin old /\ ledger[d].status # "none"
    BY <2>2 DEF NoRow
  <2>7. \A d \in Delivery : ledger'[d].status # "none" => Stored(d[1])' /\ Exists(d[2])'
    BY <1>1, <2>5, <2>6 DEF StartTick, Exists
  <2>8. pc' \in [Node -> Steps]
    BY <1>1 DEF StartTick, Step, Steps
  <2> QED BY <1>1, <2>3, <2>4, <2>7, <2>8 DEF StartTick
<1>2. CASE Fanout(n)
  BY <1>2 DEF Fanout, Step, Steps, Stored, Exists
<1>3. CASE FanoutInsert(n)
  <2>1. pc' \in [Node -> Steps] /\ plan' \in [Node -> SUBSET Delivery]
    BY <1>3 DEF FanoutInsert, Steps
  <2>2. CASE ledger' = ledger
    BY <1>3, <2>1, <2>2 DEF FanoutInsert, Stored, Exists
  <2>3. CASE \A d \in plan[n] : Stored(d[1]) /\ Exists(d[2])
    <3>1. CASE ledger' = [d \in Delivery |-> IF d \in plan[n] /\ ledger[d].status = "none" THEN Pending ELSE ledger[d]]
      <4>1. ledger' \in [Delivery -> Row]
        BY <3>1
      <4>2. \A d \in Delivery : ledger'[d].status # "none" => d \in plan[n] \/ ledger[d].status # "none"
        BY <3>1
      <4>3. \A d \in Delivery : ledger'[d].status # "none" => Stored(d[1])' /\ Exists(d[2])'
        BY <1>3, <2>3, <4>2 DEF FanoutInsert, Stored, Exists
      <4> QED BY <1>3, <2>1, <4>1, <4>3 DEF FanoutInsert
    <3> QED BY <1>3, <2>2, <3>1 DEF FanoutInsert
  <2> QED BY <1>3, <2>2, <2>3 DEF FanoutInsert
<1>4. ASSUME NEW from, NEW to \in {"claim", "idle"}, Terminalize(n, from, to) PROVE TypeOK'
  <2>1. event' \in [Event -> {"absent", "open", "done", "pruned"}] /\ pc' \in [Node -> Steps]
    BY <1>4 DEF Terminalize, Step, Steps
  <2>2. \A e \in Event : Stored(e)' = Stored(e)
    BY <1>4 DEF Terminalize, Terminal, Stored
  <2> QED BY <1>4, <2>1, <2>2 DEF Terminalize, Exists
<1>5. CASE Claim(n)
  <2>1. PICK S \in SUBSET Due :
          /\ ledger' = [d \in Delivery |-> IF d \in S THEN Leased(ledger[d]) ELSE ledger[d]]
          /\ held' = [held EXCEPT ![n] = {[delivery |-> d, attempts |-> Leased(ledger[d]).attempts] : d \in S}]
          /\ pc' = [pc EXCEPT ![n] = IF S = {} THEN "idle" ELSE "enrich"]
    BY <1>5 DEF Claim
  <2>2. S \subseteq Delivery
    BY DEF Due
  <2>3. \A d \in Delivery : /\ Leased(ledger[d]) \in Row
                            /\ Leased(ledger[d]).status = ledger[d].status
                            /\ Leased(ledger[d]).attempts \in 0..MaxAttempts
    BY LeasedRow DEF Row
  <2>4. ledger' \in [Delivery -> Row] /\ \A d \in Delivery : ledger'[d].status = ledger[d].status
    BY <2>1, <2>3
  <2>5. held' \in [Node -> SUBSET Claimed]
    BY <2>1, <2>2, <2>3 DEF Claimed
  <2>6. pc' \in [Node -> Steps] /\ since' \in [Node -> Nat]
    BY <1>5, <2>1 DEF Claim, Steps
  <2> QED BY <1>5, <2>4, <2>5, <2>6 DEF Claim, Stored, Exists
<1>6. CASE Enrich(n)
  BY <1>6 DEF Enrich, Steps, Stored, Exists
<1>7. ASSUME NEW c \in held[n], NEW ok \in BOOLEAN, Post(n, c, ok) PROVE TypeOK'
  <2>1. c \in Claimed /\ c.delivery \in Delivery /\ [delivery |-> c.delivery, attempts |-> c.attempts, ok |-> ok] \in Outcome
    BY <1>7 DEF Claimed, Outcome
  <2>2. Least(posts[c.delivery] + 1, MaxAttempts) \in 0..MaxAttempts
    BY <2>1 DEF Least
  <2>3. posts' \in [Delivery -> 0..MaxAttempts]
    BY <1>7, <2>1, <2>2 DEF Post
  <2>4. job' \in [Node -> SUBSET Outcome] /\ held' \in [Node -> SUBSET Claimed] /\ acked' \subseteq Delivery
    BY <1>7, <2>1 DEF Post
  <2>5. pc' \in [Node -> Steps]
    BY <1>7 DEF Post, Step, Steps
  <2> QED BY <1>7, <2>3, <2>4, <2>5 DEF Post, Stored, Exists
<1>8. CASE Stamp(n)
  <2>1. PICK j \in job[n] : ledger' = [d \in Delivery |->
          IF d = j.delivery /\ ledger[d].status # "none" THEN Stamped(ledger[d], j) ELSE ledger[d]]
    BY <1>8 DEF Stamp
  <2>2. \A d \in Delivery : Stamped(ledger[d], j) \in Row
    BY StampedRow
  <2>3. ledger' \in [Delivery -> Row] /\ \A d \in Delivery : ledger[d].status = "none" => ledger'[d].status = "none"
    BY <2>1, <2>2
  <2>4. pc' \in [Node -> Steps] /\ job' \in [Node -> SUBSET Outcome]
    BY <1>8 DEF Stamp, Steps
  <2> QED BY <1>8, <2>3, <2>4 DEF Stamp, Stored, Exists
<1>9. CASE Crash(n)
  BY <1>9 DEF Crash, Steps, Stored, Exists
<1> QED BY <1>1, <1>2, <1>3, <1>4, <1>5, <1>6, <1>7, <1>8, <1>9 DEF Dispatch

LEMMA WorkingRows == ASSUME TypeOK PROVE \A n \in Node : Working(n) \subseteq Delivery
BY DEF TypeOK, Working, Claimed, Outcome

\* A tick of the clock leaves every row as it is but for its wait.
LEMMA TickedRow == ASSUME TypeOK, Tick, NEW d \in Delivery
                   PROVE  /\ ledger'[d] \in Row
                          /\ ledger'[d].status = ledger[d].status
                          /\ ledger'[d].attempts = ledger[d].attempts
                          /\ ledger'[d].wait = IF ledger[d].wait > 0 THEN ledger[d].wait - 1 ELSE 0
<1> DEFINE w == IF ledger[d].wait > 0 THEN ledger[d].wait - 1 ELSE 0
<1>1. ledger'[d] = [ledger[d] EXCEPT !.wait = w]
  BY DEF Tick
<1>2. ledger[d] \in Row /\ w \in Nat
  BY DEF TypeOK, Row
<1> HIDE DEF w
<1>3. ledger'[d] \in Row /\ ledger'[d].status = ledger[d].status /\ ledger'[d].attempts = ledger[d].attempts /\ ledger'[d].wait = w
  BY <1>1, <1>2 DEF Row
<1> QED BY <1>3 DEF w

LEMMA TypeTick == ASSUME TypeOK, Tick PROVE TypeOK'
<1> USE ConstAssumption DEF TypeOK, setupVars, histVars, nodeVars, eventVars
<1>1. ledger' \in [Delivery -> Row] /\ \A d \in Delivery : ledger'[d].status = ledger[d].status
  <2>1. \A d \in Delivery : ledger'[d] \in Row /\ ledger'[d].status = ledger[d].status
    BY TickedRow
  <2> QED BY <2>1 DEF Tick
<1>2. outlived' \subseteq Delivery
  <2>1. \A n \in Node : Working(n) \subseteq Delivery
    BY WorkingRows
  <2>2. outlived' = outlived \cup UNION {Working(n) : n \in {m \in Node : since'[m] >= Lease}}
    BY DEF Tick
  <2> QED BY <2>1, <2>2
<1>3. since' \in [Node -> Nat]
  BY DEF Tick
<1> QED BY <1>1, <1>2, <1>3 DEF Tick, Stored, Exists

LEMMA TypeInduction == TypeOK /\ [Next]_vars => TypeOK'
<1> SUFFICES ASSUME TypeOK, [Next]_vars PROVE TypeOK'
  OBVIOUS
<1>1. CASE UNCHANGED vars
  BY <1>1 DEF vars, TypeOK, setupVars, histVars, nodeVars, eventVars, Stored, Exists
<1> QED BY <1>1, TypeServer, TypeDispatch, TypeTick DEF Next

\* Shapes and foreign keys, whatever the times are.
THEOREM TypeCorrect == Spec => []TypeOK
<1> QED BY TypeInit, TypeInduction, PTL DEF Spec

-----------------------------------------------------------------------------
(* The batches of a dispatcher *)

LEMMA BatchesInduction == ASSUME TypeOK, Batches, [Next]_vars PROVE Batches'
<1> USE DEF Batches, Posting
<1>1. CASE UNCHANGED nodeVars
  BY <1>1 DEF nodeVars
<1>2. CASE Server
  BY <1>1, <1>2 DEF Server, Emit, PingEvent, PingDelivery, PingLost, SetEndpoint, DeleteEndpoint, SetTenant
<1>3. CASE Tick
  BY <1>3, ConstAssumption DEF Tick, TypeOK
<1>4. ASSUME NEW n \in Node, Dispatch(n) \/ StartTick(n, "idle") \/ Crash(n) PROVE Batches'
  <2> USE DEF TypeOK
  <2>1. ASSUME NEW to \in {"fanout", "idle"}, StartTick(n, to) PROVE Batches'
    BY <2>1 DEF StartTick, Step
  <2>2. CASE Fanout(n) \/ FanoutInsert(n)
    BY <2>2 DEF Fanout, FanoutInsert, Step
  <2>3. ASSUME NEW from \in {"terminalize", "settle"}, NEW to \in {"claim", "idle"}, Terminalize(n, from, to)
        PROVE  Batches'
    BY <2>3 DEF Terminalize, Step
  <2>4. CASE Claim(n)
    <3>1. PICK S \in SUBSET Due :
            /\ held' = [held EXCEPT ![n] = {[delivery |-> d, attempts |-> Leased(ledger[d]).attempts] : d \in S}]
            /\ pc' = [pc EXCEPT ![n] = IF S = {} THEN "idle" ELSE "enrich"]
      BY <2>4 DEF Claim
    <3>2. held[n] = {} /\ job[n] = {}
      BY <2>4 DEF Claim
    <3>3. job' = job
      BY <2>4 DEF Claim
    <3>4. held'[n] # {} => pc'[n] = "enrich"
      BY <3>1
    <3>5. \A b, c \in held'[n] : b.delivery = c.delivery => b = c
      BY <3>1
    <3> QED BY <3>1, <3>2, <3>3, <3>4, <3>5, ConstAssumption
  <2>5. CASE Enrich(n)
    <3>1. held' = [held EXCEPT ![n] = held'[n]] /\ held'[n] \subseteq held[n]
      BY <2>5 DEF Enrich
    <3>2. held'[n] # {} => pc'[n] = "post"
      BY <2>5 DEF Enrich
    <3>3. pc[n] = "enrich" /\ job[n] = {}
      BY <2>5 DEF Enrich
    <3>4. UNCHANGED job /\ pc' = [pc EXCEPT ![n] = pc'[n]]
      BY <2>5 DEF Enrich
    <3> QED BY <3>1, <3>2, <3>3, <3>4
  <2>6. ASSUME NEW c \in held[n], NEW ok \in BOOLEAN, Post(n, c, ok) PROVE Batches'
    BY <2>6 DEF Post, Step
  <2>7. CASE Stamp(n)
    <3>1. UNCHANGED held /\ job' = [job EXCEPT ![n] = {}]
      BY <2>7 DEF Stamp
    <3>2. pc' = [pc EXCEPT ![n] = IF held[n] = {} THEN "settle" ELSE "post"] /\ pc[n] = "stamp"
      BY <2>7 DEF Stamp
    <3> QED BY <3>1, <3>2
  <2>8. CASE Crash(n)
    BY <2>8 DEF Crash
  <2> QED BY <1>4, <2>1, <2>2, <2>3, <2>4, <2>5, <2>6, <2>7, <2>8 DEF Dispatch
<1> QED BY <1>1, <1>2, <1>3, <1>4 DEF Next, vars

-----------------------------------------------------------------------------
(* Leases, and what they protect *)

\* What a row may go through in a step that works on no row.
Aside(d) == \/ ledger'[d] = ledger[d]
            \/ ledger'[d].status = "none" /\ Gone(d)'
            \/ ledger[d].status = "none" /\ ~Gone(d) /\ ledger'[d] = Pending

\* Such a step disturbs nothing, if dispatchers at most drop rows in it.
LEMMA AsideIsSafe ==
  ASSUME TypeOK, Safe,
         \A n \in Node : /\ held'[n] \subseteq held[n] /\ job'[n] \subseteq job[n]
                         /\ Working(n)' # {} => since'[n] = since[n],
         \A d \in Delivery : (Gone(d) => Gone(d)') /\ Aside(d),
         posts' = posts, acked' = acked, outlived' = outlived
  PROVE  Safe'
<1> USE DEF Safe
<1>1. \A n \in Node : Working(n)' \subseteq Working(n)
  BY DEF Working
<1>2. \A n \in Node : Working(n) \subseteq Delivery
  BY WorkingRows
<1>3. \A n \in Node : \A d \in Working(n) :
        \/ ledger'[d] = ledger[d] /\ (Gone(d) => Gone(d)')
        \/ ledger'[d].status = "none" /\ Gone(d)'
  BY <1>2 DEF Aside, Leases, UnderLease
<1>4. Leases'
  <2> SUFFICES ASSUME NEW n \in Node
               PROVE  /\ \A d \in Working(n)' : UnderLease(n, d)'
                      /\ \A c \in held'[n] \cup job'[n] : Numbered(c)'
    BY DEF Leases
  <2>1. ASSUME NEW d \in Working(n)' PROVE UnderLease(n, d)'
    <3>1. d \in Working(n) /\ UnderLease(n, d) /\ since'[n] = since[n]
      BY <1>1, <2>1 DEF Leases
    <3> QED BY <1>3, <3>1 DEF UnderLease
  <2>2. ASSUME NEW c \in held'[n] \cup job'[n] PROVE Numbered(c)'
    <3>1. c \in held[n] \cup job[n] /\ c.delivery \in Working(n) /\ Numbered(c)
      BY <2>2 DEF Leases, Working
    <3> QED BY <1>3, <3>1 DEF Numbered
  <2> QED BY <2>1, <2>2
<1>5. Posts'
  BY DEF Posts, Aside, Pending
<1>6. Partitioned'
  BY <1>1 DEF Partitioned
<1>7. DeliveredMeansAcked'
  BY DEF DeliveredMeansAcked, Aside, Pending
<1> QED BY <1>4, <1>5, <1>6, <1>7

LEMMA ServerIsAside == ASSUME TypeOK, Server, NEW d \in Delivery
                       PROVE  (Gone(d) => Gone(d)') /\ Aside(d)
<1> USE DeliveryParts DEF TypeOK, Gone, Aside
<1>1. ASSUME NEW e \in Event, Emit(e) PROVE (Gone(d) => Gone(d)') /\ Aside(d)
  BY <1>1 DEF Emit, setupVars
<1>2. ASSUME NEW e \in Event, NEW w \in Endpoint, PingEvent(e, w) PROVE (Gone(d) => Gone(d)') /\ Aside(d)
  BY <1>2 DEF PingEvent, setupVars
<1>3. ASSUME NEW e \in Event, PingDelivery(e) PROVE (Gone(d) => Gone(d)') /\ Aside(d)
  <2>1. UNCHANGED <<event, endpoint>>
    BY <1>3 DEF PingDelivery, setupVars
  <2>2. target[e] \in Endpoint
    BY <1>3 DEF PingDelivery
  <2>3. \/ ledger' = ledger
        \/ /\ ledger' = [ledger EXCEPT ![<<e, target[e]>>] = Pending]
           /\ Stored(e) /\ Exists(target[e]) /\ ledger[<<e, target[e]>>].status = "none"
    BY <1>3 DEF PingDelivery
  <2>4. \/ ledger'[d] = ledger[d]
        \/ ledger[d].status = "none" /\ ledger'[d] = Pending /\ Stored(d[1]) /\ Exists(d[2])
    <3>1. CASE d = <<e, target[e]>>
      <4>1. d[1] = e /\ d[2] = target[e]
        BY <3>1
      <4> QED BY <2>3, <3>1, <4>1
    <3>2. CASE d # <<e, target[e]>>
      BY <2>2, <2>3, <3>2
    <3> QED BY <3>1, <3>2
  <2> QED BY <2>1, <2>4 DEF Stored, Exists
<1>4. ASSUME NEW e \in Event, PingLost(e) PROVE (Gone(d) => Gone(d)') /\ Aside(d)
  BY <1>4 DEF PingLost, setupVars
<1>5. ASSUME NEW w \in Endpoint, NEW from \in {"absent", "active", "inactive"}, NEW to, SetEndpoint(w, from, to)
      PROVE  (Gone(d) => Gone(d)') /\ Aside(d)
  BY <1>5 DEF SetEndpoint, eventVars
<1>6. ASSUME NEW w \in Endpoint, DeleteEndpoint(w) PROVE (Gone(d) => Gone(d)') /\ Aside(d)
  BY <1>6 DEF DeleteEndpoint, eventVars, Without, NoRow
<1>7. ASSUME NEW alive, SetTenant(alive) PROVE (Gone(d) => Gone(d)') /\ Aside(d)
  BY <1>7 DEF SetTenant, eventVars
<1> QED BY <1>1, <1>2, <1>3, <1>4, <1>5, <1>6, <1>7 DEF Server

LEMMA ServerIsSafe == ASSUME TypeOK, Safe, Server PROVE Safe'
<1>1. UNCHANGED <<held, job, since, posts, acked, outlived>>
  BY DEF Server, Emit, PingEvent, PingDelivery, PingLost, SetEndpoint, DeleteEndpoint, SetTenant, nodeVars, histVars
<1> QED BY <1>1, ServerIsAside, AsideIsSafe

LEMMA PreparationIsAside ==
  ASSUME TypeOK, NEW n \in Node, NEW to, NEW from, NEW d \in Delivery,
         StartTick(n, to) \/ Fanout(n) \/ FanoutInsert(n) \/ Terminalize(n, from, to) \/ Enrich(n) \/ Crash(n)
  PROVE  (Gone(d) => Gone(d)') /\ Aside(d)
<1> USE DeliveryParts DEF TypeOK, Gone, Aside
<1>1. CASE StartTick(n, to)
  <2>1. PICK old \in SUBSET {e \in Event : Stored(e)} :
          /\ event' = [e \in Event |-> IF e \in old THEN "pruned" ELSE event[e]]
          /\ ledger' = Without([x \in Delivery |-> x[1] \in old])
    BY <1>1 DEF StartTick
  <2>2. endpoint' = endpoint
    BY <1>1 DEF StartTick, setupVars
  <2>3. ledger'[d] = IF d[1] \in old THEN NoRow ELSE ledger[d]
    BY <2>1 DEF Without
  <2>4. event'[d[1]] = IF d[1] \in old THEN "pruned" ELSE event[d[1]]
    BY <2>1
  <2> QED BY <2>2, <2>3, <2>4 DEF NoRow
<1>2. CASE Fanout(n)
  BY <1>2 DEF Fanout, eventVars, setupVars
<1>3. CASE FanoutInsert(n)
  <2>1. UNCHANGED <<event, endpoint>>
    BY <1>3 DEF FanoutInsert, eventVars, setupVars
  <2>2. \/ ledger'[d] = ledger[d]
        \/ ledger[d].status = "none" /\ ledger'[d] = Pending /\ Stored(d[1]) /\ Exists(d[2])
    BY <1>3 DEF FanoutInsert
  <2> QED BY <2>1, <2>2 DEF Stored, Exists
<1>4. CASE Terminalize(n, from, to)
  BY <1>4 DEF Terminalize, Terminal, setupVars
<1>5. CASE Enrich(n)
  BY <1>5 DEF Enrich, eventVars, setupVars
<1>6. CASE Crash(n)
  BY <1>6 DEF Crash, eventVars, setupVars
<1> QED BY <1>1, <1>2, <1>3, <1>4, <1>5, <1>6

LEMMA PreparationIsSafe ==
  ASSUME TypeOK, Batches, Safe, NEW n \in Node, NEW to, NEW from,
         StartTick(n, to) \/ Fanout(n) \/ FanoutInsert(n) \/ Terminalize(n, from, to) \/ Enrich(n) \/ Crash(n)
  PROVE  Safe'
<1>1. UNCHANGED <<posts, acked, outlived>>
  BY DEF StartTick, Fanout, FanoutInsert, Terminalize, Enrich, Crash, histVars
<1>2. \A m \in Node : held'[m] \subseteq held[m] /\ job'[m] \subseteq job[m]
  BY DEF StartTick, Fanout, FanoutInsert, Terminalize, Enrich, Crash, TypeOK
<1>3. \A m \in Node : Working(m)' # {} => since'[m] = since[m]
  <2> TAKE m \in Node
  <2>1. CASE since' = since
    BY <2>1
  <2>2. CASE Enrich(n)
    <3>1. job'[n] = {}
      BY <2>2 DEF Enrich, Batches
    <3>2. held'[n] = {} \/ since'[n] = since[n]
      BY <2>2 DEF Enrich, TypeOK
    <3>3. m # n => since'[m] = since[m]
      BY <2>2 DEF Enrich, TypeOK
    <3> QED BY <3>1, <3>2, <3>3 DEF Working
  <2>3. CASE Crash(n)
    <3>1. held'[n] = {} /\ job'[n] = {}
      BY <2>3 DEF Crash, TypeOK
    <3>2. m # n => since'[m] = since[m]
      BY <2>3 DEF Crash, TypeOK
    <3> QED BY <3>1, <3>2 DEF Working
  <2> QED BY <2>1, <2>2, <2>3 DEF StartTick, Fanout, FanoutInsert, Terminalize
<1>4. \A d \in Delivery : (Gone(d) => Gone(d)') /\ Aside(d)
  BY PreparationIsAside
<1> QED BY <1>1, <1>2, <1>3, <1>4, AsideIsSafe

\* What a claim does to rows and dispatchers.
LEMMA ClaimMoves ==
  ASSUME TypeOK, Batches, NEW n \in Node, Claim(n)
  PROVE  \E S \in SUBSET Due :
           /\ S \subseteq Delivery
           /\ UNCHANGED <<event, endpoint, posts, acked, outlived, job>>
           /\ held[n] = {} /\ job[n] = {} /\ since'[n] = 0
           /\ \A m \in Node \ {n} : held'[m] = held[m] /\ since'[m] = since[m]
           /\ \A d \in Delivery \ S : ledger'[d] = ledger[d]
           /\ \A d \in S : /\ ledger'[d] \in Row /\ ledger[d].status = "pending" /\ ledger'[d].status = "pending"
                           /\ ledger'[d].wait = Lease /\ ledger'[d].attempts \in 1..MaxAttempts
                           /\ ledger'[d].attempts = Least(ledger[d].attempts + 1, MaxAttempts)
           /\ \A c \in held'[n] : c.delivery \in S /\ c.attempts = ledger'[c.delivery].attempts
           /\ \A d \in S : \E c \in held'[n] : c.delivery = d
<1>1. PICK S \in SUBSET Due :
        /\ ledger' = [d \in Delivery |-> IF d \in S THEN Leased(ledger[d]) ELSE ledger[d]]
        /\ held' = [held EXCEPT ![n] = {[delivery |-> d, attempts |-> Leased(ledger[d]).attempts] : d \in S}]
  BY DEF Claim
<1>2. S \subseteq Delivery
  BY DEF Due
<1>3. UNCHANGED <<event, endpoint, posts, acked, outlived, job>> /\ since' = [since EXCEPT ![n] = 0]
  BY DEF Claim, eventVars, setupVars, histVars
<1>4. held[n] = {} /\ job[n] = {}
  BY DEF Claim, Batches, Posting
<1>5. held'[n] = {[delivery |-> d, attempts |-> Leased(ledger[d]).attempts] : d \in S}
  BY <1>1 DEF TypeOK
<1>6. since'[n] = 0 /\ \A m \in Node \ {n} : held'[m] = held[m] /\ since'[m] = since[m]
  BY <1>1, <1>3 DEF TypeOK
<1>7. \A d \in Delivery \ S : ledger'[d] = ledger[d]
  BY <1>1
<1>8. \A d \in S : ledger'[d] = Leased(ledger[d]) /\ ledger[d] \in Row /\ ledger[d].status = "pending"
  BY <1>1, <1>2 DEF Due, TypeOK
<1>9. \A d \in S : /\ ledger'[d] \in Row /\ ledger'[d].status = "pending" /\ ledger'[d].wait = Lease
                   /\ ledger'[d].attempts \in 1..MaxAttempts
                   /\ ledger'[d].attempts = Least(ledger[d].attempts + 1, MaxAttempts)
  BY <1>8, LeasedRow
<1>10. \A c \in held'[n] : c.delivery \in S /\ c.attempts = ledger'[c.delivery].attempts
  BY <1>5, <1>8
<1>11. \A d \in S : \E c \in held'[n] : c.delivery = d
  <2> TAKE d \in S
  <2> DEFINE c == [delivery |-> d, attempts |-> Leased(ledger[d]).attempts]
  <2>1. c \in held'[n] /\ c.delivery = d
    BY <1>5
  <2> QED BY <2>1
<1> QED BY <1>1, <1>2, <1>3, <1>4, <1>6, <1>7, <1>8, <1>9, <1>10, <1>11

\* A claim takes none of the rows that others work on under their lease: those still
\* have a wait.
LEMMA ClaimIsSafe == ASSUME TypeOK, Batches, Safe, NEW n \in Node, Claim(n) PROVE Safe'
<1> USE ConstAssumption DEF Safe
<1>1. PICK S \in SUBSET Due :
           /\ S \subseteq Delivery
           /\ UNCHANGED <<event, endpoint, posts, acked, outlived, job>>
           /\ held[n] = {} /\ job[n] = {} /\ since'[n] = 0
           /\ \A m \in Node \ {n} : held'[m] = held[m] /\ since'[m] = since[m]
           /\ \A d \in Delivery \ S : ledger'[d] = ledger[d]
           /\ \A d \in S : /\ ledger'[d] \in Row /\ ledger[d].status = "pending" /\ ledger'[d].status = "pending"
                           /\ ledger'[d].wait = Lease /\ ledger'[d].attempts \in 1..MaxAttempts
                           /\ ledger'[d].attempts = Least(ledger[d].attempts + 1, MaxAttempts)
           /\ \A c \in held'[n] : c.delivery \in S /\ c.attempts = ledger'[c.delivery].attempts
           /\ \A d \in S : \E c \in held'[n] : c.delivery = d
  BY ClaimMoves
<1>2. \A m \in Node : Working(m) \subseteq Delivery
  BY WorkingRows
<1>3. \A m \in Node : \A d \in Working(m) \ outlived : d \notin S
  <2> TAKE m \in Node
  <2> TAKE d \in Working(m) \ outlived
  <2>1. since[m] < Lease /\ (ledger[d].status = "pending" => ledger[d].wait + since[m] >= Lease)
    BY DEF Leases, UnderLease
  <2>2. since[m] \in Nat /\ ledger[d] \in Row
    BY <1>2 DEF TypeOK
  <2> QED BY <1>1, <2>1, <2>2 DEF Due, Row
<1>4. \A d \in Delivery : Gone(d)' = Gone(d)
  BY <1>1 DEF Gone
<1>5. \A m \in Node \ {n} : Working(m)' = Working(m)
  BY <1>1 DEF Working
<1>6. Working(n)' \subseteq S /\ job'[n] = {}
  BY <1>1 DEF Working
<1>7. \A d \in Delivery : ledger'[d].status = ledger[d].status /\ ledger[d].attempts <= ledger'[d].attempts
  <2> TAKE d \in Delivery
  <2>1. ledger[d].attempts \in 0..MaxAttempts
    BY DEF TypeOK, Row
  <2>2. CASE d \in S
    BY <1>1, <2>1, <2>2 DEF Least
  <2> QED BY <1>1, <2>1, <2>2
<1>8. Leases'
  <2> SUFFICES ASSUME NEW m \in Node
               PROVE  /\ \A d \in Working(m)' : UnderLease(m, d)'
                      /\ \A c \in held'[m] \cup job'[m] : Numbered(c)'
    BY DEF Leases
  <2>1. CASE m # n
    <3>1. ASSUME NEW d \in Working(m)' PROVE UnderLease(m, d)'
      <4>1. d \in Working(m) /\ d \in Delivery /\ UnderLease(m, d)
        BY <1>2, <1>5, <2>1, <3>1 DEF Leases
      <4>2. d \notin outlived => ledger'[d] = ledger[d]
        BY <1>1, <1>3, <4>1
      <4> QED BY <1>1, <1>4, <1>7, <2>1, <4>1, <4>2 DEF UnderLease
    <3>2. ASSUME NEW c \in held'[m] \cup job'[m] PROVE Numbered(c)'
      <4>1. c \in held[m] \cup job[m] /\ c.delivery \in Delivery /\ Numbered(c)
        BY <1>1, <1>2, <2>1, <3>2 DEF Leases, Working
      <4>2. /\ ledger'[c.delivery].status = ledger[c.delivery].status
            /\ ledger[c.delivery].attempts <= ledger'[c.delivery].attempts
        BY <1>7, <4>1
      <4>3. c.attempts \in 0..MaxAttempts /\ ledger[c.delivery].attempts \in 0..MaxAttempts
        BY <4>1 DEF TypeOK, Claimed, Outcome, Row
      <4>4. ledger'[c.delivery].attempts \in 0..MaxAttempts
        BY <1>1, <4>1, <4>3
      <4> QED BY <4>1, <4>2, <4>3, <4>4 DEF Numbered
    <3> QED BY <3>1, <3>2
  <2>2. CASE m = n
    <3>1. ASSUME NEW d \in Working(n)' PROVE UnderLease(n, d)'
      <4>1. d \in S /\ since'[n] = 0
        BY <1>1, <1>6, <3>1
      <4> QED BY <1>1, <4>1 DEF UnderLease
    <3>2. ASSUME NEW c \in held'[n] \cup job'[n] PROVE Numbered(c)'
      <4>1. c.delivery \in S /\ c.attempts = ledger'[c.delivery].attempts
        BY <1>1, <1>6, <3>2
      <4> QED BY <1>1, <4>1 DEF Numbered
    <3> QED BY <2>2, <3>1, <3>2
  <2> QED BY <2>1, <2>2
<1>9. Posts'
  BY <1>1, <1>4, <1>7 DEF Posts
<1>10. Partitioned'
  <2> SUFFICES ASSUME NEW l \in Node, NEW m \in Node, l # m, NEW d \in Working(l)' \cap Working(m)' PROVE d \in outlived
    BY <1>1 DEF Partitioned
  <2>1. CASE l # n /\ m # n
    BY <1>5, <2>1 DEF Partitioned
  <2>2. CASE l = n
    BY <1>3, <1>5, <1>6, <2>2
  <2>3. CASE m = n
    BY <1>3, <1>5, <1>6, <2>3
  <2> QED BY <2>1, <2>2, <2>3
<1>11. DeliveredMeansAcked'
  BY <1>1, <1>7 DEF DeliveredMeansAcked
<1> QED BY <1>8, <1>9, <1>10, <1>11

\* What a POST does to dispatchers.
LEMMA PostMoves ==
  ASSUME TypeOK, NEW n \in Node, NEW c \in held[n], NEW ok \in BOOLEAN, Post(n, c, ok)
  PROVE  /\ c.delivery \in Delivery /\ c.attempts \in 0..MaxAttempts /\ c.delivery \in Working(n)
         /\ UNCHANGED <<event, endpoint, ledger, since, outlived>>
         /\ acked \subseteq acked'
         /\ held'[n] = held[n] \ {c} /\ \A m \in Node \ {n} : held'[m] = held[m] /\ job'[m] = job[m]
         /\ \A j \in job'[n] : j.delivery = c.delivery /\ j.attempts = c.attempts /\ (j.ok => c.delivery \in acked')
         /\ posts'[c.delivery] \in Nat /\ posts'[c.delivery] <= posts[c.delivery] + 1
         /\ \A d \in Delivery : d # c.delivery => posts'[d] = posts[d]
<1> DEFINE e == c.delivery
           j0 == [delivery |-> e, attempts |-> c.attempts, ok |-> ok]
<1>1. e \in Delivery /\ c.attempts \in 0..MaxAttempts /\ j0.delivery = e /\ j0.attempts = c.attempts /\ j0.ok = ok
  BY DEF TypeOK, Claimed
<1>2. UNCHANGED <<event, endpoint, ledger, since, outlived>>
  BY DEF Post, eventVars, setupVars
<1>3. held' = [held EXCEPT ![n] = held[n] \ {c}] /\ job' = [job EXCEPT ![n] = {j0}]
  BY DEF Post
<1>4. acked \subseteq acked' /\ (ok => e \in acked')
  BY DEF Post
<1>5. posts' = [posts EXCEPT ![e] = Least(posts[e] + 1, MaxAttempts)]
  BY DEF Post
<1>6. held'[n] = held[n] \ {c} /\ job'[n] = {j0}
  BY <1>3 DEF TypeOK
<1>7. \A m \in Node \ {n} : held'[m] = held[m] /\ job'[m] = job[m]
  BY <1>3 DEF TypeOK
<1>8. \A d \in Delivery : d # e => posts'[d] = posts[d]
  BY <1>5 DEF TypeOK
<1>9. posts'[e] \in Nat /\ posts'[e] <= posts[e] + 1
  <2>1. posts[e] \in 0..MaxAttempts /\ posts'[e] = Least(posts[e] + 1, MaxAttempts)
    BY <1>1, <1>5 DEF TypeOK
  <2> QED BY <2>1, ConstAssumption DEF Least
<1>10. c.delivery \in Working(n)
  BY DEF Working
<1> HIDE DEF j0
<1> QED BY <1>1, <1>2, <1>4, <1>6, <1>7, <1>8, <1>9, <1>10

\* A POST is of a row whose claim has counted it.
LEMMA PostIsSafe ==
  ASSUME TypeOK, Batches, Safe, NEW n \in Node, NEW c \in held[n], NEW ok \in BOOLEAN, Post(n, c, ok)
  PROVE  Safe'
<1> USE DEF Safe
<1>1. /\ c.delivery \in Delivery /\ c.attempts \in 0..MaxAttempts /\ c.delivery \in Working(n)
      /\ UNCHANGED <<event, endpoint, ledger, since, outlived>>
      /\ acked \subseteq acked'
      /\ held'[n] = held[n] \ {c} /\ \A m \in Node \ {n} : held'[m] = held[m] /\ job'[m] = job[m]
      /\ \A j \in job'[n] : j.delivery = c.delivery /\ j.attempts = c.attempts /\ (j.ok => c.delivery \in acked')
      /\ \A d \in Delivery : d # c.delivery => posts'[d] = posts[d]
  BY PostMoves
<1>2. \A m \in Node : Working(m)' \subseteq Working(m)
  <2> TAKE m \in Node
  <2>1. CASE m = n
    BY <1>1, <2>1 DEF Working
  <2>2. CASE m # n
    BY <1>1, <2>2 DEF Working
  <2> QED BY <2>1, <2>2
<1>3. \A d \in Delivery : Gone(d)' = Gone(d)
  BY <1>1 DEF Gone
<1>4. \A m \in Node : Working(m) \subseteq Delivery
  BY WorkingRows
<1>5. Leases'
  <2> SUFFICES ASSUME NEW m \in Node
               PROVE  /\ \A d \in Working(m)' : UnderLease(m, d)'
                      /\ \A b \in held'[m] \cup job'[m] : Numbered(b)'
    BY DEF Leases
  <2>1. ASSUME NEW d \in Working(m)' PROVE UnderLease(m, d)'
    <3>1. d \in Delivery /\ UnderLease(m, d)
      BY <1>2, <1>4, <2>1 DEF Leases
    <3> QED BY <1>1, <1>3, <3>1 DEF UnderLease
  <2>2. ASSUME NEW b \in held'[m] \cup job'[m] PROVE Numbered(b)'
    <3>1. PICK a \in held[m] \cup job[m] : a.delivery = b.delivery /\ a.attempts = b.attempts
      <4>1. CASE m # n
        BY <1>1, <2>2, <4>1
      <4>2. CASE m = n /\ b \in held'[n]
        BY <1>1, <4>2
      <4>3. CASE m = n /\ b \in job'[n]
        BY <1>1, <4>3
      <4> QED BY <2>2, <4>1, <4>2, <4>3
    <3>2. Numbered(a)
      BY <3>1 DEF Leases
    <3> QED BY <1>1, <3>1, <3>2 DEF Numbered
  <2> QED BY <2>1, <2>2
<1>6. Posts'
  <2>1. ledger[c.delivery].status = "none" => Gone(c.delivery)
    BY <1>1 DEF Leases, UnderLease
  <2>2. \A m \in Node : \A j \in job'[m] : j.ok => j.delivery \in acked'
    <3> SUFFICES ASSUME NEW m \in Node, NEW j \in job'[m], j.ok PROVE j.delivery \in acked'
      OBVIOUS
    <3>1. CASE m # n
      BY <1>1, <3>1 DEF Posts
    <3>2. CASE m = n
      BY <1>1, <3>2
    <3> QED BY <3>1, <3>2
  <2>3. \A d \in Delivery : posts'[d] > 0 /\ ledger'[d].status = "none" => Gone(d)'
    BY <1>1, <1>3, <2>1 DEF Posts
  <2> QED BY <2>2, <2>3 DEF Posts
<1>7. Partitioned'
  BY <1>1, <1>2 DEF Partitioned
<1>8. DeliveredMeansAcked'
  BY <1>1 DEF DeliveredMeansAcked
<1> QED BY <1>5, <1>6, <1>7, <1>8

\* A stamp hits the row of its own delivery, if it is still there, in whatever state
\* the row is; that is pending, unless the lease was outlived.
LEMMA StampHits ==
  ASSUME TypeOK, Batches, Safe, NEW n \in Node, Stamp(n)
  PROVE  \E j \in job[n] :
           /\ j \in Outcome /\ job[n] = {j} /\ j.delivery \in Working(n) /\ j.attempts > 0
           /\ \A d \in Delivery : d # j.delivery => ledger'[d] = ledger[d]
           /\ ledger[j.delivery].status = "none" => ledger'[j.delivery] = ledger[j.delivery]
           /\ ledger[j.delivery].status # "none" =>
                /\ j.delivery \notin outlived => ledger[j.delivery].status = "pending"
                /\ j.attempts <= ledger[j.delivery].attempts
                /\ ledger'[j.delivery] \in Row /\ ledger'[j.delivery].status # "none"
                /\ ledger'[j.delivery].attempts = ledger[j.delivery].attempts
                /\ ledger'[j.delivery].status = "delivered" => j.ok
                /\ ledger'[j.delivery].status = "dead" => j.attempts >= MaxAttempts
<1>1. PICK j \in job[n] : ledger' = [d \in Delivery |->
        IF d = j.delivery /\ ledger[d].status # "none" THEN Stamped(ledger[d], j) ELSE ledger[d]]
  BY DEF Stamp
<1>2. j \in Outcome /\ j.delivery \in Delivery /\ ledger[j.delivery] \in Row
  BY DEF TypeOK, Outcome
<1>3. job[n] = {j}
  BY DEF Batches
<1>4. j.delivery \in Working(n)
  BY DEF Working
<1>5. UnderLease(n, j.delivery) /\ Numbered(j)
  BY <1>4 DEF Safe, Leases
<1>6. ledger[j.delivery].status # "none" => ledger'[j.delivery] = Stamped(ledger[j.delivery], j)
  BY <1>1, <1>2
<1>7. ledger[j.delivery].status # "none" =>
        /\ ledger'[j.delivery] \in Row /\ ledger'[j.delivery].status # "none"
        /\ ledger'[j.delivery].attempts = ledger[j.delivery].attempts
        /\ ledger'[j.delivery].status = "delivered" => j.ok
        /\ ledger'[j.delivery].status = "dead" => j.attempts >= MaxAttempts
  BY <1>2, <1>6, StampedRow
<1>8. \A d \in Delivery : d # j.delivery => ledger'[d] = ledger[d]
  BY <1>1
<1>9. ledger[j.delivery].status = "none" => ledger'[j.delivery] = ledger[j.delivery]
  BY <1>1, <1>2
<1> QED BY <1>2, <1>3, <1>4, <1>5, <1>7, <1>8, <1>9 DEF UnderLease, Numbered

LEMMA StampIsSafe == ASSUME TypeOK, Batches, Safe, NEW n \in Node, Stamp(n) PROVE Safe'
<1> USE DEF Safe
<1>1. PICK j \in job[n] :
           /\ j \in Outcome /\ job[n] = {j} /\ j.delivery \in Working(n)
           /\ \A d \in Delivery : d # j.delivery => ledger'[d] = ledger[d]
           /\ ledger[j.delivery].status = "none" => ledger'[j.delivery] = ledger[j.delivery]
           /\ ledger[j.delivery].status # "none" =>
                /\ ledger'[j.delivery].status # "none"
                /\ ledger'[j.delivery].attempts = ledger[j.delivery].attempts
                /\ ledger'[j.delivery].status = "delivered" => j.ok
  BY StampHits
<1>2. UNCHANGED <<event, endpoint, posts, acked, outlived, held>> /\ job' = [job EXCEPT ![n] = {}]
  BY DEF Stamp, eventVars, setupVars, histVars
<1>3. job'[n] = {} /\ \A m \in Node \ {n} : job'[m] = job[m] /\ since'[m] = since[m]
  BY <1>2 DEF Stamp, TypeOK
<1>4. held[n] # {} => since'[n] = since[n]
  BY DEF Stamp, TypeOK
<1>5. \A m \in Node : Working(m)' \subseteq Working(m) /\ (Working(m)' # {} => since'[m] = since[m])
  <2> TAKE m \in Node
  <2>1. CASE m = n
    BY <1>2, <1>3, <1>4, <2>1 DEF Working
  <2>2. CASE m # n
    BY <1>2, <1>3, <2>2 DEF Working
  <2> QED BY <2>1, <2>2
<1>6. \A m \in Node : \A d \in Working(m)' : d \in Delivery /\ (d \notin outlived => d # j.delivery)
  <2> SUFFICES ASSUME NEW m \in Node, NEW d \in Working(m)' PROVE d \in Delivery /\ (d \notin outlived => d # j.delivery)
    OBVIOUS
  <2>1. d \in Working(m) /\ d \in Delivery
    BY <1>5, WorkingRows
  <2>2. CASE m # n
    BY <1>1, <2>1, <2>2 DEF Partitioned
  <2>3. CASE m = n
    <3>1. PICK c \in held[n] : d = c.delivery
      BY <1>2, <1>3, <2>3 DEF Working
    <3> QED BY <2>1, <3>1 DEF Batches
  <2> QED BY <2>2, <2>3
<1>7. \A d \in Delivery : Gone(d)' = Gone(d)
  BY <1>2 DEF Gone
<1>8. \A d \in Delivery : (ledger'[d].status = "none" <=> ledger[d].status = "none") /\ ledger'[d].attempts = ledger[d].attempts
  BY <1>1
<1>9. Leases'
  <2> SUFFICES ASSUME NEW m \in Node
               PROVE  /\ \A d \in Working(m)' : UnderLease(m, d)'
                      /\ \A c \in held'[m] \cup job'[m] : Numbered(c)'
    BY DEF Leases
  <2>1. ASSUME NEW d \in Working(m)' PROVE UnderLease(m, d)'
    <3>1. d \in Delivery /\ UnderLease(m, d) /\ since'[m] = since[m]
      BY <1>5, <1>6, <2>1 DEF Leases
    <3>2. d \notin outlived => ledger'[d] = ledger[d]
      BY <1>1, <1>6, <2>1
    <3> QED BY <1>2, <1>7, <1>8, <3>1, <3>2 DEF UnderLease
  <2>2. ASSUME NEW c \in held'[m] \cup job'[m] PROVE Numbered(c)'
    <3>1. c \in held[m] \cup job[m] /\ Numbered(c) /\ c.delivery \in Working(m)'
      BY <1>2, <1>3, <2>2 DEF Leases, Working
    <3>2. c.delivery \in Delivery
      BY <1>6, <3>1
    <3> QED BY <1>8, <3>1, <3>2 DEF Numbered
  <2> QED BY <2>1, <2>2
<1>10. Posts'
  <2>1. \A m \in Node : job'[m] \subseteq job[m]
    BY <1>3
  <2> QED BY <1>2, <1>7, <1>8, <2>1 DEF Posts
<1>11. Partitioned'
  BY <1>2, <1>5 DEF Partitioned
<1>12. DeliveredMeansAcked'
  <2> SUFFICES ASSUME NEW d \in Delivery, ledger'[d].status = "delivered" PROVE d \in acked
    BY <1>2 DEF DeliveredMeansAcked
  <2>1. CASE ledger'[d] = ledger[d]
    BY <2>1 DEF DeliveredMeansAcked
  <2>2. CASE ledger'[d] # ledger[d]
    <3>1. d = j.delivery /\ j.ok
      BY <1>1, <2>2
    <3> QED BY <3>1 DEF Posts
  <2> QED BY <2>1, <2>2
<1> QED BY <1>9, <1>10, <1>11, <1>12

\* Time that ends a lease under a dispatcher puts its rows on record.
LEMMA TickIsSafe == ASSUME TypeOK, Batches, Safe, Tick PROVE Safe'
<1> USE DEF Safe
<1>1. UNCHANGED <<event, endpoint, posts, acked, held, job>> /\ outlived \subseteq outlived'
  BY DEF Tick, setupVars
<1>2. \A d \in Delivery :
        /\ ledger'[d] \in Row
        /\ ledger'[d].status = ledger[d].status
        /\ ledger'[d].attempts = ledger[d].attempts
        /\ ledger'[d].wait = IF ledger[d].wait > 0 THEN ledger[d].wait - 1 ELSE 0
  BY TickedRow
<1>3. \A n \in Node : Working(n)' = Working(n) /\ Working(n) \subseteq Delivery
  BY <1>1, WorkingRows DEF Working
<1>4. \A n \in Node : \A d \in Working(n) :
        since'[n] = since[n] + 1 /\ since[n] \in Nat /\ (d \notin outlived' => since'[n] < Lease)
  <2> TAKE n \in Node
  <2> TAKE d \in Working(n)
  <2>1. Posting(n)
    BY DEF Working, Batches, Posting
  <2>2. since'[n] = since[n] + 1 /\ since[n] \in Nat
    BY <2>1 DEF Tick, TypeOK
  <2>3. since'[n] >= Lease => d \in outlived'
    BY DEF Tick
  <2> QED BY <2>2, <2>3, ConstAssumption
<1>5. Leases'
  <2> SUFFICES ASSUME NEW n \in Node
               PROVE  /\ \A d \in Working(n) : UnderLease(n, d)'
                      /\ \A c \in held[n] \cup job[n] : Numbered(c)'
    BY <1>1, <1>3 DEF Leases
  <2>1. ASSUME NEW d \in Working(n) PROVE UnderLease(n, d)'
    <3>1. UnderLease(n, d) /\ d \in Delivery
      BY <1>3, <2>1 DEF Leases
    <3>2. ledger[d].wait \in Nat
      BY <3>1 DEF TypeOK, Row
    <3>3. Gone(d)' = Gone(d)
      BY <1>1 DEF Gone
    <3>4. /\ ledger'[d].status = ledger[d].status
          /\ ledger'[d].wait = IF ledger[d].wait > 0 THEN ledger[d].wait - 1 ELSE 0
      BY <1>2, <3>1
    <3>5. since'[n] = since[n] + 1 /\ since[n] \in Nat /\ (d \notin outlived' => since'[n] < Lease)
      BY <1>4, <2>1
    <3> QED BY <1>1, <3>1, <3>2, <3>3, <3>4, <3>5, ConstAssumption DEF UnderLease
  <2>2. ASSUME NEW c \in held[n] \cup job[n] PROVE Numbered(c)'
    <3>1. Numbered(c) /\ c.delivery \in Delivery
      BY <1>3, <2>2 DEF Leases, Working
    <3> QED BY <1>2, <3>1 DEF Numbered
  <2> QED BY <2>1, <2>2
<1>6. Posts' /\ DeliveredMeansAcked'
  BY <1>1, <1>2 DEF Posts, DeliveredMeansAcked, Gone
<1>7. Partitioned'
  BY <1>1, <1>3 DEF Partitioned
<1> QED BY <1>5, <1>6, <1>7

LEMMA InvInit == Init => Inv
<1> SUFFICES ASSUME Init PROVE Inv
  OBVIOUS
<1>1. TypeOK
  BY TypeInit
<1>2. \A n \in Node : pc[n] = "idle" /\ held[n] = {} /\ job[n] = {} /\ Working(n) = {}
  BY DEF Init, Working
<1>3. \A d \in Delivery : ledger[d].status = "none" /\ posts[d] = 0
  BY DEF Init, NoRow
<1> QED BY <1>1, <1>2, <1>3 DEF Inv, Safe, Batches, Posting, Leases, Posts, Partitioned, DeliveredMeansAcked

LEMMA InvInduction == ASSUME Inv, [Next]_vars PROVE Inv'
<1> USE DEF Inv
<1>1. TypeOK' /\ Batches'
  BY TypeInduction, BatchesInduction
<1>2. CASE UNCHANGED vars
  <2>1. \A d \in Delivery : (Gone(d) => Gone(d)') /\ Aside(d)
    BY <1>2 DEF vars, eventVars, setupVars, Gone, Aside
  <2>2. UNCHANGED <<held, job, since, posts, acked, outlived>>
    BY <1>2 DEF vars, nodeVars, histVars
  <2> QED BY <1>1, <2>1, <2>2, AsideIsSafe
<1>3. CASE Server
  BY <1>1, <1>3, ServerIsSafe
<1>4. CASE Tick
  BY <1>1, <1>4, TickIsSafe
<1>5. ASSUME NEW n \in Node, Dispatch(n) \/ StartTick(n, "idle") \/ Crash(n) PROVE Safe'
  BY <1>5, PreparationIsSafe, ClaimIsSafe, PostIsSafe, StampIsSafe DEF Dispatch
<1> QED BY <1>1, <1>2, <1>3, <1>4, <1>5 DEF Next

LEMMA Invariance == Spec => []Inv
<1>1. Inv /\ [Next]_vars => Inv'
  BY InvInduction
<1> QED BY <1>1, InvInit, PTL DEF Spec

\* No delivery is in the hands of two dispatchers, however many processes run and
\* whichever of them crash, unless one of them outlived its lease on it.
THEOREM OneDispatcherPerDelivery == Spec => []Partitioned
<1>1. Inv => Partitioned
  BY DEF Inv, Safe
<1> QED BY <1>1, Invariance, PTL

\* A row marked delivered was acknowledged by its receiver, even if two dispatchers
\* stamped it.
THEOREM DeliveredIsTrue == Spec => []DeliveredMeansAcked
<1>1. Inv => DeliveredMeansAcked
  BY DEF Inv, Safe
<1> QED BY <1>1, Invariance, PTL

-----------------------------------------------------------------------------
(* Every POST has been counted *)

\* A row that stays, or that nobody has held before, goes on being counted if no
\* dispatcher takes it and it is not posted.
LEMMA CountedOn ==
  ASSUME IsFiniteSet(Node), Inv, Inv', Counted, posts' = posts,
         \A n \in Node : held'[n] \subseteq held[n],
         \A d \in Delivery : Aside(d) \/ (/\ ledger'[d].status # "none" => ledger[d].status # "none"
                                          /\ ledger'[d].attempts = ledger[d].attempts)
  PROVE  Counted'
<1> SUFFICES ASSUME NEW d \in Delivery, ledger'[d].status # "none", ledger'[d].attempts < MaxAttempts
             PROVE  posts[d] + Cardinality(Holders(d)') <= ledger'[d].attempts
  BY DEF Counted
<1>1. Holders(d)' \subseteq Holders(d) /\ IsFiniteSet(Holders(d))
  <2>1. Holders(d) \subseteq Node
    BY DEF Holders
  <2> QED BY <2>1, FS_Subset DEF Holders
<1>2. /\ Cardinality(Holders(d)') <= Cardinality(Holders(d))
      /\ Cardinality(Holders(d)') \in Nat /\ Cardinality(Holders(d)) \in Nat
  BY <1>1, FS_Subset, FS_CardinalityType
<1>3. posts[d] \in Nat /\ ledger[d].attempts \in Nat
  BY DEF Inv, TypeOK, Row
<1>4. CASE ledger[d].status # "none" /\ ledger'[d].attempts = ledger[d].attempts
  BY <1>2, <1>3, <1>4 DEF Counted
<1>5. CASE ledger[d].status = "none" /\ ~Gone(d) /\ ledger'[d] = Pending
  <2>1. posts[d] = 0
    BY <1>3, <1>5 DEF Inv, Safe, Posts
  <2>2. Holders(d) = {}
    BY <1>5 DEF Inv, Safe, Leases, UnderLease, Holders, Working
  <2>3. Holders(d)' = {} /\ Cardinality(Holders(d)') = 0
    BY <1>1, <2>2, FS_EmptySet
  <2> QED BY <1>5, <2>1, <2>3 DEF Pending
<1> QED BY <1>4, <1>5 DEF Aside

LEMMA ClaimIsCounted ==
  ASSUME IsFiniteSet(Node), Inv, Counted, NEW n \in Node, Claim(n) PROVE Counted'
<1>1. PICK S \in SUBSET Due :
           /\ S \subseteq Delivery /\ posts' = posts
           /\ held[n] = {}
           /\ \A m \in Node \ {n} : held'[m] = held[m]
           /\ \A d \in Delivery \ S : ledger'[d] = ledger[d]
           /\ \A d \in S : /\ ledger[d].status = "pending"
                           /\ ledger'[d].attempts = Least(ledger[d].attempts + 1, MaxAttempts)
           /\ \A c \in held'[n] : c.delivery \in S
  BY ClaimMoves DEF Inv
<1> SUFFICES ASSUME NEW d \in Delivery, ledger'[d].status # "none", ledger'[d].attempts < MaxAttempts
             PROVE  posts[d] + Cardinality(Holders(d)') <= ledger'[d].attempts
  BY <1>1 DEF Counted
<1>2. n \notin Holders(d) /\ IsFiniteSet(Holders(d))
  <2>1. Holders(d) \subseteq Node
    BY DEF Holders
  <2> QED BY <1>1, <2>1, FS_Subset DEF Holders
<1>3. Cardinality(Holders(d)) \in Nat /\ posts[d] \in Nat /\ ledger[d].attempts \in 0..MaxAttempts
  BY <1>2, FS_CardinalityType DEF Inv, TypeOK, Row
<1>4. CASE d \notin S
  <2>1. Holders(d)' = Holders(d)
    BY <1>1, <1>4 DEF Holders
  <2> QED BY <1>1, <1>3, <1>4, <2>1 DEF Counted
<1>5. CASE d \in S
  <2>1. Holders(d)' \subseteq Holders(d) \cup {n}
    BY <1>1 DEF Holders
  <2>2. Cardinality(Holders(d) \cup {n}) = Cardinality(Holders(d)) + 1 /\ IsFiniteSet(Holders(d) \cup {n})
    BY <1>2, FS_AddElement
  <2>3. Cardinality(Holders(d)') <= Cardinality(Holders(d)) + 1 /\ Cardinality(Holders(d)') \in Nat
    BY <2>1, <2>2, FS_Subset, FS_CardinalityType
  <2>4. ledger[d].attempts < MaxAttempts /\ ledger'[d].attempts = ledger[d].attempts + 1
    BY <1>1, <1>3, <1>5, ConstAssumption DEF Least
  <2>5. posts[d] + Cardinality(Holders(d)) <= ledger[d].attempts
    BY <1>1, <1>5, <2>4 DEF Counted
  <2> QED BY <1>3, <2>3, <2>4, <2>5
<1> QED BY <1>4, <1>5

LEMMA PostIsCounted ==
  ASSUME IsFiniteSet(Node), Inv, Counted, NEW n \in Node, NEW c \in held[n], NEW ok \in BOOLEAN, Post(n, c, ok)
  PROVE  Counted'
<1>1. /\ UNCHANGED ledger
      /\ held'[n] = held[n] \ {c} /\ \A m \in Node \ {n} : held'[m] = held[m]
      /\ posts'[c.delivery] \in Nat /\ posts'[c.delivery] <= posts[c.delivery] + 1
      /\ \A d \in Delivery : d # c.delivery => posts'[d] = posts[d]
  BY PostMoves DEF Inv
<1> SUFFICES ASSUME NEW d \in Delivery, ledger[d].status # "none", ledger[d].attempts < MaxAttempts
             PROVE  posts'[d] + Cardinality(Holders(d)') <= ledger[d].attempts
  BY <1>1 DEF Counted
<1>2. IsFiniteSet(Holders(d)) /\ Holders(d)' \subseteq Holders(d)
  <2>1. Holders(d) \subseteq Node
    BY DEF Holders
  <2>2. Holders(d)' \subseteq Holders(d)
    BY <1>1 DEF Holders
  <2> QED BY <2>1, <2>2, FS_Subset
<1>3. /\ Cardinality(Holders(d)) \in Nat /\ Cardinality(Holders(d)') \in Nat
      /\ Cardinality(Holders(d)') <= Cardinality(Holders(d))
  BY <1>2, FS_Subset, FS_CardinalityType
<1>4. posts[d] + Cardinality(Holders(d)) <= ledger[d].attempts
  BY DEF Counted
<1>5. posts[d] \in Nat /\ ledger[d].attempts \in Nat
  BY DEF Inv, TypeOK, Row
<1>6. CASE d # c.delivery
  BY <1>1, <1>3, <1>4, <1>5, <1>6
<1>7. CASE d = c.delivery
  <2>1. n \in Holders(d)
    BY <1>7 DEF Holders
  <2>2. n \notin Holders(d)'
    BY <1>1, <1>7 DEF Holders, Inv, Batches
  <2>3. Holders(d)' \subseteq Holders(d) \ {n}
    BY <1>2, <2>2
  <2>4. Cardinality(Holders(d) \ {n}) = Cardinality(Holders(d)) - 1 /\ IsFiniteSet(Holders(d) \ {n})
    BY <1>2, <2>1, FS_RemoveElement
  <2>5. Cardinality(Holders(d)') <= Cardinality(Holders(d)) - 1
    BY <2>3, <2>4, FS_Subset
  <2> QED BY <1>1, <1>3, <1>4, <1>5, <1>7, <2>5
<1> QED BY <1>6, <1>7

LEMMA CountedInit == Init => Counted
BY DEF Init, Counted, NoRow

LEMMA CountedInduction == ASSUME IsFiniteSet(Node), Inv, Counted, [Next]_vars PROVE Counted'
<1>1. Inv'
  BY InvInduction
<1>2. CASE UNCHANGED vars
  BY <1>2 DEF vars, histVars, nodeVars, Counted, Holders
<1>3. CASE Server
  <2>1. UNCHANGED <<held, posts>>
    BY <1>3 DEF Server, Emit, PingEvent, PingDelivery, PingLost, SetEndpoint, DeleteEndpoint, SetTenant, nodeVars, histVars
  <2>2. \A d \in Delivery : Aside(d)
    BY <1>3, ServerIsAside DEF Inv
  <2> QED BY <1>1, <2>1, <2>2, CountedOn
<1>4. CASE Tick
  <2>1. \A d \in Delivery : ledger'[d].status = ledger[d].status /\ ledger'[d].attempts = ledger[d].attempts
    BY <1>4, TickedRow DEF Inv
  <2>2. UNCHANGED <<held, posts>>
    BY <1>4 DEF Tick
  <2> QED BY <1>1, <2>1, <2>2, CountedOn
<1>5. ASSUME NEW n \in Node, NEW to, NEW from,
             StartTick(n, to) \/ Fanout(n) \/ FanoutInsert(n) \/ Terminalize(n, from, to) \/ Enrich(n) \/ Crash(n)
      PROVE  Counted'
  <2>1. posts' = posts
    BY <1>5 DEF StartTick, Fanout, FanoutInsert, Terminalize, Enrich, Crash, histVars
  <2>2. \A m \in Node : held'[m] \subseteq held[m]
    BY <1>5 DEF StartTick, Fanout, FanoutInsert, Terminalize, Enrich, Crash, Inv, TypeOK
  <2>3. \A d \in Delivery : Aside(d)
    BY <1>5, PreparationIsAside DEF Inv
  <2> QED BY <1>1, <2>1, <2>2, <2>3, CountedOn
<1>6. ASSUME NEW n \in Node, Stamp(n) PROVE Counted'
  <2>1. UNCHANGED <<held, posts>>
    BY <1>6 DEF Stamp, histVars
  <2>2. PICK j \in job[n] :
          /\ \A d \in Delivery : d # j.delivery => ledger'[d] = ledger[d]
          /\ ledger[j.delivery].status = "none" => ledger'[j.delivery] = ledger[j.delivery]
          /\ ledger[j.delivery].status # "none" => ledger'[j.delivery].attempts = ledger[j.delivery].attempts
    BY <1>6, StampHits DEF Inv
  <2>3. \A d \in Delivery : /\ ledger'[d].status # "none" => ledger[d].status # "none"
                            /\ ledger'[d].attempts = ledger[d].attempts
    BY <2>2
  <2> QED BY <1>1, <2>1, <2>3, CountedOn
<1>7. ASSUME NEW n \in Node, Dispatch(n) \/ StartTick(n, "idle") \/ Crash(n) PROVE Counted'
  BY <1>5, <1>6, <1>7, ClaimIsCounted, PostIsCounted DEF Dispatch
<1> QED BY <1>2, <1>3, <1>4, <1>7 DEF Next

\* A delivery is never posted more often than its row's attempts say, for any finite
\* number of processes, however long their batches take.
THEOREM EveryPostCounted == ASSUME IsFiniteSet(Node) PROVE Spec => []PostsCounted
<1>1. Inv /\ Counted => PostsCounted
  <2> SUFFICES ASSUME Inv, Counted, NEW d \in Delivery, ledger[d].status # "none" PROVE posts[d] <= ledger[d].attempts
    BY DEF PostsCounted
  <2>1. posts[d] \in 0..MaxAttempts /\ ledger[d].attempts \in 0..MaxAttempts
    BY DEF Inv, TypeOK, Row
  <2>2. Cardinality(Holders(d)) \in Nat
    <3>1. Holders(d) \subseteq Node
      BY DEF Holders
    <3> QED BY <3>1, FS_Subset, FS_CardinalityType
  <2>3. CASE ledger[d].attempts < MaxAttempts
    BY <2>1, <2>2, <2>3 DEF Counted
  <2>4. CASE ledger[d].attempts = MaxAttempts
    BY <2>1, <2>4
  <2> QED BY <2>1, <2>3, <2>4, ConstAssumption
<1>2. Inv /\ Inv' /\ Counted /\ [Next]_vars => Counted'
  BY CountedInduction
<1> QED BY <1>1, <1>2, CountedInit, Invariance, PTL DEF Spec

-----------------------------------------------------------------------------
(* The ledger that readers see *)

LEMMA ReadLedger == ASSUME NEW d \in Delivery
                    PROVE  /\ Phase[d] = IF Gone(d) THEN "gone" ELSE ledger[d].status
                           /\ Tries[d] = ledger[d].attempts
                           /\ Phase'[d] = IF Gone(d)' THEN "gone" ELSE ledger'[d].status
                           /\ Tries'[d] = ledger'[d].attempts
BY DEF Phase, Tries, Gone

Kept(d) == \/ Ledger!Queue(d) \/ Ledger!Try(d) \/ Ledger!Deliver(d)
           \/ Ledger!GiveUp(d) \/ Ledger!Remove(d) \/ Ledger!Rest(d) \/ Ledger!Revise(d)

\* It is enough to look at rows that the step leaves in being.
LEMMA KeptCases ==
  ASSUME NEW d \in Delivery, Gone(d) => Gone(d)',
         ~Gone(d)' => \/ Aside(d)
                      \/ /\ ledger[d].status = "pending" /\ ledger'[d].status = "pending"
                         /\ ledger'[d].attempts \in {ledger[d].attempts, ledger[d].attempts + 1}
                      \/ /\ ledger[d].status = "pending" /\ ledger'[d].attempts = ledger[d].attempts
                         /\ \/ ledger'[d].status = "delivered" /\ ledger[d].attempts > 0
                            \/ ledger'[d].status = "dead" /\ ledger[d].attempts >= MaxAttempts
                      \/ ledger'[d].status = ledger[d].status /\ ledger'[d].attempts = ledger[d].attempts
                      \/ /\ d \in outlived /\ ledger[d].attempts > 0 /\ ledger'[d].attempts = ledger[d].attempts
                         /\ {ledger[d].status, ledger'[d].status} \subseteq {"pending", "delivered", "dead"}
                         /\ ledger'[d].status = "dead" => ledger[d].attempts >= MaxAttempts
  PROVE  Kept(d)
<1> USE ReadLedger DEF Kept, Ledger!Queue, Ledger!Try, Ledger!Deliver, Ledger!GiveUp, Ledger!Remove, Ledger!Rest, Ledger!Revise
<1>1. CASE Gone(d)'
  BY <1>1
<1>2. CASE ~Gone(d)'
  BY <1>2 DEF Aside, Pending
<1> QED BY <1>1, <1>2

LEMMA LedgerStep == ASSUME Inv, Next, NEW d \in Delivery PROVE Kept(d)
<1> USE ConstAssumption DEF Inv
<1>1. CASE Server
  BY <1>1, ServerIsAside, KeptCases
<1>2. CASE Tick
  BY <1>2, TickedRow, KeptCases DEF Tick, setupVars, Gone
<1>3. ASSUME NEW n \in Node, Dispatch(n) \/ StartTick(n, "idle") \/ Crash(n) PROVE Kept(d)
  <2>1. ASSUME NEW from, NEW to, StartTick(n, to) \/ Fanout(n) \/ FanoutInsert(n) \/ Terminalize(n, from, to)
                                 \/ Enrich(n) \/ Crash(n)
        PROVE  Kept(d)
    BY <2>1, PreparationIsAside, KeptCases
  <2>2. CASE Claim(n)
    <3>1. UNCHANGED <<event, endpoint>>
      BY <2>2 DEF Claim, eventVars, setupVars
    <3>2. PICK S \in SUBSET Due : ledger' = [x \in Delivery |-> IF x \in S THEN Leased(ledger[x]) ELSE ledger[x]]
      BY <2>2 DEF Claim
    <3>3. ledger[d] \in Row
      BY DEF TypeOK
    <3>4. Least(ledger[d].attempts + 1, MaxAttempts) \in {ledger[d].attempts, ledger[d].attempts + 1}
      BY <3>3 DEF Least, Row
    <3>5. CASE d \in S
      BY <3>1, <3>2, <3>3, <3>4, <3>5, LeasedRow, KeptCases DEF Due, Gone
    <3>6. CASE d \notin S
      BY <3>1, <3>2, <3>6, KeptCases DEF Gone, Aside
    <3> QED BY <3>5, <3>6
  <2>3. ASSUME NEW c \in held[n], NEW ok \in BOOLEAN, Post(n, c, ok) PROVE Kept(d)
    <3>1. UNCHANGED <<event, endpoint, ledger>>
      BY <2>3 DEF Post, eventVars, setupVars
    <3> QED BY <3>1, KeptCases DEF Gone, Aside
  <2>4. CASE Stamp(n)
    <3>1. PICK j \in job[n] :
           /\ j \in Outcome /\ j.attempts > 0
           /\ \A x \in Delivery : x # j.delivery => ledger'[x] = ledger[x]
           /\ ledger[j.delivery].status = "none" => ledger'[j.delivery] = ledger[j.delivery]
           /\ ledger[j.delivery].status # "none" =>
                /\ j.delivery \notin outlived => ledger[j.delivery].status = "pending"
                /\ j.attempts <= ledger[j.delivery].attempts
                /\ ledger'[j.delivery] \in Row /\ ledger'[j.delivery].status # "none"
                /\ ledger'[j.delivery].attempts = ledger[j.delivery].attempts
                /\ ledger'[j.delivery].status = "dead" => j.attempts >= MaxAttempts
      BY <2>4, StampHits
    <3>2. UNCHANGED <<event, endpoint>>
      BY <2>4 DEF Stamp, eventVars, setupVars
    <3>3. CASE ledger'[d] = ledger[d]
      BY <3>2, <3>3, KeptCases DEF Gone, Aside
    <3>4. CASE d = j.delivery /\ ledger[d].status # "none"
      <4>1. ledger[d].attempts \in Nat /\ j.attempts \in Nat /\ MaxAttempts \in Nat
        BY DEF TypeOK, Row, Outcome
      <4>2. ledger[d].attempts > 0 /\ (ledger'[d].status = "dead" => ledger[d].attempts >= MaxAttempts)
        BY <3>1, <3>4, <4>1
      <4>3. /\ {ledger[d].status, ledger'[d].status} \subseteq {"pending", "delivered", "dead"}
            /\ ledger'[d].attempts = ledger[d].attempts
        BY <3>1, <3>4 DEF TypeOK, Row
      <4>4. d \notin outlived => ledger[d].status = "pending"
        BY <3>1, <3>4
      <4> QED BY <3>2, <4>2, <4>3, <4>4, KeptCases DEF Gone
    <3> QED BY <3>1, <3>3, <3>4
  <2> QED BY <1>3, <2>1, <2>2, <2>3, <2>4 DEF Dispatch
<1> QED BY <1>1, <1>2, <1>3 DEF Next

\* A row whose lease is outlived is pending then, or removed.
LEMMA LateStep ==
  ASSUME Inv, Next
  PROVE  outlived \subseteq outlived' /\ \A d \in outlived' \ outlived : d \in Delivery /\ Phase[d] \in {"pending", "gone"}
<1>1. CASE Tick
  <2>1. outlived \subseteq outlived'
    BY <1>1 DEF Tick
  <2>2. ASSUME NEW d \in outlived' \ outlived PROVE d \in Delivery /\ Phase[d] \in {"pending", "gone"}
    <3>1. PICK n \in Node : d \in Working(n)
      BY <1>1, <2>2 DEF Tick
    <3>2. d \in Delivery
      BY <3>1, WorkingRows DEF Inv
    <3>3. ledger[d].status \in {"none", "pending"} /\ (ledger[d].status = "none" => Gone(d))
      BY <2>2, <3>1 DEF Inv, Safe, Leases, UnderLease
    <3> QED BY <3>2, <3>3, ReadLedger
  <2> QED BY <2>1, <2>2
<1>2. CASE Server
  BY <1>2 DEF Server, Emit, PingEvent, PingDelivery, PingLost, SetEndpoint, DeleteEndpoint, SetTenant, histVars
<1>3. ASSUME NEW n \in Node, Dispatch(n) \/ StartTick(n, "idle") \/ Crash(n) PROVE outlived' = outlived
  BY <1>3 DEF Dispatch, StartTick, Fanout, FanoutInsert, Terminalize, Claim, Enrich, Post, Stamp, Crash, histVars
<1> QED BY <1>1, <1>2, <1>3 DEF Next

\* Behind leases, batches, retries, crashes and removals, each row of
\* webhook_deliveries goes the way that DeliveryLedger promises.
THEOREM ImplementsLedger == Spec => LedgerSpec
<1>1. Init => Ledger!Init
  BY DEF Init, Ledger!Init, Phase, Tries, NoRow, Delivery
<1>2. Inv /\ [Next]_vars => [Ledger!Next]_<<Phase, Tries, outlived>>
  <2>1. CASE UNCHANGED vars
    BY <2>1 DEF vars, eventVars, setupVars, histVars, Phase, Tries
  <2>2. ASSUME Inv, Next PROVE Ledger!Next
    BY <2>2, LedgerStep, LateStep DEF Ledger!Next, Kept
  <2> QED BY <2>1, <2>2
<1> QED BY <1>1, <1>2, Invariance, PTL DEF Spec, LedgerSpec, Ledger!Spec

-----------------------------------------------------------------------------
(* Lifecycle, as MCWebhookOutbox hosts it *)

HookedOwners == {"ready", "sweep", "tick", "anchor", "users", "auth"}
Owners == {"ready", "sweep", "tick", "anchor", "users", "auth", "plugins", "module"}

Places == {"idle", "users", "waiting", "auth", "ready", "module", "on_users", "on_auth", "on_ready", "on_module"}

LifeShapes ==
  /\ phase \in {"boot", "up", "draining", "closing", "hooks", "gone"} /\ code \in 0..1
  /\ open \in [Owners -> Nat] /\ ref \in SUBSET Owners /\ late \in SUBSET Owners
  /\ memo \in {"none", "pending", "kept"} /\ making \in 0..Making
  /\ at \in [Node -> Places]
  /\ hungUp \in SUBSET Node
  /\ sweep \in {"idle", "audit", "between", "sessions"}
  /\ tick \in {"idle", "claimed", "posted"} /\ anchor \in {"idle", "fold", "export"}
  /\ stopped \in SUBSET {"sweep", "tick", "anchor"} /\ hook \in 1..7

\* The hook of a part has run.
Ended(o) ==
  \/ (o = "ready" /\ hook > 1) \/ (o = "sweep" /\ hook > 2) \/ (o = "tick" /\ hook > 3)
  \/ (o = "anchor" /\ hook > 4) \/ (o = "users" /\ hook > 5) \/ (o = "auth" /\ hook > 6)

\* A part holds the pool it has open; managers may have opened one that is forgotten.  The
\* plugins keep theirs.
HeldPools ==
  /\ "plugins" \in ref
  /\ \A o \in Owners \ {"users"} : open[o] = IF o \in ref THEN 1 ELSE 0
  /\ "users" \in ref => open["users"] >= 1
  /\ "users" \notin late => open["users"] = IF "users" \in ref THEN 1 ELSE 0

\* What a part whose hook has run has open was opened too late for it.
EndedPools == \A o \in Owners : Ended(o) /\ open[o] > 0 => o \in late

\* The memo stands for one manager, made or in the making; the reset forgets at most one.
OneManager ==
  /\ hook <= 5 => open["users"] + making = IF memo = "none" THEN 0 ELSE 1
  /\ hook > 5 => open["users"] + making <= IF memo = "none" THEN 1 ELSE 2
  /\ memo = "pending" => making > 0
  /\ \A c \in Node : at[c] = "waiting" => making > 0

HooksInOrder ==
  /\ hook > 1 => phase \in {"hooks", "gone"}
  /\ phase = "gone" /\ code = 0 => hook > 6

\* A tick holds its pool, and the hook that ends the pool waits for it.
TicksEnd ==
  /\ tick # "idle" => "tick" \in ref
  /\ Ended("tick") => tick = "idle" /\ "tick" \in stopped

LifeInv == LifeShapes /\ HeldPools /\ EndedPools /\ OneManager /\ HooksInOrder /\ TicksEnd

LEMMA HookFacts ==
  /\ Len(Process!Hooks) = 6 /\ Process!Owner = Owners /\ Process!Hooked = HookedOwners
  /\ Process!Worker = {"sweep", "tick", "anchor"}
  /\ Process!Hooks[1] = "ready" /\ Process!Hooks[2] = "sweep" /\ Process!Hooks[3] = "tick"
  /\ Process!Hooks[4] = "anchor" /\ Process!Hooks[5] = "users" /\ Process!Hooks[6] = "auth"
<1>1. /\ Len(Process!Hooks) = 6
      /\ Process!Hooks[1] = "ready" /\ Process!Hooks[2] = "sweep" /\ Process!Hooks[3] = "tick"
      /\ Process!Hooks[4] = "anchor" /\ Process!Hooks[5] = "users" /\ Process!Hooks[6] = "auth"
  BY DEF Process!Hooks
<1>2. Process!Hooked = {Process!Hooks[i] : i \in 1..6}
  BY <1>1 DEF Process!Hooked
<1>3. 1..6 = {1, 2, 3, 4, 5, 6}
  OBVIOUS
<1>4. Process!Hooked = HookedOwners
  BY <1>1, <1>2, <1>3 DEF HookedOwners
<1>5. Process!Owner = Owners
  BY <1>4 DEF Process!Owner, Process!Unhooked, HookedOwners, Owners
<1> QED
  BY <1>1, <1>4, <1>5 DEF Process!Worker

LEMMA LifeImplies == LifeInv => PoolsServeTheWork
<1> SUFFICES ASSUME LifeInv PROVE PoolsServeTheWork
  OBVIOUS
<1>1. \A o \in Owners : open[o] \in Nat
  BY DEF LifeInv, LifeShapes
<1>2. open["users"] <= 2
  <2>1. making \in Nat /\ hook \in 1..7 /\ open["users"] \in Nat
    BY <1>1, LifecycleAssumption DEF LifeInv, LifeShapes, Owners
  <2>2. open["users"] + making <= 2
    BY <2>1 DEF LifeInv, OneManager
  <2> QED
    BY <2>1, <2>2
<1>3. \A o \in Owners : open[o] \in 0..Making
  BY <1>1, <1>2, LifecycleAssumption DEF LifeInv, HeldPools
<1>4. Process!TypeOK
  <2>1. open \in [Owners -> 0..Making]
    BY <1>3 DEF LifeInv, LifeShapes
  <2> QED
    BY <2>1, HookFacts DEF LifeInv, LifeShapes, Places, Process!TypeOK
<1>5. Process!OnePoolEach
  BY <1>1, HookFacts DEF LifeInv, HeldPools, Process!OnePoolEach
<1>6. Process!NoFailureIsKept
  BY DEF LifeInv, OneManager, Process!NoFailureIsKept
<1>7. Process!OutcomesLand
  BY DEF LifeInv, HeldPools, HooksInOrder, TicksEnd, Ended, LifeShapes, Owners, Process!OutcomesLand
<1>8. Process!ExitLeavesUnhooked
  <2>1. open["plugins"] > 0
    BY DEF LifeInv, HeldPools, Owners
  <2>2. ASSUME phase = "gone", code = 0, NEW o \in HookedOwners, open[o] > 0 PROVE o \in late
    <3>1. Ended(o)
      BY <2>2 DEF LifeInv, LifeShapes, HooksInOrder, Ended, HookedOwners
    <3> QED
      BY <2>2, <3>1 DEF LifeInv, EndedPools, HookedOwners, Owners
  <2> QED
    BY <2>1, <2>2, HookFacts DEF Process!ExitLeavesUnhooked
<1> QED
  BY <1>4, <1>5, <1>6, <1>7, <1>8 DEF PoolsServeTheWork, Process!PoolsServeTheWork

LEMMA LifeInit == Process!Init => LifeInv
<1> SUFFICES ASSUME Process!Init PROVE LifeInv
  OBVIOUS
<1> USE HookFacts, LifecycleAssumption DEF Process!Init
<1>1. \A o \in Owners : open[o] = IF o = "plugins" THEN 1 ELSE 0
  OBVIOUS
<1>2. LifeShapes
  BY DEF LifeShapes, Places, Owners
<1>3. HeldPools
  <2>1. "users" \in Owners /\ "users" # "plugins"
    BY DEF Owners
  <2> QED
    BY <1>1, <2>1 DEF HeldPools
<1>4. EndedPools
  BY DEF EndedPools, Ended
<1>5. OneManager /\ HooksInOrder /\ TicksEnd
  BY <1>1 DEF OneManager, HooksInOrder, TicksEnd, Ended, Owners
<1> QED
  BY <1>2, <1>3, <1>4, <1>5 DEF LifeInv

\* What parts other than the managers do to the pools.
PoolsMove ==
  /\ open' \in [Owners -> Nat] /\ ref' \in SUBSET Owners /\ late' \in SUBSET Owners
  /\ HeldPools' /\ EndedPools'
  /\ open'["users"] = open["users"] /\ ref \subseteq ref'

LEMMA SamePools == ASSUME LifeInv, UNCHANGED Process!pools, hook' = hook PROVE PoolsMove
BY DEF LifeInv, LifeShapes, HeldPools, EndedPools, Ended, PoolsMove, Process!pools

LEMMA Holds ==
  ASSUME LifeInv, Process!Alive, NEW o \in Owners \ {"users"}, Process!Hold(o), UNCHANGED <<phase, hook>>
  PROVE  PoolsMove /\ o \in ref'
<1>1. CASE o \in ref
  BY <1>1, SamePools DEF Process!Hold, Process!pools
<1>2. CASE o \notin ref
  <2>1. /\ open' = [open EXCEPT ![o] = open[o] + 1] /\ ref' = ref \cup {o}
        /\ late' = IF phase = "hooks" THEN late \cup {o} ELSE late
    BY <1>2 DEF Process!Hold
  <2>2. open \in [Owners -> Nat] /\ ref \in SUBSET Owners /\ late \in SUBSET Owners /\ open[o] = 0
    BY <1>2 DEF LifeInv, LifeShapes, HeldPools
  <2>3. open'[o] = 1 /\ \A x \in Owners : x # o => open'[x] = open[x]
    BY <2>1, <2>2
  <2>4. HeldPools'
    BY <2>1, <2>3 DEF LifeInv, HeldPools, Owners
  <2>5. Ended(o) => phase = "hooks"
    BY DEF LifeInv, LifeShapes, HooksInOrder, Ended, Process!Alive
  <2>6. EndedPools'
    BY <2>1, <2>3, <2>5 DEF LifeInv, EndedPools, Ended
  <2>7. open' \in [Owners -> Nat] /\ ref' \in SUBSET Owners /\ late' \in SUBSET Owners
    BY <2>1, <2>2
  <2>8. open'["users"] = open["users"]
    BY <2>3 DEF Owners
  <2> QED
    BY <2>1, <2>4, <2>6, <2>7, <2>8 DEF PoolsMove
<1> QED
  BY <1>1, <1>2

\* Requests and workers.
LEMMA WorkGoesOn ==
  ASSUME LifeInv, PoolsMove, LifeShapes', UNCHANGED <<phase, code, memo, making, stopped, hook>>,
         \A c \in Node : at'[c] = "waiting" => at[c] = "waiting",
         tick' # "idle" => tick # "idle" \/ ("tick" \in ref' /\ "tick" \notin stopped)
  PROVE  LifeInv'
<1>1. OneManager' /\ HooksInOrder'
  BY DEF LifeInv, OneManager, HooksInOrder, PoolsMove
<1>2. TicksEnd'
  BY DEF LifeInv, TicksEnd, PoolsMove, Ended
<1> QED
  BY <1>1, <1>2 DEF LifeInv, PoolsMove

LEMMA RequestsGoOn ==
  ASSUME LifeInv, NEW c \in Node,
         \/ Process!Alive /\ (Process!AskPool(c) \/ Process!Answer(c))
         \/ Process!HangUp(c)
         \/ \E what \in {"users", "auth", "ready", "module"} : Process!Arrive(c, what)
  PROVE  LifeInv'
<1>1. LifeShapes
  BY DEF LifeInv
<1>2. UNCHANGED <<phase, code, memo, making, sweep, tick, anchor, stopped, hook>>
  BY DEF Process!AskPool, Process!Answer, Process!HangUp, Process!Arrive, Process!server, Process!managers,
         Process!workers, Process!chain
<1>3. PoolsMove
  <2>1. CASE UNCHANGED Process!pools
    BY <1>2, <2>1, SamePools
  <2>2. CASE Process!Alive /\ Process!AskPool(c)
    <3>1. at[c] \in Owners \ {"users"} /\ Process!Hold(at[c])
      BY <2>2 DEF Process!AskPool, Owners
    <3> QED
      BY <1>2, <2>2, <3>1, Holds
  <2> QED
    BY <2>1, <2>2 DEF Process!Answer, Process!HangUp, Process!Arrive
<1>4. /\ at' \in [Node -> Places]
      /\ hungUp' \in SUBSET Node /\ \A d \in Node : at'[d] = "waiting" => at[d] = "waiting"
  BY <1>1 DEF LifeShapes, Places, Process!AskPool, Process!Answer, Process!HangUp, Process!Arrive
<1>5. LifeShapes'
  BY <1>1, <1>2, <1>3, <1>4 DEF LifeShapes, PoolsMove
<1> QED
  BY <1>2, <1>3, <1>4, <1>5, WorkGoesOn

LEMMA WorkersGoOn ==
  ASSUME LifeInv, Process!Sweep \/ Process!StartTick \/ Process!Dispatch \/ Process!Anchor
  PROVE  LifeInv'
<1>1. LifeShapes
  BY DEF LifeInv
<1>2. UNCHANGED <<phase, code, memo, making, at, hungUp, stopped, hook>> /\ Process!Alive
  BY DEF Process!Sweep, Process!StartTick, Process!Dispatch, Process!Anchor, Process!server, Process!managers,
         Process!requests, Process!chain
<1>3. PoolsMove /\ (Process!StartTick => "tick" \in ref')
  <2>1. {"sweep", "tick", "anchor"} \subseteq Owners \ {"users"}
    BY DEF Owners
  <2>2. CASE Process!StartTick
    BY <1>2, <2>1, <2>2, Holds DEF Process!StartTick
  <2>3. CASE ~Process!StartTick
    <3>1. \/ UNCHANGED Process!pools \/ Process!Hold("sweep") \/ Process!Hold("anchor")
      BY <2>3 DEF Process!Sweep, Process!Dispatch, Process!Anchor
    <3> QED
      BY <1>2, <2>1, <2>3, <3>1, SamePools, Holds
  <2> QED
    BY <2>2, <2>3
<1>4. /\ sweep' \in {"idle", "audit", "between", "sessions"}
      /\ tick' \in {"idle", "claimed", "posted"} /\ anchor' \in {"idle", "fold", "export"}
  BY <1>1 DEF LifeShapes, Process!Sweep, Process!StartTick, Process!Dispatch, Process!Anchor
<1>5. tick' # "idle" => tick # "idle" \/ (Process!StartTick /\ "tick" \notin stopped)
  BY DEF Process!Sweep, Process!StartTick, Process!Dispatch, Process!Anchor
<1>6. LifeShapes'
  BY <1>1, <1>2, <1>3, <1>4 DEF LifeShapes, PoolsMove
<1> QED
  BY <1>2, <1>3, <1>5, <1>6, WorkGoesOn

LEMMA AskManagerKeeps ==
  ASSUME LifeInv, NEW c \in Node, Process!AskManager(c)
  PROVE  LifeInv'
<1>1. LifeShapes /\ making \in Nat /\ hook \in 1..7 /\ open["users"] \in Nat
  BY LifecycleAssumption DEF LifeInv, LifeShapes, Owners
<1>2. UNCHANGED <<phase, code, open, ref, late, hungUp, sweep, tick, anchor, stopped, hook>>
  BY DEF Process!AskManager, Process!server, Process!pools, Process!workers, Process!chain
<1>3. \/ /\ memo = "kept" /\ at' = [at EXCEPT ![c] = "on_users"] /\ UNCHANGED <<memo, making>>
      \/ /\ memo = "pending" /\ at' = [at EXCEPT ![c] = "waiting"] /\ UNCHANGED <<memo, making>>
      \/ /\ memo = "none" /\ making < Making /\ making' = making + 1 /\ memo' = "pending"
         /\ at' = [at EXCEPT ![c] = "waiting"]
  BY <1>1 DEF LifeShapes, Process!AskManager, Process!managers
<1>4. /\ at' \in [Node -> Places]
      /\ \A d \in Node : at'[d] = "waiting" => at[d] = "waiting" \/ memo' = "pending"
  BY <1>1, <1>3 DEF LifeShapes, Places
<1>5. memo' \in {"none", "pending", "kept"} /\ making' \in 0..Making
  BY <1>1, <1>3, LifecycleAssumption DEF LifeShapes
<1>6. LifeShapes'
  BY <1>1, <1>2, <1>4, <1>5 DEF LifeShapes
<1>7. memo' = "pending" => making' > 0
  BY <1>1, <1>3 DEF LifeInv, OneManager
<1>8. OneManager'
  <2>1. /\ hook <= 5 => open["users"] + making' = IF memo' = "none" THEN 0 ELSE 1
        /\ hook > 5 => open["users"] + making' <= IF memo' = "none" THEN 1 ELSE 2
    BY <1>1, <1>3 DEF LifeInv, OneManager
  <2>2. \A d \in Node : at'[d] = "waiting" => making' > 0
    BY <1>1, <1>3, <1>4, <1>7 DEF LifeInv, OneManager
  <2> QED
    BY <1>2, <1>7, <2>1, <2>2 DEF OneManager
<1>9. HeldPools' /\ EndedPools'
  BY <1>2 DEF LifeInv, HeldPools, EndedPools, Ended
<1>10. HooksInOrder' /\ TicksEnd'
  BY <1>2 DEF LifeInv, HooksInOrder, TicksEnd, Ended
<1> QED
  BY <1>6, <1>8, <1>9, <1>10 DEF LifeInv

LEMMA BuildKeeps ==
  ASSUME LifeInv, Process!Build
  PROVE  LifeInv'
<1>1. LifeShapes /\ making \in Nat /\ hook \in 1..7 /\ open["users"] \in Nat
  BY LifecycleAssumption DEF LifeInv, LifeShapes, Owners
<1>2. /\ UNCHANGED <<phase, code, sweep, tick, anchor, stopped, hook>> /\ phase # "gone"
      /\ making > 0 /\ making' = making - 1
  BY DEF Process!Build, Process!Made, Process!NotMade, Process!Alive, Process!server, Process!workers, Process!chain
<1>3. PICK next \in {"on_users", "idle"} : at' = [c \in Node |-> IF at[c] = "waiting" THEN next ELSE at[c]]
  BY DEF Process!Build, Process!Made, Process!NotMade, Process!Waiting
<1>4. /\ at' \in [Node -> Places]
      /\ \A d \in Node : at'[d] # "waiting"
  BY <1>1, <1>3 DEF LifeShapes, Places
<1>5. making' \in 0..Making /\ HooksInOrder'
  BY <1>1, <1>2, LifecycleAssumption DEF LifeInv, LifeShapes, HooksInOrder
<1>6. CASE Process!Made
  <2>1. /\ memo' = IF memo = "pending" THEN "kept" ELSE memo
        /\ open' = [open EXCEPT !["users"] = open["users"] + 1]
        /\ ref' = ref \cup {"users"}
        /\ late' = IF phase = "hooks" THEN late \cup {"users"} ELSE late
        /\ hungUp' = hungUp
    BY <1>6 DEF Process!Made
  <2>2. open'["users"] = open["users"] + 1 /\ \A o \in Owners : o # "users" => open'[o] = open[o]
    BY <1>1, <2>1 DEF LifeShapes, Owners
  <2>3. LifeShapes'
    BY <1>1, <1>2, <1>4, <1>5, <2>1 DEF LifeShapes, Owners
  <2>4. OneManager'
    BY <1>1, <1>2, <1>4, <2>1, <2>2 DEF LifeInv, LifeShapes, OneManager
  <2>5. "users" \notin late' => open["users"] = 0
    <3>1. "users" \notin late' => hook <= 5
      BY <1>1, <1>2, <2>1 DEF LifeInv, HooksInOrder
    <3>2. hook <= 5 => open["users"] = 0
      BY <1>1, <1>2 DEF LifeInv, OneManager, LifeShapes
    <3> QED
      BY <3>1, <3>2
  <2>6. HeldPools'
    BY <1>1, <2>1, <2>2, <2>5 DEF LifeInv, HeldPools, Owners
  <2>7. Ended("users") => phase = "hooks"
    BY <1>1, <1>2 DEF LifeInv, HooksInOrder, Ended
  <2>8. EndedPools'
    BY <1>2, <2>1, <2>2, <2>7 DEF LifeInv, EndedPools, Ended
  <2>9. TicksEnd'
    BY <1>2, <2>1 DEF LifeInv, TicksEnd, Ended
  <2> QED
    BY <1>5, <2>3, <2>4, <2>6, <2>8, <2>9 DEF LifeInv
<1>7. CASE Process!NotMade
  <2>1. memo' = "none" /\ UNCHANGED <<open, ref, late>> /\ hungUp' \subseteq hungUp
    BY <1>7 DEF Process!NotMade, Process!pools
  <2>2. LifeShapes'
    BY <1>1, <1>2, <1>4, <1>5, <2>1 DEF LifeShapes
  <2>3. OneManager'
    BY <1>1, <1>2, <1>4, <2>1 DEF LifeInv, LifeShapes, OneManager
  <2>4. HeldPools' /\ EndedPools' /\ TicksEnd'
    BY <1>2, <2>1 DEF LifeInv, HeldPools, EndedPools, TicksEnd, Ended
  <2> QED
    BY <1>5, <2>2, <2>3, <2>4 DEF LifeInv
<1> QED
  BY <1>6, <1>7 DEF Process!Build

LEMMA PhasesKeep ==
  ASSUME LifeInv, \/ Process!Listen \/ Process!Signal \/ Process!Refuse \/ Process!Exit \/ Process!Die
                  \/ \E o \in Process!Worker : Process!Halt(o)
  PROVE  LifeInv'
<1>1. LifeShapes
  BY DEF LifeInv
<1>2. UNCHANGED <<open, ref, late, memo, making, at, hungUp, sweep, tick, anchor, hook>> /\ stopped \subseteq stopped'
  BY DEF Process!Listen, Process!Signal, Process!Refuse, Process!Exit, Process!Die, Process!Halt, Process!pools,
         Process!server, Process!managers, Process!requests, Process!workers, Process!chain
<1>3. /\ phase' \in {"boot", "up", "draining", "closing", "hooks", "gone"} /\ code' \in 0..1
      /\ stopped' \in SUBSET {"sweep", "tick", "anchor"}
  <2>1. phase' \in {"boot", "up", "draining", "closing", "hooks", "gone"} /\ code' \in 0..1
    BY <1>1 DEF LifeShapes, Process!Listen, Process!Signal, Process!Refuse, Process!Exit, Process!Die, Process!Halt,
                Process!server
  <2>2. \A o : Process!Halt(o) => stopped' = stopped \cup {o}
    BY DEF Process!Halt
  <2>3. stopped' = stopped \/ \E o \in Process!Worker : stopped' = stopped \cup {o}
    BY <2>2 DEF Process!Listen, Process!Signal, Process!Refuse, Process!Exit, Process!Die, Process!chain
  <2> QED
    BY <1>1, <2>1, <2>3, HookFacts DEF LifeShapes
<1>4. HooksInOrder'
  BY <1>1, <1>2, HookFacts DEF LifeInv, LifeShapes, HooksInOrder, Process!Listen, Process!Signal, Process!Refuse,
         Process!Exit, Process!Die, Process!Halt, Process!Alive, Process!server
<1>5. LifeShapes'
  BY <1>1, <1>2, <1>3 DEF LifeShapes
<1>6. HeldPools' /\ EndedPools'
  BY <1>2 DEF LifeInv, HeldPools, EndedPools, Ended
<1>7. OneManager' /\ TicksEnd'
  BY <1>2 DEF LifeInv, OneManager, TicksEnd, Ended
<1> QED
  BY <1>4, <1>5, <1>6, <1>7 DEF LifeInv

LEMMA EndPoolKeeps ==
  ASSUME LifeInv, NEW o \in HookedOwners, Process!EndPool(o)
  PROVE  LifeInv'
<1>0. o \in Owners /\ o # "plugins"
  BY DEF HookedOwners, Owners
<1>1. LifeShapes /\ making \in Nat /\ open["users"] \in Nat
  BY LifecycleAssumption DEF LifeInv, LifeShapes, Owners
<1>2. /\ UNCHANGED <<phase, code, late, making, at, hungUp, sweep, tick, anchor, stopped>>
      /\ hook' = hook + 1 /\ phase = "hooks"
      /\ memo' = (IF o = "users" THEN "none" ELSE memo)
      /\ ref' = ref \ {o}
      /\ open' = IF o \in ref THEN [open EXCEPT ![o] = open[o] - 1] ELSE open
  BY DEF Process!EndPool, Process!Now, Process!LetGo, Process!server, Process!requests, Process!workers
<1>3. /\ hook \in 1..6
      /\ \/ o = "ready" /\ hook = 1
         \/ o = "sweep" /\ hook = 2
         \/ o = "tick" /\ hook = 3
         \/ o = "anchor" /\ hook = 4
         \/ o = "users" /\ hook = 5
         \/ o = "auth" /\ hook = 6
  <2>1. hook \in 1..6 /\ Process!Hooks[hook] = o
    BY <1>1, HookFacts DEF LifeShapes, Process!EndPool, Process!Now
  <2>2. hook \in {1, 2, 3, 4, 5, 6}
    BY <2>1
  <2> QED
    BY <2>1, <2>2, HookFacts
<1>4. o = "tick" => tick = "idle" /\ "tick" \in stopped
  BY HookFacts DEF Process!EndPool, Process!Unused
<1>5. o \in ref => open[o] >= 1 /\ open[o] \in Nat
  BY <1>0, <1>1 DEF LifeInv, HeldPools, LifeShapes
<1>6. /\ open' \in [Owners -> Nat]
      /\ \A x \in Owners : x # o => open'[x] = open[x]
      /\ open'[o] = IF o \in ref THEN open[o] - 1 ELSE open[o]
  <2>1. open \in [Owners -> Nat]
    BY <1>1 DEF LifeShapes
  <2>2. CASE o \in ref
    <3>1. open[o] - 1 \in Nat
      BY <1>5, <2>2
    <3> QED
      BY <1>0, <1>2, <2>1, <2>2, <3>1
  <2>3. CASE o \notin ref
    BY <1>2, <2>1, <2>3
  <2> QED
    BY <2>2, <2>3
<1>7. LifeShapes'
  BY <1>1, <1>2, <1>3, <1>6 DEF LifeShapes
<1>8. HeldPools' /\ (open'[o] > 0 => o \in late)
  BY <1>0, <1>1, <1>2, <1>5, <1>6 DEF LifeInv, HeldPools, LifeShapes, Owners
<1>9. \A x \in Owners : Ended(x)' => x = o \/ Ended(x)
  BY <1>2, <1>3 DEF Ended
<1>10. EndedPools'
  BY <1>2, <1>6, <1>8, <1>9 DEF LifeInv, EndedPools
<1>11. OneManager'
  <2>1. CASE o = "users"
    BY <1>1, <1>2, <1>3, <1>6, <2>1 DEF LifeInv, OneManager, HeldPools
  <2>2. CASE o # "users"
    <3>1. open'["users"] = open["users"] /\ memo' = memo
      BY <1>2, <1>6, <2>2 DEF Owners
    <3>2. hook <= 5 <=> hook' <= 5
      BY <1>2, <1>3, <2>2
    <3>3. hook > 5 <=> hook' > 5
      BY <1>2, <1>3, <2>2
    <3> QED
      BY <1>2, <3>1, <3>2, <3>3 DEF LifeInv, OneManager
  <2> QED
    BY <2>1, <2>2
<1>12. HooksInOrder'
  BY <1>2 DEF HooksInOrder
<1>13. TicksEnd'
  BY <1>2, <1>3, <1>4 DEF LifeInv, TicksEnd, Ended
<1> QED
  BY <1>7, <1>8, <1>10, <1>11, <1>12, <1>13 DEF LifeInv

LEMMA LifeNext == LifeInv /\ Process!Next => LifeInv'
<1> SUFFICES ASSUME LifeInv, Process!Next PROVE LifeInv'
  OBVIOUS
<1>1. CASE UNCHANGED Process!vars
  <2>1. UNCHANGED <<phase, code, open, ref, late, memo, making, at, hungUp, sweep, tick, anchor, stopped, hook>>
    BY <1>1 DEF Process!vars
  <2>2. LifeShapes' /\ HeldPools' /\ EndedPools'
    BY <2>1 DEF LifeInv, LifeShapes, HeldPools, EndedPools, Ended
  <2>3. OneManager' /\ HooksInOrder' /\ TicksEnd'
    BY <2>1 DEF LifeInv, OneManager, HooksInOrder, TicksEnd, Ended
  <2> QED
    BY <2>2, <2>3 DEF LifeInv
<1>2. CASE Process!Listen \/ Process!Signal \/ Process!Close \/ Process!Die
  BY <1>2, PhasesKeep, EndPoolKeeps, HookFacts DEF Process!Close
<1>3. ASSUME NEW c \in Node,
             Process!Handle(c) \/ Process!HangUp(c) \/ \E what \in {"users", "auth", "ready", "module"} : Process!Arrive(c, what)
      PROVE  LifeInv'
  BY <1>3, AskManagerKeeps, RequestsGoOn DEF Process!Handle
<1>4. CASE Process!Build \/ Process!Sweep \/ Process!StartTick \/ Process!Dispatch \/ Process!Anchor
  BY <1>4, BuildKeeps, WorkersGoOn
<1> QED
  BY <1>1, <1>2, <1>3, <1>4 DEF Process!Next

\* However a shutdown falls into requests, workers and managers in the making: one pool for each
\* part, a failed import is not waited for, deliveries are not cut half-way, and an orderly
\* exit leaves open the pools that no hook ends and what was opened while the hooks ran.
THEOREM PoolsHold == HouseSpec => []PoolsServeTheWork
<1>1. HouseInit => LifeInv
  BY LifeInit DEF HouseInit
<1>2. LifeInv /\ [HouseNext]_<<part, vars, life>> => LifeInv'
  <2> SUFFICES ASSUME LifeInv, [HouseNext]_<<part, vars, life>> PROVE LifeInv'
    OBVIOUS
  <2>1. CASE Process!Next
    BY <2>1, LifeNext
  <2>2. CASE UNCHANGED life
    <3>1. UNCHANGED <<phase, code, open, ref, late, memo, making, at, hungUp, sweep, tick, anchor, stopped, hook>>
      BY <2>2 DEF life
    <3>2. LifeShapes' /\ HeldPools' /\ EndedPools'
      BY <3>1 DEF LifeInv, LifeShapes, HeldPools, EndedPools, Ended
    <3>3. OneManager' /\ HooksInOrder' /\ TicksEnd'
      BY <3>1 DEF LifeInv, OneManager, HooksInOrder, TicksEnd, Ended
    <3> QED
      BY <3>2, <3>3 DEF LifeInv
  <2> QED
    BY <2>1, <2>2 DEF HouseNext
<1> QED
  BY <1>1, <1>2, LifeImplies, PTL DEF HouseSpec
=============================================================================
