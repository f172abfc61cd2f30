---------------------------- MODULE OidcProvider ----------------------------
(***************************************************************************)
(* AccessBase as an OpenID provider: the interaction routes on which a     *)
(* user consents, the adapter that keeps everything the oidc-provider      *)
(* library stores in one table, and the guard that counts requests.        *)
(* What the library does with the adapter (resuming an interaction,        *)
(* redeeming codes and refresh tokens, noticing a replay) is external.     *)
(***************************************************************************)
EXTENDS Integers, FiniteSets

CONSTANTS
  Subject,   \* users of the console
  RowId,     \* bound: rows of the adapter's table, 1..n; ids are random, so never used again
  Serving,   \* requests being served, each in a process of its own
  Limit,     \* requests allowed per minute and address
  Nil,
  Tasks      \* workloads: what happens (some of "decide", "redeem", "expiry", "guard"), and
             \* how many rows there may be

VARIABLES
  task,      \* the workload
  table,     \* oidc_adapter_state
  serving,   \* the requests
  registered, \* is the client registered?
  hits,      \* the minute's counters: in Redis, and in each process
  reach,     \* does Redis answer?
  passed,    \* history: requests let through in this minute
  waiting,   \* history: interactions nobody has answered
  redeemed,  \* history: how often a code or refresh token brought tokens
  rushed,    \* history: those two requests were redeeming at a time
  over,      \* history: grants revoked after a replay
  late       \* history: tokens stored when their grant was being revoked

provider == <<task, table, serving, registered, hits, reach, passed, waiting, redeemed, rushed, over, late>>
histories == <<waiting, redeemed, rushed, over, late>>
guards == <<hits, reach, passed>>

TokenKinds == {"AuthorizationCode", "RefreshToken"}
Kinds == {"Interaction", "Grant"} \cup TokenKinds
Unused == [kind |-> "none"]
Shared == 0   \* the counter in Redis

\* grant is the derived column; consumed the mark in the payload; prompt and result belong to
\* interactions, account is the user a row is about.
Row(k, g, a) ==
  [kind |-> k, grant |-> g, account |-> a, consumed |-> FALSE, expired |-> FALSE, gone |-> FALSE,
   prompt |-> Nil, result |-> Nil]

Idle == [at |-> "idle", row |-> 0, by |-> Nil, grant |-> 0, todo |-> {}]

\* Faulty variant: only codes are stored with their grant.
GrantOfCode(k, g) == IF k = "RefreshToken" THEN 0 ELSE g

GrantColumn(k, g) == g

\* Workloads without decisions start from one that has been taken: a grant and its code.
Init ==
  /\ task \in Tasks
  /\ \E a \in Subject :
       table = [x \in RowId |->
         IF "decide" \in task.does \/ x > task.rows \/ x > 2 THEN Unused
         ELSE IF x = 1 THEN Row("Grant", 0, a)
              ELSE Row("AuthorizationCode", GrantColumn("AuthorizationCode", 1), a)]
  /\ serving = [p \in Serving |-> Idle]
  /\ registered = TRUE
  /\ hits = [h \in {Shared} \cup Serving |-> 0] /\ reach = TRUE /\ passed = 0
  /\ waiting = {} /\ redeemed = [x \in RowId |-> 0] /\ rushed = {} /\ over = {} /\ late = {}

-----------------------------------------------------------------------------
(* The adapter *)

Stored(x) == x \in RowId /\ table[x].kind # "none" /\ ~table[x].gone
Readable(x) == Stored(x) /\ ~table[x].expired
Fresh == {x \in RowId : x <= task.rows /\ table[x].kind = "none" /\ \A y \in RowId : table[y].kind = "none" => x <= y}
Deleted(X) == [x \in RowId |-> IF x \in X /\ Stored(x) THEN [table[x] EXCEPT !.gone = TRUE] ELSE table[x]]

\* find() destroys the row it finds expired.
AfterFind(x) == IF Stored(x) /\ table[x].expired THEN Deleted({x}) ELSE table

\* Faulty variant: the mark is lost when the payload is written back.
ConsumedUnmarked(x) == table

\* An UPDATE by kind and id, whatever the mark was.
Consumed(x) == IF Stored(x) THEN [table EXCEPT ![x].consumed = TRUE] ELSE table

\* Faulty variant: the rows of every kind.
OfGrantBlind(k, g) == {x \in RowId : Stored(x) /\ table[x].kind # "Grant" /\ table[x].grant = g}

OfGrant(k, g) == {x \in RowId : Stored(x) /\ table[x].kind = k /\ table[x].grant = g}

Expire(x) ==
  /\ Readable(x) /\ table' = [table EXCEPT ![x].expired = TRUE] /\ waiting' = waiting \ {x}
  /\ UNCHANGED <<task, serving, registered, redeemed, rushed, over, late, guards>>

SweepExpired ==
  /\ \E x \in RowId : Stored(x) /\ table[x].expired
  /\ table' = Deleted({x \in RowId : Stored(x) /\ table[x].expired})
  /\ UNCHANGED <<task, serving, registered, guards, histories>>

-----------------------------------------------------------------------------
(* Interactions *)

At(p, where) == serving[p].at = where
Goto(p, where) == serving' = [serving EXCEPT ![p].at = where]
Reply(p) == serving' = [serving EXCEPT ![p] = Idle]

\* The library asks a user to log in, or to consent (again, to more than a grant has).
AuthRequest(a) ==
  \E x \in Fresh, g \in {0} \cup {y \in RowId : Readable(y) /\ table[y].kind = "Grant" /\ table[y].account = a} :
    /\ registered
    /\ table' = [table EXCEPT ![x] = [Row("Interaction", GrantColumn("Interaction", g), a) EXCEPT
                                        !.prompt = IF a = Nil THEN "login" ELSE "consent"]]
    /\ waiting' = waiting \cup {x}
    /\ UNCHANGED <<task, serving, registered, redeemed, rushed, over, late, guards>>

\* Faulty variant: whoever is signed in to the console may answer.
AnyoneMay(x, s) == TRUE

May(x, s) == table[x].account \in {Nil, s}

\* POST /interaction/:uid reads the interaction; what the reply needs is written later.
Decide(p, x, s) ==
  /\ At(p, "idle") /\ table[x].kind = "Interaction" /\ table' = AfterFind(x)
  /\ IF ~Readable(x) \/ ~May(x, s) THEN UNCHANGED serving
     ELSE \E d \in {"deny", IF table[x].prompt = "login" THEN "login" ELSE "grant"} :
            serving' = [serving EXCEPT ![p] = [Idle EXCEPT !.at = d, !.row = x, !.by = s]]
  /\ UNCHANGED <<task, registered, guards, histories>>

SaveGrant(p) ==
  \E x \in Fresh :
    /\ At(p, "grant")
    /\ table' = [table EXCEPT ![x] = Row("Grant", 0, serving[p].by)]
    /\ serving' = [serving EXCEPT ![p].at = "consent", ![p].grant = x]
    /\ UNCHANGED <<task, registered, guards, histories>>

\* The interaction with its result.
Answered(r, j) ==
  [r EXCEPT !.result = j.at, !.gone = FALSE, !.expired = FALSE,
            !.account = IF j.at = "login" THEN j.by ELSE r.account,
            !.grant = IF j.at = "consent" THEN GrantColumn("Interaction", j.grant) ELSE r.grant]

\* interactionFinished() stores it, also when it is gone by now.
Finish(p) ==
  LET j == serving[p] IN
  /\ j.at \in {"login", "consent", "deny"}
  /\ table' = [table EXCEPT ![j.row] = Answered(@, j)]
  /\ waiting' = waiting \ {j.row} /\ Reply(p)
  /\ UNCHANGED <<task, registered, redeemed, rushed, over, late, guards>>

\* The library reads the result: it logs the user in, hands out a code for the session's user,
\* or sends the user back.
Resume(x) ==
  /\ Readable(x) /\ table[x].kind = "Interaction" /\ table[x].result # Nil /\ registered
  /\ waiting' = waiting \ {x}
  /\ IF table[x].result = "consent"
     THEN \E y \in Fresh :
            table' = [Deleted({x}) EXCEPT ![y] =
                        Row("AuthorizationCode", GrantColumn("AuthorizationCode", table[x].grant), table[x].account)]
     ELSE table' = Deleted({x})
  /\ UNCHANGED <<task, serving, registered, redeemed, rushed, over, late, guards>>

-----------------------------------------------------------------------------
(* Redeeming codes and refresh tokens (the library) *)

Others(p) == {q \in Serving \ {p} : serving[q].row = serving[p].row}

Redeem(p, x) ==
  LET g == table[x].grant IN
  /\ At(p, "idle") /\ table[x].kind \in TokenKinds /\ registered /\ table' = AfterFind(x)
  /\ IF ~Readable(x) \/ ~Readable(g) THEN UNCHANGED serving
     ELSE serving' = [serving EXCEPT ![p] =
            [Idle EXCEPT !.at = IF table[x].consumed THEN "revoke" ELSE "consume", !.row = x, !.grant = g,
                         !.todo = TokenKinds]]
  /\ rushed' = IF \E q \in Serving : serving[q].row = x THEN rushed \cup {x} ELSE rushed
  /\ UNCHANGED <<task, registered, waiting, redeemed, over, late, guards>>

Consume(p) ==
  /\ At(p, "consume") /\ table' = Consumed(serving[p].row) /\ Goto(p, "save")
  /\ UNCHANGED <<task, registered, guards, histories>>

SaveTokens(p) ==
  LET j == serving[p] IN
  \E y \in Fresh :
    /\ At(p, "save")
    /\ table' = [table EXCEPT ![y] =
         Row("RefreshToken", GrantColumn("RefreshToken", j.grant), table[j.row].account)]
    /\ redeemed' = [redeemed EXCEPT ![j.row] = @ + 1]
    /\ late' = IF ~Stored(j.grant) \/ \E q \in Serving : At(q, "revoke") /\ serving[q].grant = j.grant
               THEN late \cup {y} ELSE late
    /\ Reply(p)
    /\ UNCHANGED <<task, registered, waiting, rushed, over, guards>>

\* A replay ends the grant: kind by kind, the grant itself last.
RevokeByGrantId(p) ==
  \E k \in serving[p].todo :
    /\ At(p, "revoke") /\ table' = Deleted(OfGrant(k, serving[p].grant))
    /\ serving' = [serving EXCEPT ![p].todo = @ \ {k}]
    /\ UNCHANGED <<task, registered, guards, histories>>

DestroyGrant(p) ==
  /\ At(p, "revoke") /\ serving[p].todo = {}
  /\ table' = Deleted({serving[p].grant}) /\ over' = over \cup {serving[p].grant} /\ Reply(p)
  /\ UNCHANGED <<task, registered, waiting, redeemed, rushed, late, guards>>

\* DELETE /clients/:clientId leaves the table alone.
RemoveClient ==
  /\ registered /\ registered' = FALSE
  /\ UNCHANGED <<task, table, serving, guards, histories>>

FailRequest(p) ==
  /\ ~At(p, "idle") /\ Reply(p)
  /\ UNCHANGED <<task, table, registered, guards, histories>>

-----------------------------------------------------------------------------
(* The rate guard *)

\* Faulty variant: without Redis nothing is counted.
CounterOrNone(p) == IF reach THEN Shared ELSE -1

\* A command that fails makes the process count by itself.
Counter(p) == IF reach THEN Shared ELSE p

\* The first request a process counts passes, whatever the limit.
Guard(p) ==
  LET h == Counter(p) IN
  IF h \notin DOMAIN hits THEN passed' = passed + 1 /\ UNCHANGED hits
  ELSE /\ hits' = [hits EXCEPT ![h] = @ + 1]
       /\ passed' = IF hits'[h] <= Limit \/ (h # Shared /\ hits'[h] = 1) THEN passed + 1 ELSE passed

\* The counters stop at one above the limit (bound).
Count(p) ==
  /\ \A h \in DOMAIN hits : hits[h] <= Limit
  /\ Guard(p)
  /\ UNCHANGED <<task, table, serving, registered, reach, histories>>

NextMinute ==
  /\ hits' = [h \in DOMAIN hits |-> 0] /\ passed' = 0
  /\ UNCHANGED <<task, table, serving, registered, reach, histories>>

SwitchRedis ==
  /\ reach' = ~reach
  /\ UNCHANGED <<task, table, serving, registered, hits, passed, histories>>

Decisions == \E p \in Serving : (\E x \in RowId, s \in Subject : Decide(p, x, s)) \/ SaveGrant(p) \/ Finish(p)

Redemptions ==
  \E p \in Serving :
    \/ \E x \in RowId : Redeem(p, x)
    \/ Consume(p) \/ SaveTokens(p) \/ RevokeByGrantId(p) \/ DestroyGrant(p)

Next ==
  \/ /\ task.does \cap {"decide", "redeem"} # {}
     /\ \/ \E a \in Subject \cup {Nil} : AuthRequest(a)
        \/ \E x \in RowId : Resume(x)
        \/ \E p \in Serving : FailRequest(p)
  \/ "decide" \in task.does /\ Decisions
  \/ "redeem" \in task.does /\ (Redemptions \/ RemoveClient)
  \/ "expiry" \in task.does /\ ((\E x \in RowId : Expire(x)) \/ SweepExpired)
  \/ "guard" \in task.does /\ ((\E p \in Serving : Count(p)) \/ NextMinute \/ SwitchRedis)

-----------------------------------------------------------------------------
(* Properties *)

TypeOK ==
  /\ task \in Tasks /\ registered \in BOOLEAN /\ reach \in BOOLEAN
  /\ \A x \in RowId : table[x] # Unused =>
       table[x].kind \in Kinds /\ table[x].grant \in {0} \cup RowId /\ table[x].account \in Subject \cup {Nil}
  /\ \A p \in Serving : serving[p].row \in {0} \cup RowId
  /\ hits \in [{Shared} \cup Serving -> 0..(Limit + 1)]

\* A code or a refresh token brings tokens once, unless two requests redeem it at a time:
\* reading it and marking it are two statements, and the mark is set unconditionally.
RedeemedOnce == \A x \in RowId : redeemed[x] <= 1 \/ x \in rushed

\* Once a replay has ended a grant, nothing is left of it but tokens that a redemption
\* under way stored meanwhile; those find no grant when they are used.
ReplayEndsTheGrant ==
  \A x \in RowId : Stored(x) /\ table[x].kind \in TokenKinds /\ x \notin late =>
    table[x].grant # 0 /\ table[x].grant \notin over

\* The consent page a user is looking at survives the end of the grant it extends.
ConsentsSurvive == \A x \in waiting : Readable(x)

\* Whoever a code is for has consented: the grant behind it was given by the same user.
CodesAreConsentedTo ==
  \A x \in RowId : table[x].kind = "AuthorizationCode" => table[table[x].grant].account = table[x].account

\* However Redis comes and goes, a minute lets through no more than the limit, and the limit
\* once more for each process.
WindowHolds == passed <= Limit * (1 + Cardinality(Serving))

\* What the provider promises its clients and users: codes that work once, grants that end
\* together and are the consent of the user they name, and limits on asking.
ProviderIsSound ==
  TypeOK /\ RedeemedOnce /\ ReplayEndsTheGrant /\ ConsentsSurvive /\ CodesAreConsentedTo /\ WindowHolds
=============================================================================
