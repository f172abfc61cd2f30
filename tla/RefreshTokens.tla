--------------------------- MODULE RefreshTokens ---------------------------
(***************************************************************************)
(* The refresh-token table (`sessions`) and every request that writes it.  *)
(* A refresh rotates a token in several database round trips that other    *)
(* requests interleave with: look the presented row up, check the account  *)
(* and the tenant, burn the row with one guarded UPDATE, and only then     *)
(* INSERT its successor.  A lost burn is classified by a second read, and  *)
(* a replayed token revokes every session of its user.                     *)
(*                                                                         *)
(* A token is a model value standing for the raw token and for its hash.   *)
(* created stands for created_at and for last_used_at, which the code      *)
(* writes together and never again; expires_at is created + Ttl.           *)
(***************************************************************************)
EXTENDS Integers, FiniteSets

CONSTANTS
  Token,        \* raw refresh tokens the server may mint
  User, Tenant,
  DefaultTenant, \* TENANT_PROTECTED: it can never be suspended
  TenantOf,     \* the tenant of each user
  Req,          \* concurrent HTTP requests, over all the server processes
  NoToken, NoUser,
  Status,       \* statuses, other than suspended, an admin may set
  Grace,        \* REPLAY_GRACE_MS
  Ttl,          \* REFRESH_TTL_MS
  Retain,       \* days an expired row outlives its expiry before the sweep
  IdleTiers,    \* idle cutoffs the option may be set to; 0 is "off"
  Latency,      \* longest time a request stays in flight
  LookupFails,  \* may the tenant lookup of assertTenantActive fail?
  MaxTime       \* bound on the clock, for model checking

ASSUME ConstAssumption ==
  /\ TenantOf \in [User -> Tenant] /\ DefaultTenant \in Tenant
  /\ NoToken \notin Token /\ NoUser \notin User
  /\ Status \subseteq {"active", "pending"}
  /\ Grace \in Nat /\ Ttl \in Nat \ {0} /\ Retain \in Nat
  /\ IdleTiers \subseteq Nat
  /\ Latency \in Nat /\ LookupFails \in BOOLEAN /\ MaxTime \in Nat \ {0}

VARIABLES
  now,        \* the clock, from 1: a stamp of 0 is SQL NULL
  minted,     \* tokens ever handed out
  rows,       \* tokens that have a row in the table
  row,        \* the row of each token (meaningful for members of rows)
  account,    \* users.status, "gone" once the user is deleted
  tenant,     \* tenants.status
  pc, tok, who, since  \* per request: its next step, token, user, start time

tableVars == <<minted, rows, row>>
adminVars == <<account, tenant>>
reqVars   == <<pc, tok, who, since>>
vars      == <<now, tableVars, adminVars, reqVars>>

(***************************************************************************)
(* parent and chain are history: the token whose rotation inserted the     *)
(* row, and the login-time token the line of rotations started from.       *)
(***************************************************************************)
Row == [user: User \cup {NoUser}, created: Nat, usedAt: Nat, revoked: BOOLEAN,
        parent: Token \cup {NoToken}, chain: Token \cup {NoToken}]

NoRow == [user |-> NoUser, created |-> 0, usedAt |-> 0, revoked |-> FALSE,
          parent |-> NoToken, chain |-> NoToken]

Steps == {"idle", "userDoor", "tenantDoor", "burn", "classify", "burnFamily",
          "reuse", "insert", "loginDoor", "loginInsert", "suspendRevoke"}

Init ==
  /\ now = 1
  /\ minted = {} /\ rows = {} /\ row = [t \in Token |-> NoRow]
  /\ account = [u \in User |-> "active"]
  /\ tenant = [n \in Tenant |-> "active"]
  /\ pc = [r \in Req |-> "idle"]
  /\ tok = [r \in Req |-> NoToken]
  /\ who = [r \in Req |-> NoUser]
  /\ since = [r \in Req |-> 0]

-----------------------------------------------------------------------------
(* Requests *)

Goto(r, step) ==
  /\ pc' = [pc EXCEPT ![r] = step]
  /\ UNCHANGED <<tok, who, since>>

Reply(r) ==   \* the handler returns or throws: the request is over
  /\ pc' = [pc EXCEPT ![r] = "idle"]
  /\ tok' = [tok EXCEPT ![r] = NoToken]
  /\ who' = [who EXCEPT ![r] = NoUser]
  /\ since' = [since EXCEPT ![r] = 0]

Begin(r, step, t, u) ==
  /\ pc[r] = "idle"
  /\ pc' = [pc EXCEPT ![r] = step]
  /\ tok' = [tok EXCEPT ![r] = t]
  /\ who' = [who EXCEPT ![r] = u]
  /\ since' = [since EXCEPT ![r] = now]

RevokeRows(S) ==
  row' = [t \in Token |->
            IF t \in rows \cap S THEN [row[t] EXCEPT !.revoked = TRUE] ELSE row[t]]

RowsOf(u) == {t \in rows : row[t].user = u}

\* POST /refresh looks the presented token up; without a row both doors are
\* skipped and the rotation finds nothing either.
Present(r, t) ==
  /\ t \in minted
  /\ Begin(r, IF t \in rows THEN "userDoor" ELSE "burn",
              t, IF t \in rows THEN row[t].user ELSE NoUser)
  /\ UNCHANGED <<now, tableVars, adminVars>>

\* Faulty variant: nothing gates the account before the rotation.
UserDoorOpen(r) ==
  pc[r] = "userDoor" /\ Goto(r, "tenantDoor") /\ UNCHANGED <<now, tableVars, adminVars>>

\* The account gate before the rotation.  A deleted user reads as null and
\* passes both doors; the cascade has already removed the row.
UserDoor(r) ==
  /\ pc[r] = "userDoor"
  /\ IF account[who[r]] \in {"suspended", "pending"} THEN Reply(r) ELSE Goto(r, "tenantDoor")
  /\ UNCHANGED <<now, tableVars, adminVars>>

\* assertTenantActive: only a tenant read as suspended blocks, a failed
\* lookup lets the request through.
TenantDoor(r, at, next) ==
  /\ pc[r] = at
  /\ \/ /\ tenant[TenantOf[who[r]]] = "suspended" /\ account[who[r]] # "gone"
        /\ Reply(r)
     \/ /\ \/ tenant[TenantOf[who[r]]] = "active"
           \/ account[who[r]] = "gone"
           \/ LookupFails
        /\ Goto(r, next)
  /\ UNCHANGED <<now, tableVars, adminVars>>

\* Faulty variants of the guard below: without the unused check, without the
\* revoked check.
BurnableThoughUsed(t, c) ==
  ~row[t].revoked /\ row[t].created + Ttl > now /\ (c # 0 => row[t].created > now - c)

BurnableThoughRevoked(t, c) ==
  row[t].usedAt = 0 /\ row[t].created + Ttl > now /\ (c # 0 => row[t].created > now - c)

\* The WHERE of the guarded UPDATE; c is the idle cutoff resolved for this
\* request, 0 when idle enforcement is off.
Burnable(t, c) ==
  /\ row[t].usedAt = 0
  /\ ~row[t].revoked
  /\ row[t].created + Ttl > now
  /\ c # 0 => row[t].created > now - c

\* rotateRefreshToken reads the row by hash and burns it.  The read only
\* supplies the id and the owner, which never change, so it is one step with
\* the UPDATE.
Burn(r) ==
  /\ pc[r] = "burn"
  /\ \/ /\ tok[r] \notin rows               \* "Session not found"
        /\ Reply(r) /\ UNCHANGED row
     \/ /\ tok[r] \in rows
        /\ \E c \in IdleTiers :
             \/ /\ Burnable(tok[r], c)
                /\ row' = [row EXCEPT ![tok[r]].usedAt = now]
                /\ Goto(r, "insert")
             \/ /\ ~Burnable(tok[r], c)
                /\ Goto(r, "classify") /\ UNCHANGED row
  /\ UNCHANGED <<now, minted, rows, adminVars>>

\* Faulty variant: >= for > in the comparison with the grace window.
IsReplayEarly(t) ==
  t \in rows /\ ~row[t].revoked /\ row[t].usedAt # 0 /\ now - row[t].usedAt >= Grace

\* The second read of a lost burn: gone, revoked, within the grace window
\* and expired are plain failures; a use older than Grace is a replay.
IsReplay(t) ==
  t \in rows /\ ~row[t].revoked /\ row[t].usedAt # 0 /\ now - row[t].usedAt > Grace

Classify(r) ==
  /\ pc[r] = "classify"
  /\ IF IsReplay(tok[r]) THEN Goto(r, "burnFamily") ELSE Reply(r)
  /\ UNCHANGED <<now, tableVars, adminVars>>

BurnFamily(r) ==    \* revokeAllUserSessions, then 'Token reuse detected'
  /\ pc[r] = "burnFamily"
  /\ RevokeRows(RowsOf(who[r]))
  /\ Goto(r, "reuse")
  /\ UNCHANGED <<now, minted, rows, adminVars>>

ReplyReuse(r) ==
  /\ pc[r] = "reuse"
  /\ Reply(r)
  /\ UNCHANGED <<now, tableVars, adminVars>>

\* Faulty variant: the INSERT forgets the owner.
AddRowNoOwner(t, u, parent, chain) ==
  /\ t \in Token \ minted
  /\ minted' = minted \cup {t}
  /\ rows' = rows \cup {t}
  /\ row' = [row EXCEPT ![t] = [NoRow EXCEPT !.created = now, !.parent = parent, !.chain = chain]]

AddRow(t, u, parent, chain) ==
  /\ t \in Token \ minted
  /\ minted' = minted \cup {t}
  /\ rows' = rows \cup {t}
  /\ row' = [row EXCEPT ![t] = [user |-> u, created |-> now, usedAt |-> 0,
                                revoked |-> FALSE, parent |-> parent, chain |-> chain]]

\* The INSERT of the successor; it fails on the foreign key once the user is
\* deleted.
Insert(r) ==
  /\ pc[r] = "insert"
  /\ \/ /\ account[who[r]] = "gone" /\ UNCHANGED tableVars
     \/ /\ account[who[r]] # "gone"
        /\ \E t \in Token : AddRow(t, who[r], tok[r], row[tok[r]].chain)
  /\ Reply(r)
  /\ UNCHANGED <<now, adminVars>>

\* A login that authenticated u: issueTokenPair checks the tenant and inserts.
Login(r, u) ==
  /\ account[u] = "active"
  /\ Begin(r, "loginDoor", NoToken, u)
  /\ UNCHANGED <<now, tableVars, adminVars>>

LoginInsert(r) ==
  /\ pc[r] = "loginInsert"
  /\ \/ /\ account[who[r]] = "gone" /\ UNCHANGED tableVars
     \/ /\ account[who[r]] # "gone"
        /\ \E t \in Token : AddRow(t, who[r], NoToken, t)
  /\ Reply(r)
  /\ UNCHANGED <<now, adminVars>>

\* PATCH /users/:id/status to suspended, whatever the status was: the status is
\* committed first, the sessions are revoked by a second statement.
SuspendUser(r, u) ==
  /\ account[u] # "gone"
  /\ Begin(r, "suspendRevoke", NoToken, u)
  /\ account' = [account EXCEPT ![u] = "suspended"]
  /\ UNCHANGED <<now, tableVars, tenant>>

SuspendRevoke(r) ==
  /\ pc[r] = "suspendRevoke"
  /\ RevokeRows(RowsOf(who[r]))
  /\ Reply(r)
  /\ UNCHANGED <<now, minted, rows, adminVars>>

Crash(r) ==   \* the process serving the request dies between two statements
  /\ pc[r] \in {"insert", "burnFamily", "suspendRevoke"}
  /\ Reply(r)
  /\ UNCHANGED <<now, tableVars, adminVars>>

-----------------------------------------------------------------------------
(* Handlers whose only write to the table is one statement *)

\* logout with a refresh token, and revoke one session by id
RevokeSession(t) ==
  /\ t \in rows
  /\ RevokeRows({t})
  /\ UNCHANGED <<now, minted, rows, adminVars, reqVars>>

\* bearer-only logout and force-logout
RevokeAll(u) ==
  /\ RevokeRows(RowsOf(u))
  /\ UNCHANGED <<now, minted, rows, adminVars, reqVars>>

\* "log out other devices": without a resolvable session it revokes all
RevokeOthers(u, keep) ==
  /\ keep \in rows
  /\ RevokeRows(RowsOf(u) \ {keep})
  /\ UNCHANGED <<now, minted, rows, adminVars, reqVars>>

\* PATCH /users/:id/status to another status: nothing is revoked
SetStatus(u, status) ==
  /\ account[u] \notin {"gone", status}
  /\ account' = [account EXCEPT ![u] = status]
  /\ UNCHANGED <<now, tableVars, tenant, reqVars>>

DeleteUser(u) ==    \* ON DELETE CASCADE takes the rows along
  /\ account[u] # "gone"
  /\ account' = [account EXCEPT ![u] = "gone"]
  /\ rows' = rows \ RowsOf(u)
  /\ row' = [t \in Token |-> IF t \in RowsOf(u) THEN NoRow ELSE row[t]]
  /\ UNCHANGED <<now, minted, tenant, reqVars>>

\* The status update and revokeTenantAccess commit in one transaction.
SuspendTenant(n) ==
  /\ n # DefaultTenant
  /\ tenant[n] = "active"
  /\ tenant' = [tenant EXCEPT ![n] = "suspended"]
  /\ RevokeRows({t \in rows : TenantOf[row[t].user] = n})
  /\ UNCHANGED <<now, minted, rows, account, reqVars>>

ReactivateTenant(n) ==
  /\ tenant[n] = "suspended"
  /\ tenant' = [tenant EXCEPT ![n] = "active"]
  /\ UNCHANGED <<now, tableVars, account, reqVars>>

Sweep ==    \* the retention sweep deletes rows long expired
  LET old == {t \in rows : row[t].created + Ttl + Retain < now}
  IN  /\ old # {}
      /\ rows' = rows \ old
      /\ UNCHANGED <<now, minted, row, adminVars, reqVars>>

Tick ==
  /\ now < MaxTime
  /\ \A r \in Req : pc[r] # "idle" => now - since[r] < Latency
  /\ now' = now + 1
  /\ UNCHANGED <<tableVars, adminVars, reqVars>>

Refresh(r) ==
  \/ \E t \in Token : Present(r, t)
  \/ UserDoor(r)
  \/ TenantDoor(r, "tenantDoor", "burn")
  \/ Burn(r)
  \/ Classify(r)
  \/ BurnFamily(r)
  \/ ReplyReuse(r)
  \/ Insert(r)

IssueTokenPair(r) ==
  \/ \E u \in User : Login(r, u)
  \/ TenantDoor(r, "loginDoor", "loginInsert")
  \/ LoginInsert(r)

Next ==
  \/ \E r \in Req : Refresh(r) \/ IssueTokenPair(r) \/ SuspendRevoke(r) \/ Crash(r)
  \/ \E r \in Req, u \in User : SuspendUser(r, u)
  \/ \E t \in Token : RevokeSession(t)
  \/ \E u \in User : RevokeAll(u) \/ DeleteUser(u)
  \/ \E u \in User, status \in Status : SetStatus(u, status)
  \/ \E u \in User, t \in Token : RevokeOthers(u, t)
  \/ \E n \in Tenant : SuspendTenant(n) \/ ReactivateTenant(n)
  \/ Sweep
  \/ Tick

Spec == Init /\ [][Next]_vars

-----------------------------------------------------------------------------
(* Properties *)

\* Shapes of the table and of the requests; every row has a real owner and a
\* birth and a use that are not in the future.
TypeOK ==
  /\ now \in Nat \ {0}
  /\ minted \subseteq Token /\ rows \subseteq minted
  /\ row \in [Token -> Row]
  /\ \A t \in rows : row[t].user \in User /\ row[t].created <= now /\ row[t].usedAt <= now
  /\ account \in [User -> {"active", "pending", "suspended", "gone"}]
  /\ tenant \in [Tenant -> {"active", "suspended"}]
  /\ pc \in [Req -> Steps]
  /\ tok \in [Req -> Token \cup {NoToken}]
  /\ who \in [Req -> User \cup {NoUser}]
  /\ since \in [Req -> Nat]

\* A refresh token is exchanged at most once, whatever number of requests
\* present it at the same time (the single-use burn of rotateRefreshToken).
AtMostOneSuccessor ==
  \A s, t \in rows : row[s].parent = row[t].parent /\ row[s].parent # NoToken => s = t

\* A request that found its token unused never burns the family, however its
\* steps interleave with the sibling that wins the exchange: the revocation
\* of a whole family is kept for tokens used before they were presented.
FamilyBurnMeansReplay ==
  \A r \in Req : pc[r] = "burnFamily" => row[tok[r]].usedAt < since[r]

\* A line of rotations is dead when all its rows are used, revoked or expired
\* and no request is between burning one of them and inserting its successor.
ChainDead(c) ==
  /\ c \in minted
  /\ \A t \in rows : row[t].chain = c =>
       row[t].usedAt # 0 \/ row[t].revoked \/ row[t].created + Ttl <= now
  /\ \A r \in Req : pc[r] = "insert" => row[tok[r]].chain # c

\* A dead line never comes back: no order of logins, replays, revocations,
\* suspensions, reactivations and sweeps yields a usable token of it.
DeadChainsStayDead ==
  [][\A c \in Token : ChainDead(c) => ChainDead(c)']_vars

\* Requests of u that are past the gate its own status, or its tenant's
\* status, closes.
PastUserDoor(u) ==
  {r \in Req : who[r] = u /\ pc[r] \in {"tenantDoor", "burn", "insert", "loginDoor", "loginInsert"}}
PastTenantDoor(u) ==
  {r \in Req : who[r] = u /\ pc[r] \in {"burn", "insert", "loginInsert"}}

Shut(u) ==
  \/ account[u] \in {"suspended", "pending"} /\ PastUserDoor(u) = {}
  \/ account[u] # "gone" /\ tenant[TenantOf[u]] = "suspended" /\ PastTenantDoor(u) = {}

\* Once a suspension's in-flight requests have drained, the user's tokens are
\* frozen until somebody changes the status of the user or of the tenant: none is used and
\* none is created (the two doors in front of the rotation and the issuance).
ShutUsersAreFrozen ==
  [][\A u \in User : Shut(u) /\ account[u] = account'[u] /\ tenant[TenantOf[u]] = tenant'[TenantOf[u]]
       => /\ Shut(u)'
          /\ \A t \in rows' : row'[t].user = u => t \in rows /\ row'[t].usedAt = row[t].usedAt]_vars

\* The inductive invariant the proofs use, in named parts.  Each request holds
\* a minted token and its owner ...
RequestsOK ==
  \A r \in Req :
    /\ pc[r] \in {"userDoor", "tenantDoor", "burn", "classify", "burnFamily", "reuse", "insert"}
         => tok[r] \in minted /\ (tok[r] \in rows => who[r] = row[tok[r]].user)
    /\ pc[r] \in Steps \ {"idle", "burn"} => who[r] \in User
    /\ pc[r] # "idle" => since[r] \in 1..now

\* ... a request about to insert a successor is the only one for its token,
\* which is used up and has no successor yet ...
OneInserter ==
  \A r \in Req : pc[r] = "insert" =>
    /\ tok[r] \in rows => row[tok[r]].usedAt # 0
    /\ \A t \in rows : row[t].parent # tok[r]
    /\ \A q \in Req \ {r} : pc[q] = "insert" => tok[q] # tok[r]

\* ... and a row that has a successor is used up.
ParentsSpent ==
  \A t \in rows : row[t].parent # NoToken =>
    /\ row[t].parent \in minted
    /\ row[t].parent \in rows => row[row[t].parent].usedAt # 0

SingleUseInv == TypeOK /\ RequestsOK /\ OneInserter /\ ParentsSpent /\ AtMostOneSuccessor

\* What else the grace window needs: requests are no older than Latency, and
\* a family burn is decided on a row that stays used.
PromptInv ==
  /\ \A r \in Req : pc[r] # "idle" => now - since[r] <= Latency
  /\ \A r \in Req : pc[r] = "burnFamily" /\ tok[r] \in rows => row[tok[r]].usedAt # 0
  /\ FamilyBurnMeansReplay
=============================================================================
