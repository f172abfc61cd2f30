# AccessBase: a verification project

AccessBase is a multi-tenant identity and access server: a Fastify application
(`src/apps/server/src`) over a library of managers (`src/packages/identity/src`)
that keeps its state in PostgreSQL, with Redis as a cache and message bus.
Several server processes may share both. This directory holds TLA+ modules of
the parts whose correctness depends on the order in which requests, background
loops and processes take their steps, the configurations that check them with
TLC, and proofs about them that TLAPS checks.

Paths below are relative to `src/`. `SV` stands for `apps/server/src`, `ID` for
`packages/identity/src`, `UI` for `apps/admin-ui/src`.

## 1. Inventory

| Component | State | Operations | What is hard |
|---|---|---|---|
| Refresh tokens and sessions (`ID/managers/SessionManager.ts`, `SV/routes/auth/core.ts`, `shared.ts`) | `sessions` rows: hash, created, used, revoked, expires; a Redis list of them | issue, rotate, revoke one / others / all, list, sweep | rotation is five round trips; replay against double-fire; suspensions in between; only some managers delete the list |
| Bearer revocation (`SV/utils/auth-state.ts`, `ID/services/token-version.ts`, `SV/app.ts` authenticate) | `users.token_version`, `users.status`, a Redis entry of 30 s | bump, read through, authenticate | the entry is deleted before the bump commits; a stale read is cached late |
| Webhook outbox (`SV/utils/webhook-dispatcher.ts`, `SV/routes/webhooks.ts`, `ID/services/events.ts`) | `events`, `webhook_endpoints`, `webhook_deliveries` | emit, fan out, terminalise, claim, post, stamp, prune, ping | events committed between two statements; leases shorter than a batch; late stamps |
| Last-administrator guard (`ID/services/last-admin-guard.ts`) | role bindings, groups, user status | demote, suspend, delete, group changes | check-then-act without a lock |
| Roles, inheritance, permissions (`ID/managers/RoleManager.ts`, `PermissionManager.ts`, `permission-cache.ts`, `SV/utils/cache-coherence.ts`) | role tree, grants, per-process cache of 30 s | setParent, setRolePermissions, resolve | the check of a move is outside the transaction of another; answers computed around a commit |
| Options (`ID/managers/OptionsManager.ts`, `SV/utils/options-coherence.ts`) | option rows, per-process copy without a TTL | get, set, invalidate | a read that started before a write fills the copy after its invalidation |
| Users, tenants, SCIM (`ID/managers/UserManager.ts`, `GroupManager.ts`, `TenantManager.ts`, `SV/routes/users.ts`, `scim.ts`, `tenants.ts`) | users, groups, password history, SCIM key | create, update, import, export, suspend, delete, PATCH | one request is many statements; reach resolved before it is used; batches that fail in the middle |
| Audit (`packages/audit/src`, `SV/utils/audit-anchor.ts`, `audit-verify.ts`) | `audit_logs` hash chain, `audit_chain_anchors`, exported files | buffer, anchor, verify, erase, retain | erasure and retention rewrite what anchors sealed |
| Login, MFA, passkeys, one-time tokens (`SV/routes/auth/*.ts`, `ID/services/LockoutService.ts`, `ID/managers/MfaManager.ts`, `ID/services/FlowTokenService.ts`) | counters and tokens in Redis or in memory, secrets, recovery codes | login, register, verify, step up, consume | counter read and written in two commands; single use; Redis that comes and goes |
| API keys (`ID/managers/ApiKeyManager.ts`) | key rows | create, validate, revoke | keys that could make keys |
| Setup wizard and first start (`SV/routes/setup.ts`, `SV/init.ts`, `SV/middleware/setup-guard.ts`) | in-memory latch, database | create the first administrator, seed, heal | statements that fail or crash in the middle; two nodes |
| Secrets at rest (`ID/services/crypto.ts`, `scripts/re-encrypt.ts`) | encrypted columns, a key pair per node | read, write, rotate the key, rewrite | the script races with requests; the old key is retired too early |
| OIDC provider (`SV/oidc`) | `oidc_adapter_state`, rate counters | upsert, find, consume, revoke grant, decide | consume is not conditional |
| Federated login and logout (`SV/routes/oauth.ts`, `saml.ts`, `oauth-backchannel-logout.ts`, `auth/ldap.ts`) | state entries, links, used logout tokens | callback, link, log out | replays, account linking races |
| Migrations (`packages/migration/src`, `scripts/migrate.sh`) | ledger, advisory lock | script, up, down | crash between apply and stamp; images of different age |
| Health, shutdown (`packages/health/src`, `SV/index.ts`, `SV/app.ts`) | pools, workers | probe, drain, close | loops still running when pools close |
| Admin console (`UI/api/client.ts`, `UI/stores/auth.ts`, login pages) | store of a window, localStorage | sign in, refresh, sign out | one refresh for many requests; windows that share storage |
| Mail, SMS, templates, config, i18n, logging, admin plugin | - | - | no protocol state of their own |

How they interact: routes call managers; managers write PostgreSQL, often inside
a transaction opened by the route (`SV/utils/tx.ts`), emit outbox events in the
same transaction (`ID/services/events.ts`), and delete Redis entries; background
loops (webhook dispatcher, audit anchor, retention sweeper) run in every process
on timers; processes tell one another about stale caches through Redis pub/sub.

## 2. How the project is put together

Three kinds of modules: a *component* (its variables, one action per operation
or statement, its properties), an *MC module* that extends one component and
gives it small instances, and a *proof module* that extends the MC module.
Several MC modules host further components as `INSTANCE`s (*guests*): the
initial state chooses the part a behaviour is about, and the parts it is not about
are parked, that is, they keep their initial state, or the value 0. So one run
asks about several components, and each guest's properties are stated again in
the host, guarded by the part where its variables may be parked.

| Host | Hosts | Proofs |
|---|---|---|
| `MCRefreshTokens` | `RefreshTokens` | `RefreshTokensProofs` |
| `MCConsole` | `RefreshTokens`, `Console`, `Migrations` | `MigrationsProofs` |
| `MCWebhookOutbox` | `WebhookOutbox` (implements `DeliveryLedger`), `Lifecycle` | `WebhookOutboxProofs` |
| `MCAuthState` | `AuthState`, `FederatedLogin` | `AuthStateProofs` |
| `MCLastAdmin` | `LastAdmin`, `Setup`, `SecretStore` | `LastAdminProofs` |
| `MCSignIn` | `SignIn`, `OidcProvider` | `SignInProofs` |
| `MCDirectory` | `Directory` | `DirectoryProofs` |
| `MCAccess` | `Access`, `Options`, `SessionList`, `AuditChain` | `AccessProofs` |
| `MCAuditChain` | `AuditChain` (the run with a violation) | - |

A property that a run checks is often a conjunction of named parts
(`RolesAreSound == LoopsNeedARace /\ NoRoleVanishes /\ KeysComeFromUsers`); each part has a
comment of its own in the module.

## 3. The modules

Every module has one action per statement, or group of statements between which
nothing else matters, so that requests of all processes interleave between
them. Time is an explicit counter advanced by `Tick`. Text, hashes, identifiers
and payloads are model values. A definition whose comment says *Faulty variant* is
not used: it is the bug that the property it is paired with in `PROJECT.json` must
catch. Variables marked *history* are read by properties only.

### RefreshTokens

State: `rows`/`row` is the table `sessions` (created, used, revoked, owner),
`account` and `tenant` are the two status columns, and `pc`, `tok`, `who`, `since`
hold what each request has read and when it started. `parent` and `chain` in a row
are history. A refresh is `Present` (lookup by hash) - `UserDoor` - `TenantDoor` -
`Burn` (the guarded UPDATE) - `Insert`, or, when the burn hits no row,
`Classify` - `BurnFamily` - `ReplyReuse`. A login is `Login` - `TenantDoor` -
`LoginInsert`. Administration is `SuspendUser` followed by `SuspendRevoke` as a
separate step of the same request, `SetStatus`, `RevokeAll`, `RevokeOthers`,
`RevokeSession`, `DeleteUser`, `SuspendTenant` and `ReactivateTenant`; `Sweep` is the
retention sweeper and `Crash` drops a request between any two statements.

### SessionList

The list of a user's sessions that Redis keeps for an hour: `Ask` (the GET) -
`Select` - `Store` on a miss, and writers that change the table and then `Forget` it
(`RevokeAtHome`, `Rotate`), change the table with a manager that has no Redis client
(`RevokeAway`, `Issue`), or forget it before they commit (`SuspendFirst` -
`SuspendLast`). What the list may say wrongly, and for how long, is
`WhatIsKeptIsTrue` and `GhostsFade`.

### WebhookOutbox and DeliveryLedger

State: `event`, `target` are the table `events` (open, terminal or pruned, and
the endpoint of a ping), `endpoint` and `live` the endpoints and their tenant,
`ledger` the table `webhook_deliveries` (status, attempts, time until due); per
process, `pc`, `plan`, `held`, `job`, `since` are where its tick is, what it is about
to insert, the rows it has claimed, the outcome of the POST it is about to
stamp, and how long its batch has been posting. `audience`, `posts`, `acked` and `outlived` (the rows
whose batch went on after their lease) are history.
A tick is `StartTick` (with the prune, of any events: nothing makes one ever be pruned) - `Fanout` - `FanoutInsert` - `Terminalize` -
`Claim` - `Enrich` - then `Post` and `Stamp` for each row. Fanout is two steps because
`INSERT ... SELECT` reads a snapshot: rows that are there by then are skipped, and an
event or endpoint deleted by then fails the statement and ends the tick. A tick
terminalises a second time after its batch (`Terminalize` with "settle").

`DeliveryLedger` is what a reader of the delivery list may rely on: attempts only
grow and stay within the maximum, a settled delivery stays settled, a new one
starts without attempts, and a row disappears only with its event or endpoint. The rows of `late`
are the exception: any outcome of theirs may be revised (`Revise`), attempts and removal hold for them as well.
`WebhookOutbox` implements it with the mapping `Phase`, `Tries`, `outlived`; leases, batches, and
crashes are invisible there.

### Lifecycle

A process from boot to exit: `open` and `ref` are the pools that its parts hold (`Hooked`, the ones a hook
ends, and `Unhooked`, two that stand for those which none does: a plugin's, open from the boot, and a module's, made
on demand),
`memo` and `making` the promise of the managers built on demand, `at` the requests,
`sweep`, `tick`, `anchor` the workers as far as their pools go. `Signal` - `Close` are the
handler of the signal and the `onClose` hooks, one step each; `Die` is the hard exit.
A handler whose client has hung up is not waited for.

### AuthState

One user: `version` is the committed pair of `token_version` and `status`, `entry` the
Redis entry with its remaining life, `stale` how long ago each version was
superseded (history). A mutation is `Bump` (the UPDATE, which takes the row
lock) - `DelInTransaction` - `Commit`, or without a transaction `Bump` - `Commit` -
`LateDel`; `Rollback` abandons it. A request is `Arrive` - `Get` and on a miss `ReadDb` -
`Set`; `ReadDbOnly` and `Skip` are the branches for failing commands.

### FederatedLogin

`person`, `link` and `logins` are the tables `users`, `oauth_accounts` and `sessions` with the
bearer issued next to each session; `asked` the OAuth states and SAML requests a
browser is waiting for, `claimed` where a logout message has been claimed (Redis, or
the memory of a process while Redis is away), `code` the one-time exchange codes. A
callback takes its state, finds the link, or the user by address, or makes a user and
a link in two statements, passes the gates and issues; a logout claims its
message, finds the sessions and revokes them. Signatures, metadata and the LDAP
bind are right or wrong.

### LastAdmin

One tenant: `db` has the statuses, the direct holders of the built-in role, the
group members, the groups bound to the role and the groups there are. A request
is `Check` (the SELECTs and the guard, `Refused`) then `Write`, and `Reinsert` for the
second statement of a role replacement; `Abort` is a crash or an error in
between. Which guard and which write is a matter of `job.op`: one for each of
`UserManager.delete` and `changeStatus`, `RoleManager.revokeFromUser` and
`setUserRoles`, `GroupManager.removeMember`, `delete` and `setGroupRoles`. The
operations without a guard are single steps. Users and groups are never created
here: a new one has no standing. Only the built-in role is modelled, and one per
tenant, as `routes/setup.ts` and `routes/tenants.ts` create it.

### Setup

`account`, `role`, `bound` are what the first administrator consists of, in the database;
`latch` is `setupInProgress` of each node, `task` what a visit or a starting node
is about to do. The wizard and the bypass of the environment run the same
statements in different orders; statements fail and nodes crash between them,
and a node that is up heals the seeds a limited number of times (`Probes`).
`Complete` is the wizard's last call, which issues tokens.

### SecretStore

`stock` is the encrypted columns, each value with the form it is written in, its key
and its secret; `env` the key pair of each node, `config` the one a node gets at its
next start, `pass` the script with what it has read of the column it is at. The
operator's steps are `NewKey`, `Restart`, `Script` (dry or for real, row by row with one
commit for a column), `Retire`.

### SignIn

One account: its row, recovery codes and passkey, the flow tokens (`flow`) that carry
a client from one endpoint to the next, the lockout counter in Redis and in the
memory of each process (`fails`), and per request where it is. Passwords, mail links, SMS
codes, passkeys and LDAP enter; the gates before a session are the status, the
tenant, the verified address, the forced password and the second factor.
A deployment (`Sites`) says what is switched on. `Waste` is a token that expires or is
presented at an endpoint it is not for. Where the Redis of a deployment knows GETDEL (`site.getdel`) a token is
consumed in one step (`Consume`, `Exchange`), else by `Read` (GET) and then the DEL, as `consume` does for old
servers and clients. `FederatedLogin` takes its tokens in one step.

### OidcProvider

`table` is the adapter's table: interactions, grants, codes, access and refresh tokens
with their grant; `hits` the counters of the rate guard. The console's decisions
(`Decisions`) read an interaction, write the grant and the result in
statements of their own; what the oidc-provider library does (resuming, redeeming,
noticing a replay) is modelled from how it calls the adapter, and marked external.

### Directory

`user`, `group`, `admin`, `history` are the tables of a tenant; a request runs one
statement, or one transaction, at a time. `UserStep` has the console's and the
managers' requests with imports (row by row) and exports (page by page, at most `MaxPages`: the code's cap of
50,000 rows is a hundred pages of 500),
`PasswordStep` the four ways to set a password and the pruning of the history,
`ScimStep` the SCIM clients with PATCH as a sequence of operations, `TenantStep` the
platform. `trail` is what the history of passwords should hold.

### Access

`role`, `bound`, `userRoles`, `groupRoles` are the tables; `walk` on each node an answer
being computed (`Begin` - `AddGroups` - `Climb` for every role - `Keep`), `cache` the answers with what
is left of their life, `news` the announcements on their way. An edit is a job of
several steps: `PutCheck` - `PutWrite` (with the invalidation, before the end of the
transaction) - `PutCommit`; `CreateRow` - `CreateBind`; `DeleteCount` - `DeleteRow`;
`SetRolesClear` - `SetRolesAdd`. `Above` is what a role inherits from, stated as a least
set instead of a climb. `doubt`, `quiet`, `overlapped` and `kept` are history.

### Options

`table`, a `copy` of all of it on each node, rows that have been read and not been kept
yet (`loading`), writes that are committed and not announced (`writing`).

### AuditChain

`buffer` and `flight` are entries on their way, `row` the table, `anchors` the chain, `file`
the export. `TryLock` - `Fold` - `ExportLine`... - `ExportDone` is a tick of the worker: `Fold` is
its transaction, which backfills hashes and folds all rows that are due; a row's `Place` among
them says which `RollOf` rows it goes to, and each roll becomes an anchor. `EraseLock` - `EraseReceipt` - `EraseWrite` is an erasure, `Sweep`
the retention (it takes no lock), `Verify` - `CheckAnchor` - `Watchdog` - `Report` the verifier (`Staleness`: what the watchdog
finds, and whether a run of the worker has missed it), `Alter` an edit by hand. A hash
stands for the row it was computed over.

### Console

`mem` is the store of each window, `disk` what localStorage has, `call` the requests in
flight, `flight` the one refresh a window makes for all of them, `row` the state of each
refresh token on the server. JavaScript runs to completion between awaits, so an action is
what runs from one answer to the next await.

### Migrations

`schema` is what the database has, `ledger` what is recorded, `holder` the advisory
lock, `run` each process with the files it has left. The script is
`Lock` - `Stamp` - `Probe` - `ApplyFile`... - `CheckSentinels`; the manager is
`Plan` - `ExecuteMigration` or `RollbackMigration`. A file and its ledger row are one transaction.

## 4. The runs

| Run | Instance | Shows |
|---|---|---|
| `refresh_doors` | 1 user in a tenant that can be suspended, 2 tokens, 2 requests, sweep and idle tiers | a shut account gets nothing new; a dead line of rotations stays dead; types |
| `console` | 3 tokens and 2 requests; or 1 or 2 windows with 2 requests each; or 2 processes and 3 files | no token has two successors, only a replay burns a family; sessions of a browser survive their own races; replicas end with one schema |
| `sign_out` (violation) | 1 window | a sign-out with an expired bearer leaves a usable token |
| `webhook` | 1 event, 1 endpoint, 2 processes, 1 crash, batches of up to 3 ticks under leases of 2; or 1 process with 2 requests | partition as long as leases last, counted POSTs, true outcomes, the ledger; settling without the help of pruning; pools, and an end to every shutdown |
| `webhook_missed` (violation) | 1 process | an event committed between fan-out and terminalisation gets no deliveries |
| `auth_state` | 2 requests and 2 mutations with outages; or 2 users, 5 accounts in 12 workloads | verdicts are no older than the TTL and a request; logins and logouts by providers |
| `last_admin` | 2 users, 2 groups, 2 requests; or 2 nodes and 2 visits; or 2 secrets and 1 rotation | guards without need refuse nothing, lone requests keep an administrator; the first administrator; no secret is lost |
| `key_rotation` (violation) | 2 secrets, 1 rotation | the documented rotation retires a key that rows still need |
| `sign_in` | 2 requests in 11 deployments, 2 of them without GETDEL; or 2 users, 4 rows and 2 requests of the provider | tokens and codes are one-time, gates hold, wrong guesses count |
| `directory` | 2 users, 1 group, 2 requests in 7 workloads; 3 users and a cap of 2 pages of 1 row for exports | reports are true, exports whole up to their cap, reach is respected, old passwords stay out |
| `access` | 1 user, 3 roles, 2 editors, 2 nodes, in 5 scenes; options; 2 sessions and 2 callers; 3 audit entries (2 where rows are swept or edited) in 7 scenes | answers are fresh, roles sound, copies true; the audit log whole and its verifier right |
| `audit_retention` (violation) | 3 entries | a sweep in the middle of a day makes the verifier alarm |

**Bounds.** Two requests (or processes) suffice for every race between two
read-then-write sequences, and the actors that are a single step (crashes,
revocations, sweeps, unguarded grants, event producers) come on top of them.
Three tokens are a line of rotations of length three, or two lines that race. A
clock of 3 or 4 with lifetimes of 1 and 2 passes every comparison on both sides;
the constants keep the order of the real ones where the code relies on it
(`Grace` against `Latency`, `Ttl` against `Grace`); a batch may outlast its lease, as in the code. The
constraint `SmallTenant` of `directory` keeps the third user out of the workloads without exports. Two
attempts show a retry and the last attempt. Three roles are a role, a parent and
one that moves under either; two of them can move at a time. Three audit entries in
batches of two are a full batch and a rest over two days. `Max...` constants are the only caps
(`MaxAttempts`, `MaxFailures` and the length of the chain of files are the code's own), beside `Token`,
`Session`, `Code`, `RowId`, which bound how many of those there ever are. Scenes, sites,
workloads and plots keep a run small by letting few kinds of things happen in one behaviour;
each contains the actors that can disturb one another. Interchangeable values are
reduced by symmetry, but not in the runs with liveness.

**Fairness** is assumed in two runs. In `webhook`, `FairHouse` says that the timers of
the processes keep firing (`setInterval` in `startWebhookDispatcher`), that a tick
which has started goes on (every await in it ends: the POST has a timeout), and
that time passes; and for a process that shuts down, that a hook, a handler, a manager
under construction and a worker's statement come to an end. Nothing makes a signal or a
request arrive. The crash budget is finite: a dispatcher that dies in each tick
settles nothing. `EveryDeliverySettles` gets no help from pruning, which may never happen. In `access`, a walk that has begun goes on (`AddGroups`, `Climb`, `Keep`):
it is a chain of awaited queries.

**Deadlock** is checked except in `refresh_doors`, `console`, `sign_out`, `access` and
`audit_retention`, where the clock or the tokens run out and a console or a migration is
done. Three guests stop at their bounds and are allowed to stutter instead: the
provider when all rows are used, the secrets when all keys are, a process when it is gone.

## 5. Findings

Four runs end in a violation, each of something the repository says of itself;
`PROJECT.json` quotes the line.

* `webhook_missed`: fan-out and terminalisation are two statements; an event that commits
  between them is marked terminal and reaches nobody.
* `audit_retention`: the sweep marks anchors by the day and deletes rows by the moment.
* `key_rotation`: the script takes every v2 row for current, whatever its key.
* `sign_out`: the request that signs out is sent again, after a refresh, with the token
  that the refresh has spent.

Others have been met while reading and modelling. The properties state what is true in
spite of them (the condition under which they bite is excluded by name), and the
hazard list points at the lines.

*Tokens and sessions.* A replay classified between the burn and the INSERT of its own line
revokes what is there and misses the successor. A refresh served more slowly than the
grace window turns a double-fire into a family burn, so `FamilyBurnMeansReplay`
needs `Latency <= Grace`. The tenant gate fails open when its lookup fails
(`LookupFails`, in no run; `ShutUsers` assumes it away). A row that a rotation has used stays
in the session list. Only the manager of `SV/routes/auth.ts:64` is built with Redis;
those of `users.ts:23`, `scim.ts:625`, `saml.ts:55`, `oauth.ts:199`, `webauthn.ts:81` and
`oauth-backchannel-logout.ts:48` leave the kept list stale for up to an hour, although
`SessionManager.ts:64` calls the deletion the correctness mechanism; a suspension deletes it before
its COMMIT. Tokens made by the OIDC provider carry no token version.

*Webhooks.* Deliveries of a suspended tenant that were queued before are still
posted; a ping's event can be terminal before its delivery is there; a batch of slow
receivers (25 POSTs of up to 10 s under a lease of 60 s) outlives its lease. Then another process claims
the same rows, both post them, and whichever UPDATE comes last, by id alone, decides: a row that was delivered
can go back to pending or be dead. `Partitioned` says that two dispatchers share no other rows, and the ledger
that no other outcome is revised; that each POST is counted, and that a delivered row was acknowledged, hold for all.

*Administrators and the first start.* Two overlapping removals can leave no
administrator (`last-admin-guard.ts:34`). `setGroupRoles` counts suspended members as
remaining administrators (`GroupManager.ts:367`). With the environment bypass, a role
assignment that fails leaves a user who closes the wizard and administers
nothing (`setup.ts:37`), where `init.ts:6-7` says that the wizard takes over; a wizard that is inside already
makes a second administrator; the fallback of `setup.ts:295-307` is never reached.

*Sign-in.* `mfa-policy.ts:40` calls the enrollment gate a "shared arm used by every login completion site", and
`docs/superpowers/specs/2026-09-23-q3e-policy-trio-design.md:23,35,51` counts seven arms. It is called after a password
(`login.ts:138`) and a passkey (`webauthn.ts:356`), and the OAuth and SAML callbacks ask the same question
(`oauth.ts:547`, `saml.ts:370`); links by mail, SMS codes and LDAP never do, so
that a user who must enroll signs in by them without a second factor. `NoGateIsSkipped` lists the ways in that have
each gate (`HaveEnrollment`, ...). On a Redis before 6.2, or with a client without `getdel`, two
overlapping requests both open with one flow token (`FlowTokenService.ts:78-90`), and two captcha checks with one
answer: `TokensOpenOnce` allows one opening for each request there, and none later.
The wizard arm of `mfa.ts:144` does not ask for a verified address. Two
requests that compare the same recovery code are both accepted. The lockout counter is
read and written in two commands, so that concurrent failures count once.

*Federated login and logout.* A built-in link outlives its user (`UserManager.delete` leaves
`oauth_accounts`) and refuses its owner from then on (`oauth.ts:300`); a crash between the user
and the link locks an account without an address out. Back-channel logout is not all-or-nothing
(`oauth-backchannel-logout.ts:104`), and a SAML logout whose revocation fails is refused as
a replay when it is retried. A SAML login goes by the address the provider asserts (`SamlProvider.ts:153`), a SAML
logout looks its user up by the nameID as an address (`saml.ts:271`). Where the two differ it ends nobody's
sessions, or those of the user whose address the nameID happens to be, and answers as if it had worked; the promise
of `PromisesKept` is for the accounts whose nameID is the address (`InReach`).

*OIDC provider.* `adapter.ts:116-118` calls find and consume an atomic pair; they are two statements
and two overlapping redemptions both succeed. `clients.ts` takes http for a back-channel URI when a client is
created and insists on https when it is changed.

*Secrets.* The script writes back by id what it read before, over a rotation in between.
The runbook's "nodes still on the old pair keep working" is not true of rows written with
the new key.

*Audit.* A row about a person that arrives while the person is erased is
missing from the receipt (`UserManager.ts:379`). The watchdog fails the check of an honest log: it allows rows 90 s
(`audit-verify.ts:212-226`) and the worker comes every 300 s, so between two runs rows are "unanchored" and `chainOk`
is false. `HonestLogVerifies` allows that for rows no run could have folded yet, and forbids it for rows that a run
has left behind. Nothing waits for the anchor worker when a process stops.

*Roles.* The cycle check reads outside the transaction, so two overlapping moves close a
loop; the walk survives it. An assignment that lands between the count and the
DELETE of a role is cascaded away. The invalidation is sent inside the transaction of an edit, and
an answer computed before its end lives for the whole life of an entry.

*Options.* A copy whose load raced with a write keeps the old value until the next write, where
`docs/runbooks/multi-node.md:63` expects the new one at once unless Redis is down.

*Console.* A second window with an old refresh token burns the family once the grace
window is over; a wrong MFA code or password answers 401 and signs the user out although
`stores/auth.ts:162-163` says that the flow token is kept; a refresh in flight brings a session back after
`logout()`; `MagicLogin.tsx` has no guard against exchanging twice.

*Migrations and shutdown.* A crash between the stamp and the sentinels silences the
warning for good. The manager swallows an unreadable directory, skips missing and
duplicate files, and `downTo` an unknown version rolls everything back; its `lockTimeout` is unused.
Handlers whose client hung up and the self-healing of the seeds are not awaited at
shutdown. `app.ts:332` means to keep "buildApp createDb-count at zero", but `buildApp` opens a pool for the OIDC
adapter (`app.ts:292`), the audit log (518) and the OIDC clients (605), and so do the plugins (`users.ts:32`,
`oauth.ts:198`, `saml.ts:55`, `webauthn.ts:80`); no hook ends any of these, and `closeBackchannelLogoutPool` is called by a
test only (`oauth-backchannel-logout.ts:38-44` speaks of a "Test/onClose seam"). They end with the process.
`ExitLeavesUnhooked` says that an orderly exit leaves these open and no other. Every file of the
modelled script has a sentinel; `migrate.sh:109-122` has them from 0004 on.

*Users.* An export of more than 50,000 users ends at the cap and does not tell (`users.ts:175,192,199`); `ExportIsComplete`
asks for the first `MaxPages` pages.

## 6. What is proved

TLAPS checks the following for all values of the constants that satisfy the named
assumption of the module, hence for any number of users, requests, processes, rows and
times. Each proof module has, for its component and every guest of its host,
an inductive invariant (`Inv`, `...Inv`), one lemma for each action, and theorems
that combine them. The type invariant alone does not do: what a request does later
depends on what it read earlier, and only the stronger invariant relates the two.

| Theorem and its property | Module | Along which argument |
|---|---|---|
| `TypeCorrect`: `TypeOK` of the host | `RefreshTokens-`, `WebhookOutbox-`, `AuthState-`, `LastAdminProofs` | shapes and foreign keys, strengthened by what follows |
| `SingleUse`: `AtMostOneSuccessor` | `RefreshTokensProofs` | a row that has a successor, or whose burner has yet to insert it, is used, and no two requests hold the same burn |
| `DeadChains`: `DeadChainsStayDead` | `RefreshTokensProofs` | a line of rotations with nothing usable left, and nothing on its way to an INSERT, gains no row: a successor only comes from a burn, and a burn needs a usable row |
| `FamilyBurn`: `FamilyBurnMeansReplay` | `RefreshTokensProofs` | with `Latency <= Grace`: what a request in flight has seen used was used after it started |
| `ShutUsers`: `ShutUsersAreFrozen` | `RefreshTokensProofs` | with `LookupFails = FALSE`: what each request has passed of the two doors, and when they were shut |
| `OneDispatcherPerDelivery`: `Partitioned` | `WebhookOutboxProofs` | `Leases`: as long as a batch has not outlived its lease, what is left of the lease of a row worked on, plus the time its batch has been posting, is at least a whole lease, so the row is not due |
| `EveryPostCounted`: `PostsCounted` | `WebhookOutboxProofs` | for finitely many processes. `Counted`: until a row has used all its attempts, its POSTs and the processes that hold it and have yet to post it are no more than the attempts counted at the claims |
| `DeliveredIsTrue`: `DeliveredMeansAcked` | `WebhookOutboxProofs` | `Posts`: a stamp says delivered only if its receiver acknowledged, whoever stamps last and however late |
| `ImplementsLedger`: `LedgerSpec` | `WebhookOutboxProofs` | each step is, for each delivery, one of the ledger's (`LedgerStep`); a stamp that meets a settled row comes from a batch that has outlived its lease; a row that has been worked on and is missing is gone for good (`Gone`) |
| `PoolsHold`: `PoolsServeTheWork` | `WebhookOutboxProofs` | `LifeInv`: who holds which pool at each hook of the shutdown, one manager under construction that the memo knows, a tick that has not ended keeps its pool, and the pools without a hook stay open |
| `RevocationInTime`: `RevokedInTime` | `AuthStateProofs` | `RowLock` and `EntryAge`: an entry, and a version about to be cached, were current when they were read, so the time since their supersession plus the remaining life is at most `Ttl + Latency` |
| `RefusalInTime`: `RefusedOnlyAfterChange` | `AuthStateProofs` | the same, and that older versions were superseded earlier |
| `LoginsHold`: `LoginsAreSound`; `LogoutsEnd`: `LogoutsHold`; `RefusalsHold`: `RefusalsAreExplained` | `AuthStateProofs` | `FederationInv`: what a callback carries at each place (`Carries`), what a session says of its user (`Sound`), that versions only rise (`PromisesLast`), and that claims are counted process by process |
| `RefusalsDue`: `RefusalsAreDue` | `LastAdminProofs` | foreign keys; one lemma per guard (`RefusedOrphans`) |
| `LoneRequests`: `LoneRequestKeepsAnAdmin` | `LastAdminProofs` | `Guarded`: as long as nobody else writes, the guard that let a request through still holds (`PassedKeeps`) |
| `WizardHolds`: `WizardIsSound`; `RetriesHold`: `RetriesSucceed` | `LastAdminProofs` | `WizardInv`: a user who is no administrator yet has a visit that will make one, or is recorded as left behind; a latch that is up belongs to one visit of its node |
| `SecretsHold`: `NoSecretIsLost` | `LastAdminProofs` | `KeysOnlyRise`: nothing is written with a key that is not configured yet; `ScriptIsThorough`: the columns behind the script are converted or counted as failures |
| `TokensHold`: `TokensOpenOnce`; `GatesAreHeld`: `GatesHold`; `FactorsAreUsedUp`: `FactorsAreSpent` | `SignInProofs` | a token is opened once, or by requests that had read it before it was gone; what each place of a request implies about the gates behind it (`GatesAreAhead`), the codes it has compared, and the passkey count it is about to write (`CountsFollow`) |
| `GuessesAreBounded`: `GuessesAreCounted` | `SignInProofs` | for finitely many requests at a time: failures written, plus requests between their comparison and their strike, bound the guesses |
| `ProviderHolds`: `ProviderIsSound` | `SignInProofs` | `ProviderInv`: rows agree with the grant they belong to and requests with the row they read, one code for each interaction, and the guard's passes are counted by its slots |
| `BatchesHold`: `BatchesAreWhole`; `ScopesHold`: `ManagersStayInScope`; `OldPasswordsHold`: `OldPasswordsStayOut`; `AdministratorsHold`: `AdministratorsAreMeant` | `DirectoryProofs` | `AllCarry`: what a request has collected agrees with the tables as long as it is alone, by its place in the handler; `KeysHold`: foreign keys |
| `CopiesHold`: `CopiesAreTrue` | `AccessProofs` | `SettingsInv`: with nothing under way, a copy or a load that differs from the table is one a race is recorded for; `SessionsInv`: a list and its table differ only in sessions that somebody is about to delete the list for, or that a writer without Redis has touched, and no kept list outlives its hour |
| `RolesHold`: `RolesAreSound` | `AccessProofs` | `RolesInv`: what a check of a move found holds until the move unless moves overlap (`ClearMoves`), moves under way at once are noted (`OverlapsAreNoted`), so that a new loop goes through a role that is noted; and what is held when it is counted is refused. The lemmas on `Above` (a closed set, the least one, what one change of a parent does to it) replace induction over the climb |
| `AnswersHold`: `AnswersAreFresh` | `AccessProofs` | `FreshInv`: a walk that began after the last change, or is not doubted, is on track, that is, what it has not heard yet lies above a role it will still come to (`OnTrack`); the time since the last change plus what is left of an answer's life says how old it may be (`AnswersAreRight`); while an edit waits for its commit, every answer that is kept is doubted or about to be dropped (`WritesAreTold`) |
| `LogHolds`: `LogIsWhole` | `AccessProofs` | `LogInv`: all that is still to be folded is younger than, or as old as, the day of every anchor (`AnchorsAreOrdered`), since entries arrive within the grace window. Lemmas on places and rolls (`PlacesRise`, `PlacesFill`, `RollsAre`) show that a fold cuts the pending rows into rolls that are not empty and follow each other in time; `AddAnchorsAre` and `NewestIs` that the new anchors follow the old ones in day and number |
| `VerifierHolds`: `VerifierIsRight` | `AccessProofs` | the same: a root is the set of the rows in its anchor unless a sweep has split a day (`RowsMatchAnchors`), the receipt is what the erasure will leave or has left (`ReceiptIsRight`), a complaint has one of its reasons, and an edited row is in an anchor that is still to be read or has been complained of (`CheckIsRight`) |
| `ErasureHolds`: `ErasureLeavesTheProofs` | `AccessProofs` | the same invariant; one lemma each for the hashes and anchors that stay (`ProofsStay`) and the person that does not (`PersonForgotten`) |
| `ChainHolds`: `ChainIsApplied` | `MigrationsProofs` | `ChainInv`: a session that stamps, probes or applies holds the lock; what is to do is above what is done |
| `ConsoleHolds`: `RefreshesCostNoSession` | `MigrationsProofs` | `BrowserInv`: a window alone has the newest token of its session or waits for it; with two windows one of them has |

**Assumptions.** `Latency <= Grace` is a hypothesis of the theorem that needs
it, not an assumption of the module: the code does not make it certain (section 5). So are
`LookupFails = FALSE` of `ShutUsers`, and that there are finitely many processes of `EveryPostCounted`, of `TokensHold` and of
`GuessesAreBounded`. `FederationAssumption` says that a SAML account asserts addresses, and a nameID that may be one of them,
another, or none. The `ASSUME`s of the hosts say that sets of
processes are finite where something is counted, that a null value is no member of the set it stands
for, and that bounds are natural numbers; TLC evaluates them in the runs. `PowerAssumption`
of `WebhookOutbox` (powers of two are natural numbers) is arithmetic that the provers
do not know. `LifecycleAssumption` bounds the managers under construction from below (two: the one
the shutdown has forgotten, and the next). `LogAssumption` has `MaxDelay <= Grace`: an entry reaches the
table within the grace window of 90 s, of which it spends 5 s at most in the buffer
(`packages/audit/src/types.ts:147`); the code relies on that and enforces it nowhere, so a database that
refuses the flushes for longer than the window is outside the theorems of the log. `LogScenes`, what
happens together in the log, is any set of sets: the run takes seven, the theorems hold for all.

**Only model-checked.** Liveness, which is out of the prover's reach under fairness: `EveryDeliverySettles`,
`ShutdownEnds`, `AnswersCome`. Every safety property and every action property of the passing
runs has a theorem. The four
properties of the runs with a violation are false.

## 7. What is not modelled

`PROJECT.json` lists every component with its state and the reason. Formatting, HTTP
schemas, ciphers and signatures carry no protocol state. The OIDC, SAML and LDAP
libraries are external. Managers whose operations are single statements (plain
CRUD) are left to the tests; their side effects on sessions, caches and
administrators are part of the modules above. The branches for secrets that cannot be decrypted
(`Unreadable`) and for failing lookups of the tenant (`LookupFails`) are covered by the proofs and by no run.
The package `packages/health` is registered by nothing (`SV/app.ts:617`).
