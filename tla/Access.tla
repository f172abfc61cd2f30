------------------------------- MODULE Access -------------------------------
(***************************************************************************)
(* Roles, what they inherit, and what a user may do: RoleManager keeps the *)
(* tables, PermissionManager walks them and keeps each answer for Ttl in a *)
(* cache of its own node, and an edit drops cached answers on its node and *)
(* tells the other nodes through Redis.  The walk is many queries and an   *)
(* edit several statements, so that both may happen at once.  One tenant.  *)
(*                                                                         *)
(* A grant is the width of a binding: 1 self, 2 dept, 3 all, 0 none.       *)
(***************************************************************************)
EXTENDS Integers, FiniteSets, FiniteSetsExt

CONSTANTS
  Node,
  Asked,      \* bound: the nodes that users turn to
  User, Role, Perm, Editor, Key,
  Admin,      \* the tenant's seeded administrator role
  Member,     \* the users in the tenant's group
  Offer,      \* bound: the bindings requests ask for
  Bindable,   \* permissions a tenant other than the default one may bind
  KeyPerm,    \* apikeys:write
  Ttl,        \* PERMISSION_CACHE_TTL_MS
  MaxEdits,   \* bound: edits
  Scenes      \* which kinds of edits happen, in which tenant

ASSUME AccessAssumption ==
  /\ Asked \subseteq Node /\ Admin \in Role /\ Member \subseteq User /\ Bindable \subseteq Perm /\ KeyPerm \in Perm
  /\ Editor \subseteq Nat /\ Ttl \in Nat \ {0} /\ MaxEdits \in Nat
  /\ Role # {Admin} /\ Role \cap {"none", "same"} = {} /\ Key \cap (User \cup {"none"}) = {}
  /\ Offer \subseteq [Perm -> 0..3] /\ \A s \in Scenes : ~ {"create", "moves"} \subseteq s

None == "none"
Same == "same"   \* a field a request does not mention

Bare == [p \in Perm |-> 0]
Grants == [Perm -> 0..3]

VARIABLES
  scene,
  role,       \* the table roles: a parent and the system flag
  bound,      \* role_permissions
  userRoles, groupRoles,
  key,        \* the table api_keys
  job,        \* edits in progress
  walk,       \* on each node, an answer being computed
  cache,      \* on each node, the answers and what is left of their life
  news,       \* invalidations on their way to a node
  edits,      \* bound: edits begun
  quiet,      \* history: time since the tables last changed
  doubt,      \* history: answers a race may have left stale
  overlapped, \* history: roles moved while another move was under way
  kept        \* history: has every deleted role been free when it was counted?

tables == <<role, bound, userRoles, groupRoles>>
answers == <<walk, cache, news>>
past == <<quiet, doubt, overlapped, kept>>
vars == <<scene, tables, key, job, answers, edits, past>>

Unborn == [state |-> "unborn", parent |-> None, sys |-> FALSE]
Gone == [Unborn EXCEPT !.state = "gone"]
Live(r) == r \in Role /\ role[r].state = "live"
Parent(r) == IF Live(r) THEN role[r].parent ELSE None

Idle == [op |-> "idle", at |-> None, r |-> None, u |-> None, parent |-> Same,
         grants |-> Bare, set |-> {}, late |-> FALSE]
NoWalk == [u |-> None, phase |-> "idle", todo |-> {}, at |-> None, seen |-> {}, got |-> Bare, slow |-> FALSE]
NoEntry == [got |-> Bare, life |-> 0]
NoKey == [state |-> "none", by |-> None]

Whole == [p \in Perm |-> IF "default" \in scene \/ p \in Bindable THEN 3 ELSE 0]

\* The other roles are alike.
Low == CHOOSE r \in Role : r # Admin

\* The administrator role has what the tenant may bind; the others nothing yet.  One role
\* may be held, by somebody or by the group (by the group, where roles move), and another
\* one be above it.
Init ==
  /\ scene \in Scenes
  /\ \E top \in Role \cup {None} :
       /\ top # Low
       /\ role = [r \in Role |-> IF r = Admin THEN [state |-> "live", parent |-> None, sys |-> TRUE]
                                 ELSE IF "create" \in scene THEN Unborn
                                 ELSE [state |-> "live", parent |-> IF r = Low THEN top ELSE None, sys |-> FALSE]]
       /\ userRoles \in IF "keys" \in scene THEN {User \X {Admin}} ELSE IF "moves" \in scene THEN {{}}
                        ELSE {{}} \cup {{<<u, Low>>} : u \in {v \in User : Live(Low)}}
       /\ groupRoles \in IF "moves" \in scene THEN {{Low}}
                         ELSE IF userRoles = {} /\ Live(Low) THEN {{}, {Low}} ELSE {{}}
  /\ bound = [r \in Role |-> IF r = Admin THEN Whole ELSE Bare]
  /\ key = [k \in Key |-> NoKey]
  /\ job = [e \in Editor |-> Idle]
  /\ walk = [n \in Node |-> NoWalk]
  /\ cache = [n \in Node |-> [u \in User |-> NoEntry]]
  /\ news = {} /\ edits = 0 /\ quiet = 0 /\ doubt = {} /\ overlapped = {} /\ kept = TRUE

-----------------------------------------------------------------------------
(* What the tables grant *)

Pair(x, y) == IF x > y THEN x ELSE y

\* Faulty variant: the later of two bindings wins.
LastWins(g, h) == [p \in Perm |-> IF h[p] = 0 THEN g[p] ELSE h[p]]

\* mergeWidestScope, permission by permission.
Merge(g, h) == [p \in Perm |-> Pair(g[p], h[p])]

\* A role and what is above it: what no set that has the role, and all parents of its members, leaves out.
Above(r) ==
  {s \in Role : \A S \in SUBSET (Role \ {s}) : r \in S => \E x \in S : Parent(x) \notin S \cup {None}}

WithParents(S) == S \cup ({Parent(r) : r \in S} \ {None})
Direct(u) == {r \in Role : <<u, r>> \in userRoles}
ViaGroup(u) == IF u \in Member THEN groupRoles ELSE {}

\* The meaning of it all: what some role of the user, or a role above it, binds.
Effective(u) ==
  LET all == UNION {Above(r) : r \in Direct(u) \cup ViaGroup(u)}
  IN  [p \in Perm |-> Max({0} \cup {bound[r][p] : r \in all})]

-----------------------------------------------------------------------------
(* The cache *)

Doing(e, op, at) == job[e].op = op /\ job[e].at = at

Cached(n, u) == cache[n][u].life > 0
Walking(n, u) == walk[n].phase # "idle" /\ walk[n].u = u

\* Faulty variant: the other nodes are not told.
DropHere(n, us) ==
  /\ cache' = [cache EXCEPT ![n] = [u \in User |-> IF u \in us THEN NoEntry ELSE @[u]]]
  /\ news' = news

\* invalidatePermissionCache on node n, for the users us: local entries and an announcement to all nodes;
\* those that nobody asks have nothing to drop.
Drop(n, us) ==
  /\ cache' = [cache EXCEPT ![n] = [u \in User |-> IF u \in us THEN NoEntry ELSE @[u]]]
  /\ news' = news \cup {[to |-> m, us |-> us] : m \in Asked}

\* An announcement arrives, if Redis delivers it.
Hear(m) ==
  /\ m \in news
  /\ news' = news \ {m}
  /\ \/ /\ cache' = [cache EXCEPT ![m.to] = [u \in User |-> IF u \in m.us THEN NoEntry ELSE @[u]]]
        /\ doubt' = doubt \ {<<m.to, u>> : u \in {v \in m.us : ~ Walking(m.to, v)}}
     \/ cache' = cache /\ doubt' = doubt \cup {<<m.to, u>> : u \in m.us}
  /\ UNCHANGED <<scene, tables, key, job, walk, edits, quiet, overlapped, kept>>

\* A change: answers that are being computed may be wrong and stay so.
Changed(us) ==
  /\ quiet' = 0
  /\ doubt' = doubt \cup {x \in Node \X us : Walking(x[1], x[2])}

-----------------------------------------------------------------------------
(* getUserEffectivePermissions: a miss walks the tables *)

\* getUserRoles and its parents.
Begin(n, u) ==
  /\ walk[n].phase = "idle" /\ ~ Cached(n, u)
  /\ walk' = [walk EXCEPT ![n] = [NoWalk EXCEPT !.u = u, !.phase = "groups",
                                    !.todo = WithParents(Direct(u))]]
  /\ doubt' = doubt \ {<<n, u>>}
  /\ UNCHANGED <<scene, tables, key, job, cache, news, edits, quiet, overlapped, kept>>

\* getEffectiveRoles adds what the groups grant.
AddGroups(n) ==
  /\ walk[n].phase = "groups"
  /\ LET found == ViaGroup(walk[n].u)
     IN  walk' = [walk EXCEPT ![n] = [walk[n] EXCEPT !.phase = "walk", !.todo = walk[n].todo \cup WithParents(found)]]
  /\ UNCHANGED <<scene, tables, key, job, cache, news, edits, past>>

\* Faulty variant: the cursor stays where it is, under a role that has a parent.
NextStays(r, seen) == IF Parent(r) = None THEN None ELSE r

\* Where resolveInheritedPermissions goes next: never to a role it has seen.
NextUp(r, seen) == IF Parent(r) \in seen \cup {r} THEN None ELSE Parent(r)

\* One role on the way up: its bindings and its parent.
Climbed(w, r) ==
  LET up == NextUp(r, w.seen)
  IN  [w EXCEPT !.got = Merge(@, bound[r]), !.todo = IF w.at = None THEN @ \ {r} ELSE @,
                !.at = up, !.seen = IF up = None THEN {} ELSE @ \cup {r}]

Climb(n) ==
  /\ walk[n].phase = "walk"
  /\ \E r \in (IF walk[n].at = None THEN walk[n].todo ELSE {walk[n].at}) :
       walk' = [walk EXCEPT ![n] = Climbed(walk[n], r)]
  /\ UNCHANGED <<scene, tables, key, job, cache, news, edits, past>>

Keep(n) ==
  /\ walk[n].phase = "walk" /\ walk[n].todo = {} /\ walk[n].at = None
  /\ walk' = [walk EXCEPT ![n] = NoWalk]
  /\ cache' = [cache EXCEPT ![n] = [@ EXCEPT ![walk[n].u] = [got |-> walk[n].got, life |-> Ttl]]]
  /\ doubt' = IF \E e \in Editor : Doing(e, "put", "written") THEN doubt \cup {<<n, walk[n].u>>} ELSE doubt
  /\ UNCHANGED <<scene, tables, key, job, news, edits, quiet, overlapped, kept>>

Compute(n) == (\E u \in User : Begin(n, u)) \/ AddGroups(n) \/ Climb(n) \/ Keep(n)

-----------------------------------------------------------------------------
(* Edits of roles *)

InLoop(r) == Parent(r) # None /\ r \in Above(Parent(r))

\* Faulty variant: the climb is not told which role is being moved.
LoopingAbove(p, r) == p # None /\ \E x \in Above(p) : InLoop(x)

\* checkInheritanceCycle: climbing from p closes a cycle at r, or finds one.
Looping(p, r) == p # None /\ (r \in Above(p) \/ \E x \in Above(p) : InLoop(x))

\* What setRolePermissions accepts.
MayBind(g) == "default" \in scene \/ \A p \in Perm : g[p] > 0 => p \in Bindable

\* Editors are alike: the first idle one begins.
Free(e) ==
  /\ edits < MaxEdits /\ edits' = edits + 1
  /\ job[e].op = "idle" /\ \A x \in Editor : job[x].op = "idle" => e <= x
Done(e) == job' = [job EXCEPT ![e] = Idle]

\* The row lock that the UPDATE of an open transaction holds; built-in roles are PutCheck's ~role[r].sys.
Locked(r) == \E e \in Editor : Doing(e, "put", "written") /\ job[e].r = r

Moving(e) == job[e].op = "put" /\ job[e].parent \notin {Same, None}

\* PUT /roles/:id, up to the first write: setParent's checks, then update's.
PutCheck(e) ==
  /\ Free(e)
  /\ \E r \in Role, p \in Role \cup {None, Same}, g \in {"keep", "bind"}, w \in Offer \cup {Bare} :
       /\ Live(r) /\ ~ role[r].sys
       /\ p \in Role => Live(p) /\ ~ Looping(p, r)
       /\ g = "bind" => MayBind(w)
       /\ g = "keep" => w = Bare
       /\ p # Same => "moves" \in scene
       /\ g = "bind" => "roles" \in scene
       /\ p # Same \/ g = "bind"
       /\ job' = [job EXCEPT ![e] = [Idle EXCEPT !.op = "put", !.at = "checked", !.r = r,
                                       !.parent = p, !.grants = w, !.set = {g}]]
       /\ overlapped' = IF p \in {Same, None} THEN overlapped
                        ELSE overlapped \cup UNION {{r, job[x].r} : x \in {y \in Editor \ {e} : Moving(y)}}
  /\ UNCHANGED <<scene, tables, key, answers, quiet, doubt, kept>>

\* Faulty variant: only who holds the role directly is told.
AudienceDirect(e) == {u \in User : <<u, job[e].r>> \in userRoles}

\* Who is affected: invalidatePermissionCache(tenantId) speaks of everyone.
Audience(e) == User

\* The writes, inside the transaction, and the invalidation, before its end.
PutWrite(e) ==
  /\ Doing(e, "put", "checked") /\ Live(job[e].r) /\ ~ Locked(job[e].r)
  /\ job' = [job EXCEPT ![e].at = "written"]
  /\ \E n \in Node :
       /\ Drop(n, Audience(e))
       /\ doubt' = doubt \ {<<n, u>> : u \in {v \in Audience(e) : ~ Walking(n, v)}}
  /\ UNCHANGED <<scene, tables, key, walk, edits, quiet, overlapped, kept>>

PutCommit(e) ==
  /\ Doing(e, "put", "written")
  /\ LET j == job[e]
     IN /\ role' = IF j.parent = Same THEN role ELSE [role EXCEPT ![j.r].parent = j.parent]
        /\ bound' = IF "bind" \in j.set THEN [bound EXCEPT ![j.r] = j.grants] ELSE bound
  /\ Changed(User) /\ Done(e)
  /\ UNCHANGED <<scene, userRoles, groupRoles, key, answers, edits, overlapped, kept>>

\* POST /roles: the row, in a statement of its own; a name that exists is answered with its role.
CreateRow(e) ==
  /\ "create" \in scene /\ Free(e)
  /\ \E r \in Role, p \in Role \cup {None}, w \in Offer :
       /\ role[r].state = "unborn"
       /\ p \in Role => Live(p) /\ ~ LoopingAbove(p, r)
       /\ role' = [role EXCEPT ![r] = [state |-> "live", parent |-> p, sys |-> FALSE]]
       /\ job' = [job EXCEPT ![e] = [Idle EXCEPT !.op = "create", !.at = "made", !.r = r, !.grants = w]]
  /\ quiet' = 0
  /\ UNCHANGED <<scene, bound, userRoles, groupRoles, key, answers, doubt, overlapped, kept>>

\* Then the bindings, unless the tenant may not have them; no cache hears of it.
CreateBind(e) ==
  /\ Doing(e, "create", "made")
  /\ bound' = IF MayBind(job[e].grants) /\ Live(job[e].r) THEN [bound EXCEPT ![job[e].r] = job[e].grants] ELSE bound
  /\ Done(e) /\ quiet' = 0
  /\ doubt' = doubt \cup {x \in Node \X User : Cached(x[1], x[2]) \/ Walking(x[1], x[2])}
  /\ UNCHANGED <<scene, role, userRoles, groupRoles, key, answers, edits, overlapped, kept>>

Holders(r) == {u \in User : <<u, r>> \in userRoles}

\* Faulty variant: groups are not counted.
InUseDirectly(r) == Holders(r) # {}

\* DELETE /roles/:id counts users and groups ...
InUse(r) == Holders(r) # {} \/ r \in groupRoles

DeleteCount(e) ==
  /\ "delete" \in scene /\ Free(e)
  /\ \E r \in Role :
       /\ Live(r) /\ ~ role[r].sys /\ ~ InUse(r)
       /\ job' = [job EXCEPT ![e] = [Idle EXCEPT !.op = "delete", !.at = "counted", !.r = r]]
  /\ UNCHANGED <<scene, tables, key, answers, past>>

\* ... and deletes; bindings and assignments go with the row, children keep their parent.
DeleteRow(e) ==
  /\ Doing(e, "delete", "counted") /\ Live(job[e].r) /\ ~ Locked(job[e].r)
  /\ LET r == job[e].r
     IN /\ kept' = (kept /\ (job[e].late \/ (Holders(r) = {} /\ r \notin groupRoles)))
        /\ role' = [role EXCEPT ![r] = Gone]
        /\ bound' = [bound EXCEPT ![r] = Bare]
        /\ userRoles' = {x \in userRoles : x[2] # r}
        /\ groupRoles' = groupRoles \ {r}
  /\ (\E n \in Node : Drop(n, User)) /\ Changed(User) /\ Done(e)
  /\ UNCHANGED <<scene, key, walk, edits, overlapped>>

\* setUserRoles as PUT /users/:id runs it: the DELETE ...
SetRolesClear(e) ==
  /\ "assign" \in scene /\ Free(e)
  /\ \E u \in User, S \in SUBSET {r \in Role : Live(r)} :
       /\ \A r \in Role : role[r].sys /\ <<u, r>> \in userRoles => r \in S   \* the last-administrator guard
       /\ userRoles' = {x \in userRoles : x[1] # u}
       /\ job' = [job EXCEPT ![e] = [Idle EXCEPT !.op = "assign", !.at = "cleared", !.u = u, !.set = S]]
       /\ quiet' = 0
  /\ \A x \in Editor : job[x].op # "assign"
  /\ UNCHANGED <<scene, role, bound, groupRoles, key, answers, doubt, overlapped, kept>>

\* Faulty variant: no foreign key.
AssignAnything(S) == S \subseteq Role

\* The foreign key of user_roles.
Assignable(S) == \A r \in S : Live(r)

\* ... the INSERT, which fails when a role is gone, and the invalidation.
SetRolesAdd(e) ==
  /\ Doing(e, "assign", "cleared")
  /\ Assignable(job[e].set)
  /\ userRoles' = userRoles \cup {<<job[e].u, r>> : r \in job[e].set}
  /\ job' = [x \in Editor |-> IF x = e THEN Idle
                              ELSE IF job[x].op = "delete" /\ job[x].r \in job[e].set THEN [job[x] EXCEPT !.late = TRUE]
                              ELSE job[x]]
  /\ (\E n \in Node : Drop(n, {job[e].u})) /\ Changed({job[e].u})
  /\ UNCHANGED <<scene, role, bound, groupRoles, key, walk, edits, overlapped, kept>>

\* An error, a crash or a rollback: what has been committed stays, and nobody is told.
Fail(e) ==
  /\ job[e].op # "idle"
  /\ Done(e)
  /\ doubt' = IF job[e].op = "assign" THEN doubt \cup {<<n, job[e].u>> : n \in Node} ELSE doubt
  /\ UNCHANGED <<scene, tables, key, answers, edits, quiet, overlapped, kept>>

-----------------------------------------------------------------------------
(* API keys, and time *)

\* Faulty variant: a live key passes every gate.
MayManageAnything(n, b) ==
  \/ b \in User /\ Cached(n, b) /\ cache[n][b].got[KeyPerm] > 0
  \/ b \in Key /\ key[b].state = "live"

\* requirePermission on POST /auth/api-keys: a user with a cached answer, never a key.
MayManageKeys(n, b) == b \in User /\ Cached(n, b) /\ cache[n][b].got[KeyPerm] > 0

CreateKey(n, b, k) ==
  /\ "keys" \in scene /\ MayManageKeys(n, b) /\ key[k].state = "none"
  /\ key' = [key EXCEPT ![k] = [state |-> "live", by |-> b]]
  /\ UNCHANGED <<scene, tables, job, answers, edits, past>>

\* revoke stamps the row again when it is revoked already.
RevokeKey(n, b, k) ==
  /\ MayManageKeys(n, b) /\ key[k].state # "none"
  /\ key' = [key EXCEPT ![k].state = "revoked"]
  /\ UNCHANGED <<scene, tables, job, answers, edits, past>>

KeyAction == \E n \in Asked, b \in User \cup Key, k \in Key : CreateKey(n, b, k) \/ RevokeKey(n, b, k)

\* Faulty variant: an answer is kept until it is dropped.
Eternal(c) == c

Aged(c) == IF c.life > 1 THEN [c EXCEPT !.life = @ - 1] ELSE NoEntry

\* Answers age; a walk takes less than one unit of time.
Tick ==
  /\ \A n \in Node : ~ walk[n].slow
  /\ walk' = [n \in Node |-> [walk[n] EXCEPT !.slow = (@ \/ walk[n].phase # "idle")]]
  /\ cache' = [n \in Node |-> [u \in User |-> Aged(cache[n][u])]]
  /\ quiet' = IF quiet > Ttl THEN quiet ELSE quiet + 1
  /\ UNCHANGED <<scene, tables, key, job, news, edits, doubt, overlapped, kept>>

Edit(e) ==
  \/ PutCheck(e) \/ PutWrite(e) \/ PutCommit(e)
  \/ CreateRow(e) \/ CreateBind(e)
  \/ DeleteCount(e) \/ DeleteRow(e)
  \/ SetRolesClear(e) \/ SetRolesAdd(e)
  \/ Fail(e)

Next ==
  \/ \E n \in Asked : Compute(n)
  \/ \E e \in Editor : Edit(e)
  \/ \E m \in news : Hear(m)
  \/ KeyAction
  \/ Tick

\* A walk is a chain of awaited queries: nothing keeps it from going on.
Fairness == \A n \in Asked : WF_vars(AddGroups(n) \/ Climb(n) \/ Keep(n))

Spec == Init /\ [][Next]_vars /\ Fairness

-----------------------------------------------------------------------------
(* Properties *)

\* The types of the variables.
TypeOK ==
  /\ scene \in Scenes
  /\ \A r \in Role : role[r].state \in {"unborn", "live", "gone"} /\ role[r].parent \in Role \cup {None}
  /\ \A r \in Role : bound[r] \in Grants /\ (~ Live(r) => bound[r] = Bare)
  /\ userRoles \subseteq {x \in User \X Role : Live(x[2])} /\ groupRoles \subseteq {r \in Role : Live(r)}
  /\ \A n \in Node : walk[n].got \in Grants /\ walk[n].todo \subseteq Role
  /\ \A n \in Node, u \in User : cache[n][u].got \in Grants /\ cache[n][u].life \in 0..Ttl
  /\ news \subseteq [to : Node, us : SUBSET User] /\ edits \in 0..MaxEdits /\ quiet \in 0..(Ttl + 1)

\* Whatever races and announcements are lost: once the tables have rested for longer than the
\* life of an answer, every answer is what the tables say (PERMISSION_CACHE_TTL_MS is the backstop).
StaleAtMostTtl ==
  quiet > Ttl => \A n \in Node, u \in User : Cached(n, u) => cache[n][u].got = Effective(u)

\* No edit is forgotten: an answer is wrong only while an announcement is on its way or an
\* edit under way, or when it was computed around a commit, or the announcement was lost.
EditsReachTheCache ==
  \A n \in Node, u \in User :
    Cached(n, u) /\ <<n, u>> \notin doubt
    /\ (\A m \in news : m.to = n => u \notin m.us)
    /\ (\A e \in Editor : ~ (Doing(e, "assign", "cleared") /\ job[e].u = u))
    => cache[n][u].got = Effective(u)

\* Roles inherit in a loop only where two moves overlapped; the check of one move reads
\* outside the transaction of the other.
LoopsNeedARace ==
  \A r \in Role : InLoop(r) => Above(r) \cap overlapped # {}

\* A role that users or groups hold is not deleted under them, but for an assignment that
\* came between the count and the DELETE.
NoRoleVanishes == kept

\* Keys are not made by keys, so that revoking the known ones is the end of it.
KeysComeFromUsers == \A k \in Key : key[k].by \notin Key

\* Every question is answered, whatever shape the roles are in.
AnswersCome == \A n \in Asked : walk[n].phase # "idle" ~> walk[n].phase = "idle"

\* The answers a node keeps are right, or corrected, or gone within their life.
AnswersAreFresh == TypeOK /\ StaleAtMostTtl /\ EditsReachTheCache

\* Roles and keys hang together as the checks of the managers mean them to.
RolesAreSound == LoopsNeedARace /\ NoRoleVanishes /\ KeysComeFromUsers
=============================================================================
