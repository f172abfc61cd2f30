----------------------------- MODULE Directory ------------------------------
(***************************************************************************)
(* The users and groups of one tenant and everyone who changes them: the   *)
(* console, managers whose reach is their department, SCIM clients, users  *)
(* who set their own password, and the platform that starts and suspends   *)
(* the tenant.  A request (Proc) runs one statement, or one transaction,   *)
(* at a time.  Errors and crashes end it anywhere (Fail); the guard of the *)
(* last administrator is one of the errors, its own module is LastAdmin.   *)
(*                                                                         *)
(* A user is the number of its place in the order of creation, the order   *)
(* in which lists are paged; it also stands for its address.               *)
(***************************************************************************)
EXTENDS Integers, Sequences, FiniteSets, SequencesExt

CONSTANTS
  Users,      \* bound: addresses
  Group, Proc,
  Manager,    \* the user whose permission is bound to its departments
  Keep,       \* superseded passwords that may not come back (5)
  MaxPw,      \* bound: different passwords
  MaxHistory, \* bound: entries a crash may leave for the next rotation to prune
  PageSize,   \* rows per page of a list or an export (500 in an export)
  MaxPages,   \* pages of an export: its cap of 50 000 rows, in pages
  Workloads   \* who calls, in which deployment

User == 1..Users

ASSUME DirectoryAssumption ==
  /\ Users \in Nat \ {0} /\ Manager \in User
  /\ Keep \in Nat \ {0} /\ MaxPw \in Nat \ {0} /\ MaxHistory \in Nat /\ PageSize \in Nat \ {0} /\ MaxPages \in Nat \ {0}

VARIABLES
  callers,   \* the workload
  user,      \* the table users, with a flag for live sessions
  history,   \* password_history of each user, newest first
  group,     \* the tables groups, group_users and group_roles
  admin,     \* who holds the administrator role directly
  tenant,    \* is the tenant active?
  key,       \* is the SCIM key live?
  req,       \* the requests
  alone,     \* history: has nobody else written since the request started?
  trail,     \* history: the passwords superseded, newest first
  mixed      \* history: users two of whose rotations overlapped, or one was cut short

tables == <<user, history, group, admin, tenant, key>>
past == <<trail, mixed>>
vars == <<callers, tables, req, alone, past>>

NoUser == 0
Absent == [status |-> "none", pw |-> 0, must |-> FALSE, live |-> FALSE, link |-> FALSE]
NoGroup == [there |-> FALSE, dept |-> FALSE, bound |-> FALSE, members |-> {}]
Idle == [at |-> "idle", op |-> "none", u |-> NoUser, pw |-> 0, old |-> 0, set |-> {}, todo |-> {},
         errors |-> 0, made |-> 0, page |-> 1]

Present(u) == user[u].status \notin {"none", "gone"}
Existing == {u \in User : Present(u)}

\* A tenant with its first user, who manages a department.
Init ==
  /\ callers \in Workloads
  /\ user = [u \in User |-> IF u = Manager THEN [Absent EXCEPT !.status = "active"] ELSE Absent]
  /\ history = [u \in User |-> << >>] /\ admin = {}
  /\ group = [g \in Group |-> IF "scoped" \in callers
                                THEN [NoGroup EXCEPT !.there = TRUE, !.dept = TRUE] ELSE NoGroup]
  /\ tenant = TRUE /\ key = TRUE
  /\ req = [p \in Proc |-> Idle] /\ alone = [p \in Proc |-> TRUE]
  /\ trail = [u \in User |-> << >>] /\ mixed = {}

Calls(who) == who \in callers
At(p, where) == req[p].at = where
Reply(p) == req' = [req EXCEPT ![p] = Idle]
Goto(p, where, r) == req' = [req EXCEPT ![p] = [r EXCEPT !.at = where]]

\* A request starts; its own writes do not count as somebody else's.
Starts(p) == alone' = [alone EXCEPT ![p] = TRUE]
WroteBy(p) == alone' = [q \in Proc |-> alone[q] /\ q = p]
Wrote == alone' = [q \in Proc |-> FALSE]

-----------------------------------------------------------------------------
(* Creating users *)

Created(pw) == [Absent EXCEPT !.status = "active", !.pw = pw]

\* Console: the user and the roles, in one transaction; a duplicate is refused.
CreateUser(p, u, pw) ==
  /\ Calls("console") /\ At(p, "idle") /\ user[u].status = "none"
  /\ user' = [user EXCEPT ![u] = Created(pw)] /\ WroteBy(p)
  /\ UNCHANGED <<callers, history, group, admin, tenant, key, req, past>>

\* An import that commits; a dry run looks at the rows and nothing else.
Import(p, rows) ==
  /\ Calls("import") /\ At(p, "idle") /\ rows # {} /\ Starts(p)
  /\ Goto(p, "row", [Idle EXCEPT !.set = rows, !.todo = rows])
  /\ UNCHANGED <<callers, tables, past>>

\* Address, name and password are checked, then the address is looked up.  The
\* report counts as created whatever is not among the errors.
ImportCheck(p, u, valid) ==
  /\ At(p, "row") /\ u \in req[p].todo
  /\ LET r == [req[p] EXCEPT !.todo = @ \ {u}, !.u = u]
     IN IF valid /\ ~Present(u) THEN Goto(p, "insert", r)
                                ELSE Goto(p, "row", [r EXCEPT !.errors = @ + 1, !.u = NoUser])
  /\ UNCHANGED <<callers, tables, alone, past>>

\* Faulty variant: the row that loses the race is forgotten.
RefusedSilently(r) == r

RefusedRow(r) == [r EXCEPT !.errors = @ + 1]

\* The unique address decides; a row that fails does not stop the next one.
ImportInsert(p) ==
  LET u == req[p].u
      r == [req[p] EXCEPT !.u = NoUser]
  IN /\ At(p, "insert")
     /\ \/ /\ user[u].status = "none"
           /\ user' = [user EXCEPT ![u] = Created(1)] /\ WroteBy(p)
           /\ Goto(p, "row", [r EXCEPT !.made = @ + 1])
        \/ Goto(p, "row", RefusedRow(r)) /\ UNCHANGED <<user, alone>>   \* duplicate or any failure
     /\ UNCHANGED <<callers, history, group, admin, tenant, key, past>>

ImportDone(p) ==
  /\ At(p, "row") /\ req[p].todo = {} /\ Reply(p)
  /\ UNCHANGED <<callers, tables, alone, past>>

-----------------------------------------------------------------------------
(* What a caller may see and change *)

\* The groups a scope stands for: departments the caller is a member of.
DepartmentIds(u) == {g \in Group : group[g].dept /\ u \in group[g].members}

\* Faulty variant: without departments the condition is dropped.
VisibleOrAll(caller, departments) ==
  IF departments = {} THEN Existing
  ELSE {u \in Existing : u = caller \/ \E g \in departments : u \in group[g].members}

\* One predicate for lists and single rows; without departments, oneself.
Visible(caller, departments) ==
  {u \in Existing : u = caller \/ \E g \in departments : u \in group[g].members}

\* A page of a list, in the order of creation, and what the first n places hold.
Rank(seen, u) == Cardinality({v \in seen : v <= u})
Within(seen, n) == {u \in seen : Rank(seen, u) <= n}
Listed(seen, page) == {u \in seen : Rank(seen, u) \in (page - 1) * PageSize + 1 .. page * PageSize}

\* An export reads page after page until one is not full or there are MaxPages.
Export(p) ==
  /\ Calls("export") /\ At(p, "idle") /\ Starts(p) /\ Goto(p, "page", Idle)
  /\ UNCHANGED <<callers, tables, past>>

\* Faulty variant: an export ends with the first page that is full.
LastPageEarly(rows, page) == Cardinality(rows) <= PageSize \/ page = MaxPages

\* The cap is a whole number of pages, so it is looked at between pages; nothing in the
\* answer says that it was met.
LastPage(rows, page) == Cardinality(rows) < PageSize \/ page = MaxPages

\* The rows that were on the pages so far are in set; todo counts them twice if
\* they turn up twice.
ExportPage(p) ==
  LET rows == Listed(Existing, req[p].page)
      r == [req[p] EXCEPT !.set = @ \cup rows, !.todo = @ \cup (req[p].set \cap rows),
                          !.page = @ + 1]
  IN /\ At(p, "page")
     /\ Goto(p, IF LastPage(rows, req[p].page) THEN "exported" ELSE "page", r)
     /\ UNCHANGED <<callers, tables, alone, past>>

ExportDone(p) ==
  /\ At(p, "exported") /\ Reply(p) /\ UNCHANGED <<callers, tables, alone, past>>

\* What a manager asks for; the scope is resolved first.
ScopedOp == {"suspended", "active", "delete", "logout"}

ResolveScope(p, op, u) ==
  /\ Calls("scoped") /\ At(p, "idle") /\ Starts(p)
  /\ Goto(p, "guard", [Idle EXCEPT !.op = op, !.u = u, !.set = DepartmentIds(Manager)])
  /\ UNCHANGED <<callers, tables, past>>

\* 404 and 403, or on to the write.
RowScope(p) ==
  /\ At(p, "guard")
  /\ IF req[p].u \in Visible(Manager, req[p].set) THEN Goto(p, "write", req[p]) ELSE Reply(p)
  /\ UNCHANGED <<callers, tables, alone, past>>

-----------------------------------------------------------------------------
(* Status, deletion, sessions *)

\* changeStatus and delete; suspending goes on to the sessions.
Status(p, u, status, next) ==
  /\ IF Present(u)
     THEN /\ user' = [user EXCEPT ![u].status = status]
          /\ IF status = "suspended" THEN Goto(p, "revoke", [req[p] EXCEPT !.u = u, !.op = next])
             ELSE IF next = "patch" THEN Goto(p, "patch", req[p]) ELSE Reply(p)
          /\ WroteBy(p)
     ELSE UNCHANGED <<user, alone>> /\ Reply(p)
  /\ UNCHANGED <<callers, history, group, admin, tenant, key, past>>

\* Faulty variant: memberships outlive the user.
MembersStay(u) == group

\* Foreign keys take memberships along.
LeftGroups(u) == [g \in Group |-> [group[g] EXCEPT !.members = @ \ {u}]]

Delete(p, u) ==
  /\ IF Present(u) THEN /\ user' = [user EXCEPT ![u] = [Absent EXCEPT !.status = "gone"]]
                        /\ group' = LeftGroups(u)
                        /\ admin' = admin \ {u} /\ WroteBy(p)
                   ELSE UNCHANGED <<user, group, admin, alone>>
  /\ Reply(p)
  /\ UNCHANGED <<callers, history, tenant, key, past>>

Revoked(u) == [user EXCEPT ![u].live = FALSE]

RevokeSessions(p) ==
  /\ At(p, "revoke") /\ user' = Revoked(req[p].u) /\ WroteBy(p)
  /\ IF req[p].op = "patch" THEN Goto(p, "patch", req[p]) ELSE Reply(p)
  /\ UNCHANGED <<callers, history, group, admin, tenant, key, past>>

ForceLogout(p, u) ==
  /\ user' = Revoked(u) /\ WroteBy(p) /\ Reply(p)
  /\ UNCHANGED <<callers, history, group, admin, tenant, key, past>>

\* The manager's write, or the one a SCIM client has asked for.
WriteUser(p) ==
  LET u == req[p].u
      op == req[p].op
  IN /\ At(p, "write") \/ At(p, "scimWrite")
     /\ \/ op \in {"suspended", "active"} /\ Status(p, u, op, "done")
        \/ op = "delete" /\ Delete(p, u)
        \/ op = "logout" /\ ForceLogout(p, u)

\* The console reaches everyone: one guard less.
ConsoleWrite(p, u, op) ==
  /\ Calls("console") /\ At(p, "idle")
  /\ IF op = "delete" THEN Delete(p, u) ELSE Status(p, u, op, "done")

\* Sessions come from signing in.
SignsIn(u) ==
  /\ Calls("sessions") /\ tenant /\ user[u].status = "active" /\ ~user[u].live
  /\ user' = [user EXCEPT ![u].live = TRUE] /\ Wrote
  /\ UNCHANGED <<callers, history, group, admin, tenant, key, req, past>>

-----------------------------------------------------------------------------
(* Passwords *)

\* An invitation, or a forgotten password: a link by mail.
Invite(p, u) ==
  /\ Calls("passwords") /\ At(p, "idle") /\ Present(u) /\ ~user[u].link
  /\ \/ user[u].pw = 0 \/ user[u].must              \* invite
     \/ user[u].status = "active"                   \* forgot-password
  /\ user' = [user EXCEPT ![u].link = TRUE] /\ WroteBy(p)
  /\ UNCHANGED <<callers, history, group, admin, tenant, key, req, past>>

UpToKeep(s) == SubSeq(s, 1, Min({Keep, Len(s)}))

Recent(u) == UpToKeep(history[u])

\* Where two rotations of one user are under way, their order is lost.
Rotating(q, u) == req[q].at \in {"swap", "push", "prune"} /\ req[q].u = u
Overlaps(p, u) == \E q \in Proc \ {p} : Rotating(q, u)
Mark(p, u) == mixed' = IF Overlaps(p, u) THEN mixed \cup {u} ELSE mixed

\* The old password or a link, and a password unlike the recent ones.  A first
\* password needs no comparison and leaves no history.
StartRotation(p, u, pw, armed) ==
  /\ Calls("passwords") /\ At(p, "idle") /\ Present(u)
  /\ armed \/ user[u].link \/ (user[u].status = "active" /\ user[u].pw > 0)
  /\ pw \notin {Recent(u)[i] : i \in DOMAIN Recent(u)}
  /\ Goto(p, "swap", [Idle EXCEPT !.u = u, !.pw = pw, !.old = user[u].pw,
                                  !.op = IF armed THEN "armed" ELSE "done"])
  /\ Mark(p, u) /\ Starts(p)
  /\ user' = IF armed THEN user ELSE [user EXCEPT ![u].link = FALSE]
  /\ UNCHANGED <<callers, history, group, admin, tenant, key, trail>>

\* Faulty variants: the password that has just been set is pushed; the oldest
\* entries are kept.
PushedNew(p) == <<req[p].pw>> \o history[req[p].u]
PrunedOldest(h) == IF Len(h) > Keep THEN SubSeq(h, Len(h) - Keep + 1, Len(h)) ELSE h

Pushed(p) == <<req[p].old>> \o history[req[p].u]
Pruned(h) == UpToKeep(h)

Set(p) == [user EXCEPT ![req[p].u].pw = req[p].pw, ![req[p].u].must = req[p].op = "armed"]
Trailed(p) == [trail EXCEPT ![req[p].u] = UpToKeep(<<user[req[p].u].pw>> \o @)]

\* One's own rotation is four statements; the first password is the first one.
Swap(p) ==
  LET u == req[p].u
  IN /\ At(p, "swap") /\ req[p].op # "armed"
     /\ user' = IF Present(u) THEN Set(p) ELSE user
     /\ IF req[p].old > 0 THEN Goto(p, "push", req[p]) /\ trail' = Trailed(p)
                          ELSE Reply(p) /\ UNCHANGED trail
     /\ WroteBy(p)
     /\ UNCHANGED <<callers, history, group, admin, tenant, key, mixed>>

Push(p) ==
  /\ At(p, "push") /\ history' = [history EXCEPT ![req[p].u] = Pushed(p)]
  /\ Goto(p, "prune", req[p])
  /\ UNCHANGED <<callers, user, group, admin, tenant, key, alone, past>>

Prune(p) ==
  /\ At(p, "prune") /\ history' = [history EXCEPT ![req[p].u] = Pruned(@)] /\ Reply(p)
  /\ UNCHANGED <<callers, user, group, admin, tenant, key, alone, past>>

\* An administrator's reset is one transaction, and sessions go afterwards.
AdminReset(p) ==
  LET u == req[p].u
  IN /\ At(p, "swap") /\ req[p].op = "armed"
     /\ user' = IF Present(u) THEN Set(p) ELSE user
     /\ IF req[p].old > 0 THEN /\ history' = [history EXCEPT ![u] = Pruned(Pushed(p))]
                               /\ trail' = Trailed(p)
                          ELSE UNCHANGED <<history, trail>>
     /\ Goto(p, "revoke", [req[p] EXCEPT !.op = "done"]) /\ WroteBy(p)
     /\ UNCHANGED <<callers, group, admin, tenant, key, mixed>>

-----------------------------------------------------------------------------
(* SCIM users: the key is looked at once, when the request arrives *)

Scim(p) == Calls("scim") /\ key /\ At(p, "idle")

ScimFind(p, u) ==
  /\ Scim(p) /\ ~Present(u) /\ Starts(p)
  /\ Goto(p, "insert", [Idle EXCEPT !.u = u, !.set = {u}])
  /\ UNCHANGED <<callers, tables, past>>

\* PUT: active=false always suspends, active=true only what was not active
\* when the user was read.
ScimPut(p, u, active) ==
  /\ Scim(p) /\ Present(u) /\ Starts(p)
  /\ IF ~active THEN Goto(p, "scimWrite", [Idle EXCEPT !.u = u, !.op = "suspended"])
     ELSE /\ user[u].status # "active" /\ Goto(p, "scimWrite", [Idle EXCEPT !.u = u, !.op = "active"])
  /\ UNCHANGED <<callers, tables, past>>

ScimDelete(p, u) ==
  /\ Scim(p) /\ Present(u) /\ Starts(p)
  /\ Goto(p, "scimWrite", [Idle EXCEPT !.u = u, !.op = "suspended"])
  /\ UNCHANGED <<callers, tables, past>>

\* PATCH: the operations one after the other; a bad one ends the request with
\* the earlier ones applied.
ScimPatch(p, u) ==
  /\ Scim(p) /\ Present(u) /\ Starts(p) /\ Goto(p, "patch", [Idle EXCEPT !.u = u])
  /\ UNCHANGED <<callers, tables, past>>

PatchStatus(p, active) ==
  /\ At(p, "patch")
  /\ Status(p, req[p].u, IF active THEN "active" ELSE "suspended", "patch")

PatchDone(p) ==
  /\ At(p, "patch") /\ Reply(p) /\ UNCHANGED <<callers, tables, alone, past>>

-----------------------------------------------------------------------------
(* Groups: the console *)

There(g) == group[g].there

SetGroup(g, r) ==
  /\ group' = [group EXCEPT ![g] = r] /\ Wrote
  /\ UNCHANGED <<callers, user, history, admin, tenant, key, req, past>>

CreateGroup(g) == Calls("groups") /\ ~There(g) /\ SetGroup(g, [NoGroup EXCEPT !.there = TRUE])
DeleteGroup(g) == Calls("groups") /\ There(g) /\ SetGroup(g, NoGroup)
SetKind(g) ==
  /\ Calls("scoped") /\ There(g)
  /\ SetGroup(g, [group[g] EXCEPT !.dept = ~@])
BindRole(g) ==
  /\ Calls("groups") /\ There(g)
  /\ SetGroup(g, [group[g] EXCEPT !.bound = ~@])
AddMember(g, u) ==
  /\ Calls("groups") \/ Calls("scoped")
  /\ There(g) /\ Present(u) /\ u \notin group[g].members
  /\ SetGroup(g, [group[g] EXCEPT !.members = @ \cup {u}])
RemoveMember(g, u) ==
  /\ Calls("groups") \/ Calls("scoped")
  /\ u \in group[g].members
  /\ SetGroup(g, [group[g] EXCEPT !.members = @ \ {u}])

-----------------------------------------------------------------------------
(* Groups: SCIM.  One group per request, so its number is in page. *)

\* Faulty variant: the members are only looked at when they are added.
UnknownMembersLate(refs) == FALSE

UnknownMembers(refs) == ~(refs \subseteq Existing)

\* Faulty variant: PATCH forgets the lock of the groups that administer.
LockedByPut(g, op) == group[g].bound /\ op # "patchGroup"

\* A group that hands out the administrator role is locked.
SystemBoundBlock(g, op) == group[g].bound

\* POST: all members are looked up before the group is made.
ScimCreateGroup(p, g, refs) ==
  /\ Scim(p) /\ Calls("groups") /\ ~There(g) /\ Starts(p)
  /\ IF UnknownMembers(refs) THEN Reply(p)
     ELSE Goto(p, "make", [Idle EXCEPT !.op = "group", !.page = g, !.set = refs])
  /\ UNCHANGED <<callers, tables, past>>

Make(p) ==
  LET g == req[p].page
  IN /\ At(p, "make")
     /\ IF There(g) THEN Reply(p) /\ UNCHANGED <<group, alone>>      \* the name is taken
        ELSE /\ group' = [group EXCEPT ![g] = [NoGroup EXCEPT !.there = TRUE]] /\ WroteBy(p)
             /\ Goto(p, "members", [req[p] EXCEPT !.todo = req[p].set, !.made = 1])
     /\ UNCHANGED <<callers, user, history, admin, tenant, key, past>>

\* PUT, PATCH and DELETE: found, not locked; then the members.
ScimGroupOp(p, g, op) ==
  /\ Scim(p) /\ Calls("groups") /\ There(g) /\ ~SystemBoundBlock(g, op) /\ Starts(p)
  /\ Goto(p, op, [Idle EXCEPT !.op = "group", !.page = g])
  /\ UNCHANGED <<callers, tables, past>>

\* PUT, and PATCH with replace: who must go and who must come is read once.
ReplaceMembers(p, refs) ==
  LET now == group[req[p].page].members
  IN /\ At(p, "putGroup") \/ At(p, "patchGroup")
     /\ IF UnknownMembers(refs) \/ ~There(req[p].page) THEN Reply(p)
        ELSE Goto(p, "members", [req[p] EXCEPT !.set = refs, !.made = 1,
                                               !.todo = (now \ refs) \cup (refs \ now)])
     /\ UNCHANGED <<callers, tables, alone, past>>

\* PATCH with add or remove, and the selector of a single member.
PatchMember(p, u, add) ==
  /\ At(p, "patchGroup")
  /\ Goto(p, "members", [req[p] EXCEPT !.todo = {u}, !.set = IF add THEN {u} ELSE {},
                                       !.op = "patchGroup"])
  /\ UNCHANGED <<callers, tables, alone, past>>

\* One member at a time: the group must be there, and who is added as well.
ChangeMember(p, u) ==
  LET g == req[p].page
      rest == [req[p] EXCEPT !.todo = @ \ {u}]
  IN /\ At(p, "members") /\ u \in req[p].todo
     /\ IF There(g) /\ (u \in req[p].set => Present(u))
        THEN /\ group' = [group EXCEPT ![g].members = IF u \in req[p].set THEN @ \cup {u} ELSE @ \ {u}]
             /\ Goto(p, "members", rest) /\ WroteBy(p)
        ELSE UNCHANGED <<group, alone>> /\ Goto(p, "refused", req[p])
     /\ UNCHANGED <<callers, user, history, admin, tenant, key, past>>

MembersDone(p) ==
  /\ At(p, "members") /\ req[p].todo = {}
  /\ IF req[p].op = "patchGroup" THEN Goto(p, "patchGroup", [req[p] EXCEPT !.op = "group", !.set = {}])
                                 ELSE Reply(p)
  /\ UNCHANGED <<callers, tables, alone, past>>

Refused(p) ==
  /\ At(p, "refused") /\ Reply(p) /\ UNCHANGED <<callers, tables, alone, past>>

PatchGroupDone(p) ==
  /\ At(p, "patchGroup") /\ Reply(p) /\ UNCHANGED <<callers, tables, alone, past>>

RemoveGroup(p) ==
  /\ At(p, "deleteGroup")
  /\ group' = [group EXCEPT ![req[p].page] = NoGroup] /\ WroteBy(p) /\ Reply(p)
  /\ UNCHANGED <<callers, user, history, admin, tenant, key, past>>

-----------------------------------------------------------------------------
(* The tenant *)

\* Suspending: the status, the sessions and the keys, in one transaction.  A
\* tenant that comes back has no keys.
SetTenant(p) ==
  /\ Calls("platform") /\ At(p, "idle") /\ tenant' = ~tenant /\ WroteBy(p)
  /\ IF tenant THEN /\ user' = [u \in User |-> [user[u] EXCEPT !.live = FALSE]] /\ key' = FALSE
               ELSE UNCHANGED <<user, key>>
  /\ UNCHANGED <<callers, history, group, admin, req, past>>

\* API keys are made and revoked by users of an active tenant.
SetKey ==
  /\ Calls("platform") /\ tenant /\ key' = ~key /\ Wrote
  /\ UNCHANGED <<callers, user, history, group, admin, tenant, req, past>>

\* Faulty variant: whoever has the address becomes the administrator.
ReplaysForAnyone(u) == Present(u)

\* The replay of a bootstrap is for the administrator it made before.
Replays(u) == Present(u) /\ u \in admin

Bootstrap(p, u) ==
  /\ Calls("platform") /\ At(p, "idle") /\ tenant /\ Starts(p)
  /\ IF ~Present(u) \/ Replays(u)
     THEN Goto(p, "bootstrap", [Idle EXCEPT !.u = u, !.made = IF Present(u) THEN 1 ELSE 0])
     ELSE Reply(p)
  /\ UNCHANGED <<callers, tables, past>>

\* Role, bindings, user and membership commit together, or not at all when
\* the address has been taken meanwhile.
BootstrapWrite(p) ==
  LET u == req[p].u
  IN /\ At(p, "bootstrap") /\ Reply(p)
     /\ IF req[p].made = 1 /\ Present(u) THEN /\ admin' = admin \cup {u} /\ UNCHANGED user
        ELSE IF req[p].made = 0 /\ user[u].status = "none"
             THEN user' = [user EXCEPT ![u] = Created(1)] /\ admin' = admin \cup {u}
             ELSE UNCHANGED <<user, admin>>
     /\ WroteBy(p)
     /\ UNCHANGED <<callers, history, group, tenant, key, past>>

DropAdmin(u) ==
  /\ Calls("platform") /\ u \in admin /\ admin' = admin \ {u} /\ Wrote
  /\ UNCHANGED <<callers, user, history, group, tenant, key, req, past>>

-----------------------------------------------------------------------------

\* An error or a crash; a rotation that is cut short leaves the history behind.
Fail(p) ==
  /\ ~At(p, "idle") /\ (At(p, "prune") => Len(history[req[p].u]) <= MaxHistory) /\ Reply(p)
  /\ mixed' = IF At(p, "push") \/ At(p, "prune") THEN mixed \cup {req[p].u} ELSE mixed
  /\ UNCHANGED <<callers, tables, alone, trail>>

UserStep(p) ==
  \/ \E u \in User, pw \in {0, 1} : CreateUser(p, u, pw)
  \/ \E rows \in SUBSET User : Import(p, rows)
  \/ \E u \in User, valid \in BOOLEAN : ImportCheck(p, u, valid)
  \/ ImportInsert(p) \/ ImportDone(p) \/ Export(p) \/ ExportPage(p) \/ ExportDone(p)
  \/ \E op \in ScopedOp, u \in User : ResolveScope(p, op, u)
  \/ RowScope(p) \/ WriteUser(p) \/ RevokeSessions(p)
  \/ \E u \in User, op \in {"active", "suspended", "pending", "delete"} : ConsoleWrite(p, u, op)

PasswordStep(p) ==
  \/ \E u \in User : Invite(p, u)
  \/ \E u \in User, pw \in 1..MaxPw, armed \in BOOLEAN : StartRotation(p, u, pw, armed)
  \/ Swap(p) \/ Push(p) \/ Prune(p) \/ AdminReset(p)

ScimStep(p) ==
  \/ \E u \in User : ScimFind(p, u) \/ ScimDelete(p, u) \/ ScimPatch(p, u)
  \/ \E u \in User, active \in BOOLEAN : ScimPut(p, u, active)
  \/ \E active \in BOOLEAN : PatchStatus(p, active)
  \/ PatchDone(p) \/ Make(p) \/ MembersDone(p) \/ Refused(p) \/ PatchGroupDone(p) \/ RemoveGroup(p)
  \/ \E g \in Group, refs \in SUBSET User : ScimCreateGroup(p, g, refs)
  \/ \E g \in Group, op \in {"putGroup", "patchGroup", "deleteGroup"} : ScimGroupOp(p, g, op)
  \/ \E refs \in SUBSET User : ReplaceMembers(p, refs)
  \/ \E u \in User, add \in BOOLEAN : PatchMember(p, u, add)
  \/ \E u \in User : ChangeMember(p, u)

TenantStep(p) == SetTenant(p) \/ BootstrapWrite(p) \/ \E u \in User : Bootstrap(p, u)

Next ==
  \/ \E p \in Proc : UserStep(p) \/ PasswordStep(p) \/ ScimStep(p) \/ TenantStep(p) \/ Fail(p)
  \/ \E u \in User : SignsIn(u) \/ DropAdmin(u)
  \/ \E g \in Group : CreateGroup(g) \/ DeleteGroup(g) \/ SetKind(g) \/ BindRole(g)
  \/ \E g \in Group, u \in User : AddMember(g, u) \/ RemoveMember(g, u)
  \/ SetKey

Spec == Init /\ [][Next]_vars
-----------------------------------------------------------------------------
(* Properties *)

\* Shapes, and the foreign keys of memberships and roles.
TypeOK ==
  /\ \A u \in User : /\ user[u].status \in {"none", "active", "suspended", "pending", "gone"}
                     /\ user[u].pw \in 0..MaxPw /\ history[u] \in Seq(1..MaxPw)
  /\ \A g \in Group : group[g].members \subseteq Existing
  /\ admin \subseteq Existing

\* Every row of an import has been created or is in the report.
ImportReportIsTrue ==
  \A p \in Proc : At(p, "row") =>
    Cardinality(req[p].set \ req[p].todo) = req[p].made + req[p].errors

\* An export that nobody's write overlaps has every user, and none twice, as far as
\* the cap reaches: a longer list ends there, with the users created first.
ExportIsComplete ==
  \A p \in Proc : At(p, "exported") /\ alone[p] =>
    req[p].set = Within(Existing, MaxPages * PageSize) /\ req[p].todo = {}

\* A manager's write is about the manager or somebody in a department of the
\* manager's, if memberships have not changed since the request started.
ManagersStayInScope ==
  \A p \in Proc : At(p, "write") /\ alone[p] =>
    req[p].u = Manager
      \/ \E g \in Group : group[g].dept /\ {req[p].u, Manager} \subseteq group[g].members

\* However a password is set, none of the last ones replaced comes back, unless
\* two rotations of the user overlapped or one was cut short.
OldPasswordsStayOut ==
  [][\A u \in User : user'[u].pw # user[u].pw /\ u \notin mixed' =>
       \A i \in DOMAIN trail[u] : user'[u].pw # trail[u][i]]_vars

\* A SCIM client never changes a group that made administrators when its
\* request arrived, and stays so as long as nobody else writes.
ScimSparesAdministrators ==
  [][\A p \in Proc, g \in Group :
       req[p].op \in {"group", "patchGroup"} /\ alone[p] /\ req'[p] # req[p] /\ group[g].bound
         => group'[g] = group[g]]_vars

\* A group that a SCIM client makes gets all its members, unless somebody
\* else's write overlaps: a bad reference leaves no half of a group behind.
GroupsAreWhole ==
  \A p \in Proc : At(p, "refused") /\ alone[p] => req[p].op = "patchGroup"

\* The bootstrap of a tenant makes an administrator of the user it creates, or
\* of one who was an administrator already when it looked.
NobodyIsPromoted ==
  [][\A u \in User : u \in admin' \ admin /\ Present(u) => \E p \in Proc : At(p, "bootstrap") /\ ~alone[p]]_vars

\* What is done for many at a time leaves nothing out unnoticed, but for what is past
\* the cap of an export.
BatchesAreWhole == TypeOK /\ ImportReportIsTrue /\ ExportIsComplete /\ GroupsAreWhole

\* No administrator is made, or unmade, by a client that is not meant to.
AdministratorsAreMeant == ScimSparesAdministrators /\ NobodyIsPromoted
=============================================================================
