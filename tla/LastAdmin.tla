----------------------------- MODULE LastAdmin -----------------------------
(***************************************************************************)
(* The last-administrator guard of one tenant.  A user administers the     *)
(* tenant while active and holding the built-in (isSystem) role, directly  *)
(* or through a group bound to it.  Every operation that can take          *)
(* administration away counts the administrators first and writes later,   *)
(* in statements of their own, so operations of several requests overlap   *)
(* between the two.                                                        *)
(*                                                                         *)
(* The SELECTs of one check are one step here: splitting them adds         *)
(* overlaps, and the promise below is about checks nobody overlapped.      *)
(***************************************************************************)
EXTENDS Integers

CONSTANTS
  User, Group,
  Proc     \* requests being served

VARIABLES
  db,      \* the committed rows
  phase,   \* "idle", "checked" (guard passed) or "replaced" (old roles deleted)
  job,     \* the operation a request is serving
  watched  \* has the tenant had an administrator, and has nobody else written, since the check?

vars == <<db, phase, job, watched>>

Job ==
  [op: {"delete", "suspend", "revoke"}, user: User]
    \cup [op: {"replace"}, user: User, grant: BOOLEAN]   \* do the new roles include the built-in one?
    \cup [op: {"removeMember"}, user: User, group: Group]
    \cup [op: {"deleteGroup"}, group: Group]
    \cup [op: {"bind"}, group: Group, grant: BOOLEAN]    \* do the new bindings?
NoJob == [op |-> "none"]

Db == [status: [User -> {"active", "inactive", "gone"}],   \* inactive: suspended or pending
       direct: SUBSET User,             \* user_roles with the isSystem role
       member: [Group -> SUBSET User],  \* group_users
       bound:  SUBSET Group,            \* group_roles with the isSystem role
       groups: SUBSET Group]

Existing(d) == {u \in User : d.status[u] # "gone"}

\* A tenant starts with its first administrator.
Init ==
  /\ \E a \in User, s \in [User -> {"active", "inactive"}] :
       /\ s[a] = "active"
       /\ db = [status |-> s, direct |-> {a}, member |-> [g \in Group |-> {}],
                bound |-> {}, groups |-> Group]
  /\ phase = [p \in Proc |-> "idle"]
  /\ job = [p \in Proc |-> NoJob]
  /\ watched = [p \in Proc |-> FALSE]

-----------------------------------------------------------------------------
(* The census *)

ViaGroups(d, u, G) == \E g \in G \cap d.bound : u \in d.member[g]

\* Faulty variant: the group to be left out is counted as well.
HoldersWithoutBlind(d, g) ==
  {u \in User : d.status[u] = "active" /\ (u \in d.direct \/ ViaGroups(d, u, Group))}

HoldersWithout(d, g) ==
  {u \in User : d.status[u] = "active" /\ (u \in d.direct \/ ViaGroups(d, u, Group \ {g}))}

Holders(d) == {u \in User : d.status[u] = "active" /\ (u \in d.direct \/ ViaGroups(d, u, Group))}

\* Standing, whatever the user's status.
HoldsExceptVia(d, u, g) == u \in d.direct \/ ViaGroups(d, u, Group \ {g})

WouldOrphan(d, u) == Holders(d) = {u}

\* Faulty variant: a grant through a group is no reason to let go of the role.
RefusedEagerly(d, j) ==
  \/ j.op \in {"delete", "suspend", "revoke"} /\ WouldOrphan(d, j.user)
  \/ /\ j.op = "replace" /\ j.user \in d.direct /\ ~j.grant
     /\ WouldOrphan(d, j.user)
  \/ /\ j.op = "removeMember"
     /\ WouldOrphan(d, j.user) /\ ~HoldsExceptVia(d, j.user, j.group)
  \/ j.op = "deleteGroup" /\ Holders(d) # {} /\ HoldersWithout(d, j.group) = {}
  \/ /\ j.op = "bind" /\ ~j.grant
     /\ Holders(d) # {} /\ HoldersWithout(d, j.group) = {}
     /\ \A u \in d.member[j.group] : ~HoldsExceptVia(d, u, j.group)

\* The guards of the seven operations.
Refused(d, j) ==
  \/ j.op \in {"delete", "suspend"} /\ WouldOrphan(d, j.user)
  \/ /\ j.op = "revoke" \/ (j.op = "replace" /\ j.user \in d.direct /\ ~j.grant)
     /\ ~ViaGroups(d, j.user, Group) /\ WouldOrphan(d, j.user)
  \/ /\ j.op = "removeMember"
     /\ WouldOrphan(d, j.user) /\ ~HoldsExceptVia(d, j.user, j.group)
  \/ j.op = "deleteGroup" /\ Holders(d) # {} /\ HoldersWithout(d, j.group) = {}
  \/ /\ j.op = "bind" /\ ~j.grant
     /\ Holders(d) # {} /\ HoldersWithout(d, j.group) = {}
     /\ \A u \in d.member[j.group] : ~HoldsExceptVia(d, u, j.group)

\* What must exist when an operation starts; the others accept anything.
Found(d, j) ==
  /\ j.op = "replace" => j.user \in Existing(d)
  /\ j.op \in {"removeMember", "deleteGroup", "bind"} => j.group \in d.groups

-----------------------------------------------------------------------------
(* The writes *)

WithoutUser(d, u) ==   \* user_roles and group_users cascade
  [d EXCEPT !.status[u] = "gone", !.direct = @ \ {u},
            !.member = [g \in Group |-> @[g] \ {u}]]

WithoutGroup(d, g) ==  \* group_users and group_roles cascade
  [d EXCEPT !.groups = @ \ {g}, !.bound = @ \ {g}, !.member[g] = {}]

WithStatus(d, u, s) ==
  IF u \in Existing(d) THEN [d EXCEPT !.status[u] = s] ELSE d

\* The first statement that an operation commits.
Written(d, j) ==
  CASE j.op = "delete"       -> WithoutUser(d, j.user)
    [] j.op = "suspend"      -> WithStatus(d, j.user, "inactive")
    [] j.op = "revoke"       -> [d EXCEPT !.direct = @ \ {j.user}]
    [] j.op = "replace"      -> [d EXCEPT !.direct = @ \ {j.user}]
    [] j.op = "removeMember" -> [d EXCEPT !.member[j.group] = @ \ {j.user}]
    [] j.op = "deleteGroup"  -> WithoutGroup(d, j.group)
    [] j.op = "bind"         -> IF j.grant /\ j.group \in d.groups
                                THEN [d EXCEPT !.bound = @ \cup {j.group}]
                                ELSE [d EXCEPT !.bound = @ \ {j.group}]

\* A commit ends the watch of every other request.
Commits(d, watch) ==
  /\ db' = d
  /\ watched' = [p \in Proc |-> p \in watch /\ watched[p]]

Ends(p) ==
  /\ phase' = [phase EXCEPT ![p] = "idle"]
  /\ job' = [job EXCEPT ![p] = NoJob]
-----------------------------------------------------------------------------
(* A request *)

\* The reads and the guard; a refused operation ends here (409).
Check(p, j) ==
  /\ phase[p] = "idle" /\ Found(db, j) /\ ~Refused(db, j)
  /\ phase' = [phase EXCEPT ![p] = "checked"]
  /\ job' = [job EXCEPT ![p] = j]
  /\ watched' = [watched EXCEPT ![p] = Holders(db) # {}]
  /\ UNCHANGED db

\* setUserRoles deletes every role, then inserts the new ones: PUT /users/:id
\* gives it no transaction.
Write(p) ==
  /\ phase[p] = "checked"
  /\ IF job[p].op = "replace" /\ job[p].grant
     THEN /\ Commits(Written(db, job[p]), {p})
          /\ phase' = [phase EXCEPT ![p] = "replaced"] /\ UNCHANGED job
     ELSE Commits(Written(db, job[p]), {}) /\ Ends(p)

\* The INSERT fails on a deleted user and on a row another request inserted.
Reinsert(p) ==
  /\ phase[p] = "replaced"
  /\ job[p].user \in Existing(db) \ db.direct
  /\ Commits([db EXCEPT !.direct = @ \cup {job[p].user}], {})
  /\ Ends(p)

\* A crash or an error ends a request between its statements.
Abort(p) ==
  /\ phase[p] # "idle" /\ Ends(p)
  /\ watched' = [watched EXCEPT ![p] = FALSE]
  /\ UNCHANGED db

-----------------------------------------------------------------------------
(* Operations without a guard, in one statement *)

Unguarded(d) == Commits(d, {}) /\ UNCHANGED <<phase, job>>

\* changeStatus to active, and to pending, which the guard does not look at.
ChangeStatus(u, s) == u \in Existing(db) /\ Unguarded(WithStatus(db, u, s))

AssignToUser(u) == u \in Existing(db) /\ Unguarded([db EXCEPT !.direct = @ \cup {u}])

AddMember(g, u) ==
  /\ g \in db.groups /\ u \in Existing(db)
  /\ Unguarded([db EXCEPT !.member[g] = @ \cup {u}])

Serve(p) == (\E j \in Job : Check(p, j)) \/ Write(p) \/ Reinsert(p) \/ Abort(p)

Next ==
  \/ \E p \in Proc : Serve(p)
  \/ \E u \in User : (\E s \in {"active", "inactive"} : ChangeStatus(u, s)) \/ AssignToUser(u)
  \/ \E g \in Group, u \in User : AddMember(g, u)

Spec == Init /\ [][Next]_vars
-----------------------------------------------------------------------------
(* Properties *)

\* Roles and memberships are of existing users, bindings and memberships of
\* existing groups.
ForeignKeys(d) ==
  /\ d.direct \subseteq Existing(d) /\ d.bound \subseteq d.groups
  /\ \A g \in Group : d.member[g] \subseteq Existing(d) /\ (g \notin d.groups => d.member[g] = {})

\* Shapes, and the foreign keys.
TypeOK ==
  /\ db \in Db
  /\ phase \in [Proc -> {"idle", "checked", "replaced"}]
  /\ job \in [Proc -> Job \cup {NoJob}] /\ watched \in [Proc -> BOOLEAN]
  /\ ForeignKeys(db)

Finishes(p) == phase[p] # "idle" /\ db' # db /\ phase'[p] = "idle"

Stands(d, u) == u \in d.direct \/ ViaGroups(d, u, Group)

\* A request that nobody else's write overlaps leaves the tenant with an active
\* administrator, if it had one; replacing the bindings of a group leaves it at
\* least with a user who holds the role.
LoneRequestKeepsAnAdmin ==
  [][\A p \in Proc : Finishes(p) /\ watched[p] =>
       /\ \E u \in User : Stands(db', u)
       /\ job[p].op # "bind" => Holders(db') # {}]_vars

\* The guard refuses only what would leave the tenant without administrator:
\* a user who keeps the role some other way can be let go of.
RefusalsAreDue ==
  \A j \in Job : Refused(db, j) => Holders(Written(db, j)) = {}
=============================================================================
