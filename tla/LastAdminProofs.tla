-------------------------- MODULE LastAdminProofs --------------------------
(***************************************************************************)
(* Proofs about LastAdmin, and about the two modules MCLastAdmin hosts     *)
(* beside it, SecretStore (Secrets) and Setup (Wizard): any users, groups, *)
(* nodes and requests, any secrets, columns and rotations of the key, and  *)
(* any deployments, attempts and addresses.                                *)
(***************************************************************************)
EXTENDS MCLastAdmin, FiniteSetTheorems, TLAPS

-----------------------------------------------------------------------------
(* Administrators: what the guards let through leaves one, what they refuse *)
(* would not.                                                               *)

\* What a request relies on from its check to its last write.
Guarded ==
  \A p \in Proc :
    /\ phase[p] = "checked" => job[p] \in Job
    /\ phase[p] = "replaced" => job[p] \in [op: {"replace"}, user: User, grant: {TRUE}]
    /\ watched[p] /\ phase[p] = "checked" => ~Refused(db, job[p]) /\ Holders(db) # {}
    /\ watched[p] /\ phase[p] = "replaced" =>
         Holders([db EXCEPT !.direct = @ \cup {job[p].user}]) # {}

Inv == TypeOK /\ Guarded

Sound(d) == d \in Db /\ ForeignKeys(d)

\* Writes keep the shapes and the foreign keys.
LEMMA WrittenSound ==
  ASSUME NEW d, Sound(d), NEW j \in Job
  PROVE  Sound(Written(d, j))
<1> USE DEF Sound, Db, ForeignKeys, Existing
<1>1. CASE j.op = "delete"
  <2> DEFINE e == Written(d, j)
  <2>1. /\ j.user \in User /\ e.bound = d.bound /\ e.groups = d.groups
        /\ e.status = [d.status EXCEPT ![j.user] = "gone"] /\ e.direct = d.direct \ {j.user}
        /\ e.member = [g \in Group |-> d.member[g] \ {j.user}]
    BY <1>1 DEF Job, Written, WithoutUser
  <2>2. e \in Db
    BY <1>1, <2>1 DEF Written, WithoutUser
  <2> QED
    BY <2>1, <2>2
<1>2. CASE j.op = "suspend"
  BY <1>2 DEF Job, Written, WithStatus
<1>3. CASE j.op \in {"revoke", "replace"}
  <2>1. Written(d, j) = [d EXCEPT !.direct = @ \ {j.user}] /\ j.user \in User
    BY <1>3 DEF Job, Written
  <2> QED
    BY <2>1
<1>4. CASE j.op = "removeMember"
  BY <1>4, SMTT(60) DEF Job, Written
<1>5. CASE j.op = "deleteGroup"
  <2> DEFINE e == Written(d, j)
  <2>1. /\ j.group \in Group /\ e.status = d.status /\ e.direct = d.direct
        /\ e.groups = d.groups \ {j.group} /\ e.bound = d.bound \ {j.group}
        /\ e.member = [d.member EXCEPT ![j.group] = {}]
    BY <1>5 DEF Job, Written, WithoutGroup
  <2>2. e \in Db
    BY <1>5, <2>1 DEF Written, WithoutGroup
  <2> QED
    BY <2>1, <2>2
<1>6. CASE j.op = "bind"
  BY <1>6 DEF Job, Written
<1> QED
  BY <1>1, <1>2, <1>3, <1>4, <1>5, <1>6 DEF Job

\* An operation that its guard lets through leaves an administrator; replacing
\* the bindings of a group leaves at least somebody who holds the role.
LEMMA PassedKeeps ==
  ASSUME NEW d, Sound(d), NEW j \in Job, ~Refused(d, j), Holders(d) # {},
         ~(j.op = "replace" /\ j.grant)
  PROVE  /\ \E u \in User : Stands(Written(d, j), u)
         /\ j.op # "bind" => Holders(Written(d, j)) # {}
<1> DEFINE e == Written(d, j)
<1> USE DEF Sound, Db, ForeignKeys, Existing, Holders, ViaGroups, Stands
<1>0. SUFFICES /\ \E u \in User : Stands(e, u)
               /\ j.op # "bind" => Holders(e) # {}
  OBVIOUS
<1>1. CASE j.op \in {"delete", "suspend"}
  <2>1. PICK v \in Holders(d) : v # j.user
    BY <1>1 DEF Refused, WouldOrphan
  <2>2. v \in Holders(e)
    BY <1>1, <2>1 DEF Job, Written, WithoutUser, WithStatus
  <2> QED
    BY <1>1, <2>2
<1>2. CASE j.op \in {"revoke", "replace"}
  <2>1. CASE j.user \in d.direct /\ ~ViaGroups(d, j.user, Group)
    <3>1. PICK v \in Holders(d) : v # j.user
      BY <1>2, <2>1 DEF Refused, WouldOrphan, Job
    <3>2. v \in Holders(e)
      BY <1>2, <3>1 DEF Job, Written
    <3> QED
      BY <1>2, <3>2
  <2>2. CASE ~(j.user \in d.direct /\ ~ViaGroups(d, j.user, Group))
    <3>1. PICK v \in Holders(d) : TRUE
      OBVIOUS
    <3>2. v \in Holders(e)
      BY <1>2, <2>2, <3>1 DEF Job, Written
    <3> QED
      BY <1>2, <3>2
  <2> QED
    BY <2>1, <2>2
<1>3. CASE j.op = "removeMember"
  <2>1. PICK v \in Holders(d) : v # j.user \/ HoldsExceptVia(d, v, j.group)
    BY <1>3 DEF Refused, WouldOrphan
  <2>2. v \in Holders(e)
    BY <1>3, <2>1 DEF Job, Written, HoldsExceptVia
  <2> QED
    BY <1>3, <2>2
<1>4. CASE j.op = "deleteGroup"
  <2>1. PICK v \in HoldersWithout(d, j.group) : TRUE
    BY <1>4 DEF Refused
  <2>2. v \in Holders(e)
    <3>1. v \in User /\ d.status[v] = "active" /\ (v \in d.direct \/ ViaGroups(d, v, Group \ {j.group}))
      BY <2>1 DEF HoldersWithout
    <3>2. /\ e.status = d.status /\ e.direct = d.direct /\ e.bound = d.bound \ {j.group}
          /\ \A g \in Group \ {j.group} : e.member[g] = d.member[g]
      BY <1>4 DEF Job, Written, WithoutGroup
    <3> QED
      BY <3>1, <3>2
  <2> QED
    BY <1>4, <2>2
<1>5. CASE j.op = "bind" /\ j.grant
  <2>1. PICK v \in Holders(d) : TRUE
    OBVIOUS
  <2>2. Stands(e, v)
    BY <1>5, <2>1 DEF Job, Written
  <2> QED
    BY <1>5, <2>2
<1>6. CASE j.op = "bind" /\ ~j.grant
  <2>1. PICK v \in User : HoldsExceptVia(d, v, j.group)
    BY <1>6 DEF Refused, HoldersWithout, HoldsExceptVia, Job
  <2>2. Stands(e, v)
    BY <1>6, <2>1 DEF Job, Written, HoldsExceptVia
  <2> QED
    BY <1>6, <2>2
<1> QED
  BY <1>1, <1>2, <1>3, <1>4, <1>5, <1>6 DEF Job

\* An operation that its guard refuses would leave no administrator.
LEMMA RefusedOrphans ==
  ASSUME NEW d, Sound(d), NEW j \in Job, Refused(d, j)
  PROVE  Holders(Written(d, j)) = {}
<1> DEFINE e == Written(d, j)
<1> USE DEF Sound, Db, ForeignKeys, Existing, Holders, ViaGroups, WouldOrphan
<1> SUFFICES ASSUME NEW v \in Holders(e) PROVE FALSE
  OBVIOUS
<1>1. CASE j.op \in {"delete", "suspend"}
  <2>1. Holders(d) = {j.user} /\ j.user \in User
    BY <1>1 DEF Refused, Job
  <2>2. e = WithoutUser(d, j.user) \/ e = WithStatus(d, j.user, "inactive")
    BY <1>1 DEF Written
  <2> HIDE DEF e
  <2>3. /\ e.status[j.user] # "active" /\ e.bound = d.bound /\ e.direct \subseteq d.direct
        /\ \A u \in User : u # j.user => e.status[u] = d.status[u]
        /\ \A g \in Group : e.member[g] \subseteq d.member[g]
    <3>1. CASE e = WithoutUser(d, j.user)
      BY <2>1, <3>1 DEF WithoutUser
    <3>2. CASE e = WithStatus(d, j.user, "inactive")
      BY <2>1, <3>2 DEF WithStatus
    <3> QED
      BY <2>2, <3>1, <3>2
  <2>4. v \in Holders(d) /\ v # j.user
    BY <2>3
  <2> QED
    BY <2>1, <2>4
<1>2. CASE j.op \in {"revoke", "replace"}
  <2>1. Holders(d) = {j.user} /\ ~ViaGroups(d, j.user, Group)
    BY <1>2 DEF Refused
  <2>2. e = [d EXCEPT !.direct = @ \ {j.user}]
    BY <1>2 DEF Written
  <2> HIDE DEF e
  <2>3. e.status = d.status /\ e.member = d.member /\ e.bound = d.bound /\ e.direct = d.direct \ {j.user}
    BY <2>2
  <2>4. v \in Holders(d) /\ v # j.user
    BY <2>1, <2>3
  <2> QED
    BY <2>1, <2>4
<1>3. CASE j.op = "removeMember"
  <2>1. Holders(d) = {j.user} /\ ~HoldsExceptVia(d, j.user, j.group)
    BY <1>3 DEF Refused
  <2>2. v \in Holders(d)
    BY <1>3 DEF Job, Written
  <2>3. v = j.user
    BY <2>1, <2>2
  <2> QED
    BY <1>3, <2>1, <2>3 DEF Job, Written, HoldsExceptVia
<1>4. CASE j.op = "deleteGroup"
  <2>1. HoldersWithout(d, j.group) = {}
    BY <1>4 DEF Refused
  <2> QED
    BY <1>4, <2>1 DEF HoldersWithout, Job, Written, WithoutGroup
<1>5. CASE j.op = "bind"
  <2>1. HoldersWithout(d, j.group) = {} /\ ~j.grant
    BY <1>5 DEF Refused
  <2> QED
    BY <1>5, <2>1 DEF HoldersWithout, Job, Written
<1> QED
  BY <1>1, <1>2, <1>3, <1>4, <1>5 DEF Job

\* Adding a role, a membership or a status keeps the shapes and the keys, and
\* adding the role back takes nobody's standing away.
LEMMA AddedSound ==
  ASSUME NEW d, Sound(d), NEW u \in User, u \in Existing(d)
  PROVE  /\ Sound([d EXCEPT !.direct = @ \cup {u}])
         /\ \A s \in {"active", "inactive"} : Sound(WithStatus(d, u, s))
         /\ \A g \in d.groups : Sound([d EXCEPT !.member[g] = @ \cup {u}])
<1> USE DEF Sound, Db, ForeignKeys, Existing
<1>1. Sound([d EXCEPT !.direct = @ \cup {u}])
  OBVIOUS
<1>2. ASSUME NEW s \in {"active", "inactive"} PROVE Sound(WithStatus(d, u, s))
  BY DEF WithStatus
<1>3. ASSUME NEW g \in d.groups PROVE Sound([d EXCEPT !.member[g] = @ \cup {u}])
  OBVIOUS
<1> QED
  BY <1>1, <1>2, <1>3

LEMMA ReplacedKeeps ==
  ASSUME NEW d, Sound(d), NEW j \in Job, j.op = "replace"
  PROVE  Holders(d) \subseteq Holders([Written(d, j) EXCEPT !.direct = @ \cup {j.user}])
  BY DEF Sound, Db, Holders, ViaGroups, Job, Written

\* The initial state satisfies the invariant.
LEMMA InitInv == Init => Inv
  BY DEF Init, Inv, TypeOK, Guarded, Db, ForeignKeys, Existing, Job, NoJob

\* Every step preserves the invariant.
LEMMA NextInv == Inv /\ [Next]_vars => Inv'
<1> SUFFICES ASSUME Inv, [Next]_vars PROVE Inv'
  OBVIOUS
<1> USE DEF Inv
<1>0. Sound(db)
  BY DEF TypeOK, Sound
<1>1. ASSUME NEW p \in Proc, NEW j \in Job, Check(p, j) PROVE Inv'
  BY <1>1 DEF Check, TypeOK, Guarded
<1>2. ASSUME NEW p \in Proc, Write(p) PROVE Inv'
  <2>1. job[p] \in Job
    BY <1>2 DEF Write, Guarded
  <2>2. db' = Written(db, job[p]) /\ Sound(db')
    BY <1>0, <1>2, <2>1, WrittenSound DEF Write, Commits
  <2>3. CASE job[p].op = "replace" /\ job[p].grant
    <3>1. /\ phase' = [phase EXCEPT ![p] = "replaced"] /\ job' = job
          /\ watched' = [q \in Proc |-> q \in {p} /\ watched[q]]
      BY <1>2, <2>3 DEF Write, Commits
    <3>2. job[p] \in [op: {"replace"}, user: User, grant: {TRUE}]
      BY <2>1, <2>3 DEF Job
    <3>3. watched[p] => Holders([db' EXCEPT !.direct = @ \cup {job[p].user}]) # {}
      BY <1>0, <1>2, <2>1, <2>2, <2>3, ReplacedKeeps DEF Guarded, Write
    <3>4. TypeOK'
      BY <2>2, <3>1 DEF TypeOK, Sound
    <3>5. Guarded'
      BY <3>1, <3>2, <3>3 DEF Guarded, TypeOK
    <3> QED
      BY <3>4, <3>5
  <2>4. CASE ~(job[p].op = "replace" /\ job[p].grant)
    <3>1. /\ phase' = [phase EXCEPT ![p] = "idle"] /\ job' = [job EXCEPT ![p] = NoJob]
          /\ watched' = [q \in Proc |-> FALSE]
      BY <1>2, <2>4 DEF Write, Commits, Ends
    <3>2. TypeOK'
      BY <2>2, <3>1 DEF TypeOK, Sound
    <3>3. Guarded'
      BY <3>1 DEF Guarded, TypeOK
    <3> QED
      BY <3>2, <3>3
  <2> QED
    BY <2>3, <2>4
<1>3. ASSUME NEW p \in Proc, Reinsert(p) PROVE Inv'
  <2>1. job[p].user \in User
    BY <1>3 DEF Reinsert, Guarded
  <2>2. Sound(db')
    BY <1>0, <1>3, <2>1, AddedSound DEF Reinsert, Commits
  <2>3. /\ phase' = [phase EXCEPT ![p] = "idle"] /\ job' = [job EXCEPT ![p] = NoJob]
        /\ watched' = [q \in Proc |-> FALSE]
    BY <1>3 DEF Reinsert, Commits, Ends
  <2>4. TypeOK'
    BY <2>2, <2>3 DEF TypeOK, Sound
  <2> QED
    BY <2>3, <2>4 DEF Guarded, TypeOK
<1>4. ASSUME NEW p \in Proc, Abort(p) PROVE Inv'
  BY <1>4 DEF Abort, Ends, TypeOK, Guarded
<1>5. ASSUME NEW d, Sound(d), Unguarded(d) PROVE Inv'
  BY <1>5 DEF Unguarded, Commits, TypeOK, Guarded, Sound
<1>6. ASSUME NEW u \in User, NEW s \in {"active", "inactive"}, ChangeStatus(u, s) PROVE Inv'
  BY <1>0, <1>5, <1>6, AddedSound DEF ChangeStatus
<1>7. ASSUME NEW u \in User, AssignToUser(u) PROVE Inv'
  BY <1>0, <1>5, <1>7, AddedSound DEF AssignToUser
<1>8. ASSUME NEW g \in Group, NEW u \in User, AddMember(g, u) PROVE Inv'
  BY <1>0, <1>5, <1>8, AddedSound DEF AddMember
<1>9. CASE UNCHANGED vars
  BY <1>9 DEF vars, TypeOK, Guarded
<1> QED
  BY <1>1, <1>2, <1>3, <1>4, <1>6, <1>7, <1>8, <1>9 DEF Next, Serve

\* Roles and memberships never outlive their user or group.
THEOREM TypeCorrect == Spec => []TypeOK
<1>1. Inv => TypeOK
  BY DEF Inv
<1> QED
  BY InitInv, NextInv, <1>1, PTL DEF Spec

\* The guard refuses nothing that would leave an administrator.
THEOREM RefusalsDue == Spec => []RefusalsAreDue
<1>1. Inv => RefusalsAreDue
  BY RefusedOrphans DEF Inv, TypeOK, Sound, RefusalsAreDue
<1> QED
  BY InitInv, NextInv, <1>1, PTL DEF Spec

\* A request that no other write overlaps keeps an administrator, whatever the
\* other requests have read.
THEOREM LoneRequests == Spec => LoneRequestKeepsAnAdmin
<1> DEFINE Kept(p) == /\ \E u \in User : Stands(db', u)
                      /\ job[p].op # "bind" => Holders(db') # {}
<1>1. ASSUME Inv, [Next]_vars, NEW p \in Proc, Finishes(p), watched[p] PROVE Kept(p)
  <2> USE <1>1 DEF Inv
  <2>0. Sound(db)
    BY DEF TypeOK, Sound
  <2>1. PICK q \in Proc : Write(q) \/ Reinsert(q)
    BY DEF Finishes, Next, Serve, Check, Abort, ChangeStatus, AssignToUser, AddMember, Unguarded, vars
  <2>2. q = p
    BY <2>1 DEF Finishes, Write, Reinsert, Ends, TypeOK
  <2>3. CASE Write(p)
    <3>1. /\ db' = Written(db, job[p]) /\ ~(job[p].op = "replace" /\ job[p].grant)
          /\ job[p] \in Job /\ ~Refused(db, job[p]) /\ Holders(db) # {}
      BY <2>3 DEF Finishes, Write, Commits, Guarded, TypeOK
    <3> QED
      BY <2>0, <3>1, PassedKeeps
  <2>4. CASE Reinsert(p)
    <3>1. Holders(db') # {}
      BY <2>4 DEF Reinsert, Commits, Guarded
    <3> QED
      BY <3>1 DEF Holders, Stands
  <2> QED
    BY <2>1, <2>2, <2>3, <2>4
<1>2. Inv /\ [Next]_vars => [\A p \in Proc : Finishes(p) /\ watched[p] => Kept(p)]_vars
  BY <1>1
<1> QED
  BY InitInv, NextInv, <1>2, PTL DEF Spec, LoneRequestKeepsAnAdmin

-----------------------------------------------------------------------------
(* Secrets at rest *)

\* What a cell can hold, and what of it the proofs use.
Held == {Secrets!Absent, Secrets!V1} \cup {Secrets!V2(k, s) : k \in 0..MaxKey, s \in 1..MaxSecret}

Environment == {e \in [cur : 0..MaxKey, old : {None} \cup (0..MaxKey)] : e.old \in {None, e.cur - 1}}

Errand == [does : {"rotate", "surface"}, on : Node, cell : Cell, seen : Held]

\* A pass of the script; what it has seen of a column are rows with something in them.
Seen == UNION {[S -> Held] : S \in SUBSET Cell}
Passes == [at : {"idle", "scan", "row"}, commit : BOOLEAN, col : 1..Len(Columns) + 1, seen : Seen,
           clean : BOOLEAN, failures : SUBSET Cell]

SecretShapes ==
  /\ stock \in [Cell -> Held] /\ told \in [Cell -> 0..MaxSecret]
  /\ config \in Environment /\ env \in [Node -> Environment]
  /\ request \in [Request -> {Secrets!NoRequest} \cup Errand]
  /\ \A r \in Request : request[r] # Secrets!NoRequest => request[r].seen.form # "none"
  /\ pass \in Passes /\ \A c \in DOMAIN pass.seen : pass.seen[c].form # "none"
  /\ proved \in BOOLEAN /\ overwritten \subseteq Cell

\* Nothing is written with a key that is not in the configuration yet.
KeysOnlyRise ==
  /\ \A n \in Node : env[n].cur <= config.cur
  /\ \A c \in Cell : stock[c].key <= config.cur

\* The script has dealt with the columns before the current one, and with the rows of this
\* one that are not waiting.
Behind(c) ==
  \/ \E i \in 1..pass.col - 1 : c \in Columns[i]
  \/ pass.at = "row" /\ c \in Columns[pass.col] \ DOMAIN pass.seen

\* A legacy row the script is past has been found, by a dry run, or reported; and one that
\* waits for its turn was legacy when it was read.
ScriptIsThorough ==
  /\ pass.at = "row" => pass.col <= Len(Columns)
  /\ \A c \in Cell :
       stock[c].form = "v1" =>
         /\ Behind(c) => ~pass.clean /\ (pass.commit => c \in pass.failures)
         /\ c \in DOMAIN pass.seen => pass.seen[c].form = "v1"
         /\ ~proved

SecretInv ==
  /\ SecretShapes /\ KeysOnlyRise /\ ScriptIsThorough
  /\ Secrets!LegacyRowsAreConverted /\ Secrets!ToldSecretsAreStored

LEMMA HeldFacts ==
  /\ Secrets!Absent \in Held
  /\ \A k \in 0..MaxKey, s \in 1..MaxSecret : Secrets!V2(k, s) \in Held
  /\ \A v \in Held :
       /\ v.form \in {"none", "v1", "v2"} /\ v.key \in 0..MaxKey /\ v.secret \in 0..MaxSecret
       /\ v.form # "none" => v.secret \in 1..MaxSecret
       /\ v.form # "v2" => v.key = 0
<1>1. \A v \in Held :
        v = Secrets!Absent \/ v = Secrets!V1 \/ \E k \in 0..MaxKey, s \in 1..MaxSecret : v = Secrets!V2(k, s)
  BY DEF Held
<1>2. \A v \in Held :
        /\ v.form \in {"none", "v1", "v2"} /\ v.key \in 0..MaxKey /\ v.secret \in 0..MaxSecret
        /\ v.form # "none" => v.secret \in 1..MaxSecret
        /\ v.form # "v2" => v.key = 0
  BY <1>1, SecretsAssumption DEF Secrets!Absent, Secrets!V1, Secrets!V2
<1>3. Secrets!Absent \in Held /\ \A k \in 0..MaxKey, s \in 1..MaxSecret : Secrets!V2(k, s) \in Held
  BY DEF Held
<1> QED
  BY <1>2, <1>3

LEMMA V2Facts ==
  ASSUME NEW k, NEW s
  PROVE  Secrets!V2(k, s).form = "v2" /\ Secrets!V2(k, s).key = k /\ Secrets!V2(k, s).secret = s
BY DEF Secrets!V2

LEMMA PassFacts ==
  ASSUME pass \in Passes
  PROVE  /\ DOMAIN pass.seen \subseteq Cell /\ pass.seen \in [DOMAIN pass.seen -> Held]
         /\ pass.at \in {"idle", "scan", "row"} /\ pass.commit \in BOOLEAN /\ pass.clean \in BOOLEAN
         /\ pass.col \in 1..Len(Columns) + 1 /\ pass.failures \subseteq Cell
BY DEF Passes, Seen

LEMMA NoPassIsPass ==
  /\ Secrets!NoPass \in Passes /\ Secrets!NoPass.at = "idle" /\ Secrets!NoPass.col = 1
  /\ DOMAIN Secrets!NoPass.seen = {}
<1>1. << >> \in [{} -> Held]
  OBVIOUS
<1>2. << >> \in Seen
  BY <1>1 DEF Seen
<1>3. 1 \in 1..Len(Columns) + 1
  BY SecretsAssumption
<1> QED
  BY <1>2, <1>3 DEF Secrets!NoPass, Passes

LEMMA ColumnFacts ==
  /\ Len(Columns) \in Nat
  /\ \A i \in 1..Len(Columns) : Columns[i] \subseteq Cell
  /\ \A c \in Cell : \E i \in 1..Len(Columns) : c \in Columns[i]
BY SecretsAssumption

LEMMA SecretsImply == SecretInv => NoSecretIsLost
<1> SUFFICES ASSUME SecretInv PROVE NoSecretIsLost
  OBVIOUS
<1>1. Secrets!TypeOK
  <2>1. pass.col \in 1..Len(Columns) + 1 /\ pass.failures \subseteq Cell /\ Secrets!Rows \subseteq Cell
    BY PassFacts DEF SecretInv, SecretShapes, Secrets!Rows
  <2>2. \A e \in {config} \cup {env[n] : n \in Node} : e.cur \in 0..MaxKey /\ e.old \in {None, e.cur - 1}
    BY DEF SecretInv, SecretShapes, Environment
  <2>3. \A r \in Request : request[r] # Secrets!NoRequest => request[r].cell \in Cell /\ request[r].seen.form # "none"
    BY DEF SecretInv, SecretShapes, Errand
  <2> QED
    BY <2>1, <2>2, <2>3 DEF SecretInv, SecretShapes, Secrets!TypeOK, Held
<1>2. Secrets!WindowKeepsEveryRow
  <2> SUFFICES ASSUME config.old = 0, NEW n \in Node, NEW c \in Cell, env[n] = config
               PROVE  Secrets!Readable(stock[c], env[n])
    BY DEF Secrets!WindowKeepsEveryRow
  <2>1. config.cur = 1
    BY SecretsAssumption DEF SecretInv, SecretShapes, Environment
  <2>2. stock[c].key \in 0..1
    <3>1. stock[c] \in Held /\ stock[c].key <= 1
      BY <2>1 DEF SecretInv, SecretShapes, KeysOnlyRise
    <3>2. stock[c].key \in 0..MaxKey
      BY <3>1, HeldFacts
    <3> QED
      BY <3>1, <3>2, SecretsAssumption
  <2> QED
    BY <2>1, <2>2, SecretsAssumption DEF Secrets!Readable, Secrets!Candidates
<1>3. Secrets!EveryRowIsReported
  BY ColumnFacts, PassFacts DEF SecretInv, SecretShapes, ScriptIsThorough, Behind, Secrets!EveryRowIsReported
<1> QED
  BY <1>1, <1>2, <1>3 DEF NoSecretIsLost, Secrets!NoSecretIsLost, SecretInv

LEMMA InitSecrets == Secrets!Init => SecretInv
<1> SUFFICES ASSUME Secrets!Init PROVE SecretInv
  OBVIOUS
<1>1. \A c \in Cell : stock[c] \in Held /\ stock[c].key = 0
  BY SecretsAssumption DEF Secrets!Init, Held, Secrets!Absent, Secrets!V1, Secrets!V2
<1>2. [cur |-> 0, old |-> None] \in Environment
  BY SecretsAssumption DEF Environment
<1>3. config \in Environment /\ config.cur = 0 /\ env = [n \in Node |-> config]
  BY <1>2 DEF Secrets!Init
<1>4. SecretShapes
  BY <1>1, <1>3, NoPassIsPass, HeldFacts DEF SecretShapes, Secrets!Init
<1>5. KeysOnlyRise
  BY <1>1, <1>3 DEF KeysOnlyRise
<1>6. ScriptIsThorough
  BY NoPassIsPass DEF ScriptIsThorough, Behind, Secrets!Init
<1> QED
  BY <1>3, <1>4, <1>5, <1>6 DEF SecretInv, Secrets!Init, Secrets!LegacyRowsAreConverted, Secrets!ToldSecretsAreStored

\* A cell is given a value that is not legacy, or emptied, or keeps what it has.
LEMMA CellChanges ==
  ASSUME SecretInv, NEW c \in Cell, NEW v \in Held, stock' = [stock EXCEPT ![c] = v],
         v.form # "v1" \/ v = stock[c], v.key <= config.cur,
         v.form # "none" => v.secret = told'[c] \/ c \in overwritten',
         \A d \in Cell : d # c => told'[d] = told[d], told' \in [Cell -> 0..MaxSecret],
         overwritten \subseteq overwritten', overwritten' \subseteq Cell, UNCHANGED <<env, config, proved>>
  PROVE  /\ stock' \in [Cell -> Held] /\ KeysOnlyRise'
         /\ \A d \in Cell : stock'[d].form = "v1" => stock[d].form = "v1"
         /\ Secrets!LegacyRowsAreConverted' /\ Secrets!ToldSecretsAreStored'
<1>1. stock' \in [Cell -> Held] /\ \A d \in Cell : stock'[d] = IF d = c THEN v ELSE stock[d]
  BY DEF SecretInv, SecretShapes
<1>2. \A d \in Cell : stock'[d].form = "v1" => stock[d].form = "v1"
  BY <1>1
<1>3. KeysOnlyRise'
  BY <1>1 DEF SecretInv, KeysOnlyRise
<1>4. Secrets!LegacyRowsAreConverted'
  BY <1>2 DEF SecretInv, Secrets!LegacyRowsAreConverted
<1>5. Secrets!ToldSecretsAreStored'
  BY <1>1 DEF SecretInv, Secrets!ToldSecretsAreStored, Secrets!Exists
<1> QED
  BY <1>1, <1>2, <1>3, <1>4, <1>5

\* The routes leave the script alone.
LEMMA RouteKeeps ==
  ASSUME SecretInv, UNCHANGED <<pass, proved>>, \A d \in Cell : stock'[d].form = "v1" => stock[d].form = "v1"
  PROVE  ScriptIsThorough'
BY DEF SecretInv, ScriptIsThorough, Behind

LEMMA RequestEnds ==
  ASSUME SecretInv, NEW r \in Request, request' = [request EXCEPT ![r] = Secrets!NoRequest]
  PROVE  /\ request' \in [Request -> {Secrets!NoRequest} \cup Errand]
         /\ \A q \in Request : request'[q] # Secrets!NoRequest => request'[q].seen.form # "none"
BY DEF SecretInv, SecretShapes

LEMMA RoutesKeepSecrets ==
  ASSUME SecretInv,
         \/ \E n \in Node, c \in Cell :
              Secrets!Create(n, c) \/ \E r \in Request, does \in {"rotate", "surface"} : Secrets!Get(r, n, c, does)
         \/ \E r \in Request : request[r] # Secrets!NoRequest /\ (Secrets!RotateSecret(r) \/ Secrets!UpdateRotationSurface(r))
         \/ \E c \in Cell : Secrets!Remove(c)
  PROVE  SecretInv'
<1>0. \A n \in Node : env[n].cur \in 0..MaxKey /\ env[n].cur <= config.cur
  BY DEF SecretInv, SecretShapes, KeysOnlyRise, Environment
<1>1. ASSUME NEW n \in Node, NEW c \in Cell, Secrets!Create(n, c) PROVE SecretInv'
  <2> DEFINE v == Secrets!V2(env[n].cur, 1)
  <2>1. v \in Held /\ v.form = "v2" /\ v.key = env[n].cur /\ v.secret = 1
    BY <1>0, HeldFacts, V2Facts, SecretsAssumption
  <2>2. told' \in [Cell -> 0..MaxSecret] /\ told'[c] = 1 /\ \A d \in Cell : d # c => told'[d] = told[d]
    BY <1>1, SecretsAssumption DEF Secrets!Create, SecretInv, SecretShapes
  <2>3. stock' = [stock EXCEPT ![c] = v] /\ UNCHANGED <<env, config, request, pass, proved, overwritten>>
    BY <1>1 DEF Secrets!Create, Secrets!nodeVars
  <2> HIDE DEF v
  <2>4. /\ stock' \in [Cell -> Held] /\ KeysOnlyRise'
        /\ \A d \in Cell : stock'[d].form = "v1" => stock[d].form = "v1"
        /\ Secrets!LegacyRowsAreConverted' /\ Secrets!ToldSecretsAreStored'
    BY <1>0, <2>1, <2>2, <2>3, CellChanges DEF SecretInv, SecretShapes
  <2> QED
    BY <2>2, <2>3, <2>4, RouteKeeps DEF SecretInv, SecretShapes
<1>2. ASSUME NEW n \in Node, NEW c \in Cell, NEW r \in Request, NEW does \in {"rotate", "surface"},
             Secrets!Get(r, n, c, does)
      PROVE  SecretInv'
  <2>1. [does |-> does, on |-> n, cell |-> c, seen |-> stock[c]] \in Errand
    BY DEF Errand, SecretInv, SecretShapes
  <2>2. /\ request' \in [Request -> {Secrets!NoRequest} \cup Errand]
        /\ \A q \in Request : request'[q] # Secrets!NoRequest => request'[q].seen.form # "none"
    BY <1>2, <2>1 DEF Secrets!Get, Secrets!Exists, SecretInv, SecretShapes
  <2>3. UNCHANGED <<stock, told, env, config, pass, proved, overwritten>>
    BY <1>2 DEF Secrets!Get, Secrets!nodeVars
  <2> QED
    BY <2>2, <2>3, RouteKeeps DEF SecretInv, SecretShapes, KeysOnlyRise, Secrets!LegacyRowsAreConverted,
       Secrets!ToldSecretsAreStored, Secrets!Exists
<1>3. ASSUME NEW r \in Request, request[r] # Secrets!NoRequest, Secrets!RotateSecret(r) PROVE SecretInv'
  <2> DEFINE c == request[r].cell
             s == told[request[r].cell] + 1
             k == env[request[r].on].cur
  <2>1. c \in Cell /\ request[r].on \in Node
    BY <1>3 DEF SecretInv, SecretShapes, Errand
  <2>2. s \in 1..MaxSecret /\ k \in 0..MaxKey /\ k <= config.cur
    BY <1>0, <1>3, <2>1, SecretsAssumption DEF Secrets!RotateSecret, SecretInv, SecretShapes
  <2>3. told' = [told EXCEPT ![c] = s] /\ request' = [request EXCEPT ![r] = Secrets!NoRequest]
        /\ UNCHANGED <<env, config, pass, proved, overwritten>>
    BY <1>3 DEF Secrets!RotateSecret, Secrets!nodeVars
  <2>4. stock' = IF Secrets!Exists(c) THEN [stock EXCEPT ![c] = Secrets!V2(k, s)] ELSE stock
    BY <1>3 DEF Secrets!RotateSecret, Secrets!Updated
  <2> HIDE DEF c, s, k
  <2>5. told' \in [Cell -> 0..MaxSecret] /\ told'[c] = s /\ \A d \in Cell : d # c => told'[d] = told[d]
    BY <2>1, <2>2, <2>3, SecretsAssumption DEF SecretInv, SecretShapes
  <2>6. PICK v \in Held : /\ stock' = [stock EXCEPT ![c] = v] /\ (v.form # "v1" \/ v = stock[c])
                          /\ v.key <= config.cur /\ (v.form # "none" => v.secret = told'[c])
    <3>1. CASE Secrets!Exists(c)
      <4>1. Secrets!V2(k, s) \in Held /\ Secrets!V2(k, s).form = "v2" /\ Secrets!V2(k, s).key = k /\ Secrets!V2(k, s).secret = s
        BY <2>2, HeldFacts, V2Facts
      <4> QED
        BY <2>2, <2>4, <2>5, <3>1, <4>1
    <3>2. CASE ~Secrets!Exists(c)
      <4>1. stock[c] \in Held /\ stock' = [stock EXCEPT ![c] = stock[c]] /\ stock[c].form = "none" /\ stock[c].key <= config.cur
        BY <2>1, <2>4, <3>2 DEF SecretInv, SecretShapes, KeysOnlyRise, Secrets!Exists
      <4> QED
        BY <4>1
    <3> QED
      BY <3>1, <3>2
  <2>7. /\ stock' \in [Cell -> Held] /\ KeysOnlyRise'
        /\ \A d \in Cell : stock'[d].form = "v1" => stock[d].form = "v1"
        /\ Secrets!LegacyRowsAreConverted' /\ Secrets!ToldSecretsAreStored'
    BY <2>1, <2>3, <2>5, <2>6, CellChanges DEF SecretInv, SecretShapes
  <2> QED
    BY <2>3, <2>5, <2>7, RouteKeeps, RequestEnds DEF SecretInv, SecretShapes
<1>4. ASSUME NEW r \in Request, request[r] # Secrets!NoRequest, Secrets!UpdateRotationSurface(r) PROVE SecretInv'
  <2>1. request[r].cell \in Cell
    BY <1>4 DEF SecretInv, SecretShapes, Errand
  <2>2. stock' = stock /\ request' = [request EXCEPT ![r] = Secrets!NoRequest]
        /\ UNCHANGED <<told, env, config, pass, proved, overwritten>>
    BY <1>4, <2>1 DEF Secrets!UpdateRotationSurface, Secrets!Updated, Secrets!Surface, Secrets!nodeVars, SecretInv, SecretShapes
  <2> QED
    BY <2>2, RouteKeeps, RequestEnds DEF SecretInv, SecretShapes, KeysOnlyRise, Secrets!LegacyRowsAreConverted,
       Secrets!ToldSecretsAreStored, Secrets!Exists
<1>5. ASSUME NEW c \in Cell, Secrets!Remove(c) PROVE SecretInv'
  <2>1. Secrets!Absent \in Held /\ Secrets!Absent.form = "none" /\ Secrets!Absent.key = 0
    BY HeldFacts DEF Secrets!Absent
  <2>2. stock' = [stock EXCEPT ![c] = Secrets!Absent] /\ UNCHANGED <<told, env, config, request, pass, proved, overwritten>>
    BY <1>5 DEF Secrets!Remove, Secrets!nodeVars
  <2>3. /\ stock' \in [Cell -> Held] /\ KeysOnlyRise'
        /\ \A d \in Cell : stock'[d].form = "v1" => stock[d].form = "v1"
        /\ Secrets!LegacyRowsAreConverted' /\ Secrets!ToldSecretsAreStored'
    <3>1. 0 <= config.cur
      BY SecretsAssumption DEF SecretInv, SecretShapes, Environment
    <3> QED
      BY <2>1, <2>2, <3>1, CellChanges DEF SecretInv, SecretShapes
  <2> QED
    BY <2>2, <2>3, RouteKeeps DEF SecretInv, SecretShapes
<1> QED
  BY <1>1, <1>2, <1>3, <1>4, <1>5

\* A pass that has dealt with one row, or reads a column, keeps its word.
LEMMA PassMoves ==
  ASSUME SecretInv, pass' \in Passes, \A c \in DOMAIN pass'.seen : pass'.seen[c].form # "none",
         pass'.at = "row" => pass'.col <= Len(Columns),
         \A d \in Cell : stock'[d].form = "v1" => stock[d].form = "v1",
         \A d \in Cell : stock'[d].form = "v1" =>
           /\ Behind(d)' => Behind(d) \/ (~pass'.clean /\ (pass'.commit => d \in pass'.failures))
           /\ d \in DOMAIN pass'.seen => pass'.seen[d].form = "v1",
         pass'.commit = pass.commit, pass'.clean => pass.clean, pass.failures \subseteq pass'.failures,
         UNCHANGED proved
  PROVE  ScriptIsThorough'
BY DEF SecretInv, ScriptIsThorough

LEMMA ScriptKeepsSecrets ==
  ASSUME SecretInv, Secrets!Script
  PROVE  SecretInv'
<1>0. /\ DOMAIN pass.seen \subseteq Cell /\ pass.seen \in [DOMAIN pass.seen -> Held] /\ pass \in Passes
      /\ pass.col \in 1..Len(Columns) + 1
  BY PassFacts DEF SecretInv, SecretShapes
<1>1. ASSUME NEW b \in BOOLEAN, Secrets!Begin(b) PROVE SecretInv'
  <2>1. pass' \in Passes /\ pass'.at = "scan" /\ pass'.col = 1 /\ DOMAIN pass'.seen = {}
    BY <1>1, NoPassIsPass DEF Secrets!Begin, Passes
  <2>2. UNCHANGED <<stock, told, env, config, request, proved, overwritten>>
    BY <1>1 DEF Secrets!Begin, Secrets!nodeVars
  <2>3. ScriptIsThorough'
    BY <2>1, <2>2 DEF SecretInv, ScriptIsThorough, Behind
  <2> QED
    BY <2>1, <2>2, <2>3 DEF SecretInv, SecretShapes, KeysOnlyRise, Secrets!LegacyRowsAreConverted,
       Secrets!ToldSecretsAreStored, Secrets!Exists
<1>2. CASE Secrets!Scan
  <2> DEFINE S == {d \in Columns[pass.col] : Secrets!Exists(d)}
             f == [c \in S |-> stock[c]]
  <2>1. pass.col \in 1..Len(Columns) /\ Columns[pass.col] \subseteq Cell
    BY <1>0, <1>2, ColumnFacts DEF Secrets!Scan
  <2>2. f \in [S -> Held] /\ S \in SUBSET Cell
    BY <2>1 DEF SecretInv, SecretShapes
  <2>3. f \in Seen
    BY <2>2 DEF Seen
  <2>4. DOMAIN f = S /\ \A d \in S : f[d] = stock[d] /\ f[d].form # "none"
    BY DEF Secrets!Exists
  <2>5. \A d \in Columns[pass.col] \ S : stock[d].form # "v1"
    BY DEF Secrets!Exists
  <2>6. pass' = [pass EXCEPT !.at = "row", !.seen = f] /\ UNCHANGED <<stock, told, env, config, request, proved, overwritten>>
    BY <1>2 DEF Secrets!Scan, Secrets!nodeVars
  <2> HIDE DEF f
  <2>7. pass' \in Passes /\ pass'.at = "row" /\ pass'.seen = f /\ pass'.col = pass.col /\ pass'.commit = pass.commit
        /\ pass'.clean = pass.clean /\ pass'.failures = pass.failures
    BY <1>0, <2>3, <2>6 DEF Passes
  <2>8. ScriptIsThorough'
    BY <2>1, <2>4, <2>5, <2>6, <2>7, PassMoves DEF Behind
  <2> QED
    BY <2>4, <2>6, <2>7, <2>8 DEF SecretInv, SecretShapes, KeysOnlyRise, Secrets!LegacyRowsAreConverted,
       Secrets!ToldSecretsAreStored, Secrets!Exists
<1>3. ASSUME NEW c \in Cell, Secrets!Skip(c) \/ Secrets!Rewrap(c) \/ Secrets!RewrapFails(c)
      PROVE  SecretInv'
  <2> DEFINE f == [d \in DOMAIN pass.seen \ {c} |-> pass.seen[d]]
             b == pass.clean /\ ~Secrets!PlanRewrap(pass.seen[c])
  <2>1. pass.at = "row" /\ c \in DOMAIN pass.seen
    <3>1. pass.at = "row" /\ Secrets!Rows # {} /\ c = Secrets!NextRow
      BY <1>3 DEF Secrets!Skip, Secrets!Rewrap, Secrets!RewrapFails, Secrets!Rewraps
    <3> QED
      BY <3>1 DEF Secrets!Rows, Secrets!NextRow
  <2>2. f \in [DOMAIN pass.seen \ {c} -> Held] /\ DOMAIN pass.seen \ {c} \in SUBSET Cell
    BY <1>0
  <2>3. f \in Seen /\ DOMAIN f = DOMAIN pass.seen \ {c} /\ \A d \in DOMAIN f : f[d] = pass.seen[d]
    BY <2>2 DEF Seen
  <2>4. b \in BOOLEAN /\ (b => pass.clean) /\ (b => pass.seen[c].form = "v2")
    BY DEF Secrets!PlanRewrap
  <2>5. Secrets!Done(c) = [pass EXCEPT !.seen = f, !.clean = b]
    BY DEF Secrets!Done, Secrets!Rows
  <2> HIDE DEF f, b
  <2>6. PICK F \in SUBSET Cell : /\ pass' = [pass EXCEPT !.seen = f, !.clean = b, !.failures = F]
                                 /\ F = pass.failures \/ F = pass.failures \cup {c}
                                 /\ Secrets!RewrapFails(c) => c \in F
    <3>1. [pass EXCEPT !.seen = f, !.clean = b] = [pass EXCEPT !.seen = f, !.clean = b, !.failures = pass.failures]
      BY <1>0 DEF Passes
    <3>2. CASE Secrets!RewrapFails(c)
      <4>1. pass' = [pass EXCEPT !.seen = f, !.clean = b, !.failures = pass.failures \cup {c}]
        BY <1>0, <2>5, <3>2 DEF Secrets!RewrapFails, Secrets!Failed, Passes
      <4> QED
        BY <1>0, <4>1, ZenonT(60) DEF Passes
    <3>3. CASE (Secrets!Skip(c) \/ Secrets!Rewrap(c)) /\ ~Secrets!RewrapFails(c)
      <4>1. pass' = [pass EXCEPT !.seen = f, !.clean = b, !.failures = pass.failures]
        BY <2>5, <3>1, <3>3 DEF Secrets!Skip, Secrets!Rewrap
      <4> QED
        BY <1>0, <3>3, <4>1 DEF Passes
    <3> QED
      BY <1>3, <3>2, <3>3
  <2>7. pass' \in Passes /\ pass'.at = "row" /\ pass'.seen = f /\ pass'.col = pass.col /\ pass'.commit = pass.commit
        /\ pass'.clean = b /\ pass'.failures = F
    BY <1>0, <2>1, <2>3, <2>4, <2>6 DEF Passes
  <2>8. UNCHANGED <<told, env, config, request, proved>>
    BY <1>3 DEF Secrets!Skip, Secrets!Rewrap, Secrets!RewrapFails, Secrets!nodeVars
  <2>9. /\ stock' \in [Cell -> Held] /\ KeysOnlyRise'
        /\ \A d \in Cell : stock'[d].form = "v1" => stock[d].form = "v1"
        /\ Secrets!LegacyRowsAreConverted' /\ Secrets!ToldSecretsAreStored'
        /\ overwritten' \subseteq Cell
        /\ Secrets!Rewrap(c) => stock'[c].form # "v1"
    <3>1. CASE Secrets!Rewrap(c)
      <4> DEFINE v == pass.seen[c]
      <4>1. v \in Held /\ v.form # "none"
        BY <1>0, <2>1 DEF SecretInv, SecretShapes
      <4>2. v.secret \in 1..MaxSecret /\ config.cur \in 0..MaxKey
        BY <4>1, HeldFacts DEF SecretInv, SecretShapes, Environment
      <4>3. /\ overwritten' = IF v.secret # stock[c].secret THEN overwritten \cup {c} ELSE overwritten
            /\ stock' = IF Secrets!Exists(c) THEN [stock EXCEPT ![c] = Secrets!V2(config.cur, v.secret)] ELSE stock
        BY <3>1 DEF Secrets!Rewrap, Secrets!Updated
      <4> HIDE DEF v
      <4>4. CASE Secrets!Exists(c)
        <5> DEFINE w == Secrets!V2(config.cur, v.secret)
        <5>1. w \in Held /\ w.form = "v2" /\ w.key = config.cur /\ w.secret = v.secret
          BY <4>2, HeldFacts, V2Facts
        <5>2. stock' = [stock EXCEPT ![c] = w]
          BY <4>3, <4>4
        <5> HIDE DEF w
        <5>3. w.secret = told[c] \/ c \in overwritten'
          BY <4>3, <4>4, <5>1 DEF SecretInv, Secrets!ToldSecretsAreStored
        <5>4. w.key <= config.cur /\ overwritten \subseteq overwritten' /\ overwritten' \subseteq Cell
          BY <4>2, <4>3, <5>1, SecretsAssumption DEF SecretInv, SecretShapes
        <5>5. told' \in [Cell -> 0..MaxSecret] /\ told' = told
          BY <2>8 DEF SecretInv, SecretShapes
        <5>6. stock'[c] = w
          BY <5>2 DEF SecretInv, SecretShapes
        <5> QED
          BY <2>8, <5>1, <5>2, <5>3, <5>4, <5>5, <5>6, CellChanges
      <4>5. CASE ~Secrets!Exists(c)
        <5>1. stock' = stock /\ overwritten \subseteq overwritten' /\ overwritten' \subseteq Cell /\ stock[c].form = "none"
          BY <4>3, <4>5 DEF SecretInv, SecretShapes, Secrets!Exists
        <5> QED
          BY <2>8, <5>1 DEF SecretInv, SecretShapes, KeysOnlyRise, Secrets!LegacyRowsAreConverted,
             Secrets!ToldSecretsAreStored, Secrets!Exists
      <4> QED
        BY <4>4, <4>5
    <3>2. CASE ~Secrets!Rewrap(c)
      <4>1. UNCHANGED <<stock, overwritten>>
        BY <1>3, <3>2 DEF Secrets!Skip, Secrets!RewrapFails
      <4> QED
        BY <2>8, <3>2, <4>1 DEF SecretInv, SecretShapes, KeysOnlyRise, Secrets!LegacyRowsAreConverted,
           Secrets!ToldSecretsAreStored, Secrets!Exists
    <3> QED
      BY <3>1, <3>2
  <2>10. stock'[c].form = "v1" => ~pass'.clean /\ (pass'.commit => c \in pass'.failures)
    <3> SUFFICES ASSUME stock'[c].form = "v1" PROVE ~b /\ (pass.commit => c \in F)
      BY <2>7
    <3>1. pass.seen[c].form = "v1"
      BY <2>1, <2>9 DEF SecretInv, ScriptIsThorough
    <3>2. Secrets!PlanRewrap(pass.seen[c])
      BY <3>1 DEF Secrets!PlanRewrap
    <3>3. pass.commit => Secrets!RewrapFails(c)
      BY <1>3, <2>9, <3>2 DEF Secrets!Skip
    <3> QED
      BY <2>4, <2>6, <3>1, <3>3
  <2>11. \A d \in Cell : Behind(d)' => Behind(d) \/ d = c
    BY <2>1, <2>3, <2>7 DEF Behind
  <2>12. ScriptIsThorough'
    <3>1. \A d \in Cell : stock'[d].form = "v1" /\ d \in DOMAIN pass'.seen => pass'.seen[d].form = "v1"
      BY <2>3, <2>7, <2>9 DEF SecretInv, ScriptIsThorough
    <3>2. (pass'.at = "row" => pass'.col <= Len(Columns)) /\ \A d \in DOMAIN pass'.seen : pass'.seen[d].form # "none"
      BY <2>1, <2>3, <2>7 DEF SecretInv, SecretShapes, ScriptIsThorough
    <3> QED
      BY <2>4, <2>6, <2>7, <2>8, <2>9, <2>10, <2>11, <3>1, <3>2, PassMoves
  <2> QED
    BY <2>3, <2>7, <2>8, <2>9, <2>12 DEF SecretInv, SecretShapes
<1>4. CASE Secrets!NextColumn
  <2>1. pass.at = "row" /\ DOMAIN pass.seen = {}
    BY <1>4 DEF Secrets!NextColumn, Secrets!Rows
  <2>2. pass.col \in 1..Len(Columns)
    BY <1>0, <2>1, ColumnFacts DEF SecretInv, ScriptIsThorough
  <2>3. pass' = [pass EXCEPT !.at = "scan", !.col = pass.col + 1]
        /\ UNCHANGED <<stock, told, env, config, request, proved, overwritten>>
    BY <1>4 DEF Secrets!NextColumn, Secrets!nodeVars
  <2>4. pass' \in Passes /\ pass'.at = "scan" /\ pass'.col = pass.col + 1 /\ pass'.seen = pass.seen
        /\ pass'.commit = pass.commit /\ pass'.clean = pass.clean /\ pass'.failures = pass.failures
    <3>1. pass.col + 1 \in 1..Len(Columns) + 1
      BY <2>2, ColumnFacts
    <3> QED
      BY <1>0, <2>3, <3>1 DEF Passes
  <2>5. \A d \in Cell : Behind(d)' => Behind(d)
    BY <2>1, <2>2, <2>4 DEF Behind
  <2>6. ScriptIsThorough'
    BY <2>1, <2>3, <2>4, <2>5, PassMoves
  <2> QED
    BY <2>1, <2>3, <2>4, <2>6 DEF SecretInv, SecretShapes, KeysOnlyRise, Secrets!LegacyRowsAreConverted,
       Secrets!ToldSecretsAreStored, Secrets!Exists
<1>5. CASE Secrets!Report
  <2>1. proved' = (~pass.commit /\ pass.clean) /\ pass' = Secrets!NoPass /\ pass.at = "scan" /\ pass.col > Len(Columns)
        /\ UNCHANGED <<stock, told, env, config, request, overwritten>>
    BY <1>5 DEF Secrets!Report, Secrets!nodeVars
  <2>2. \A c \in Cell : Behind(c)
    BY <1>0, <2>1, ColumnFacts DEF Behind
  <2>3. \A c \in Cell : stock'[c].form = "v1" => ~proved'
    BY <2>1, <2>2 DEF SecretInv, ScriptIsThorough
  <2>4. ScriptIsThorough'
    BY <2>1, <2>3, NoPassIsPass DEF ScriptIsThorough, Behind
  <2>5. proved' \in BOOLEAN
    BY <2>1
  <2> QED
    BY <2>1, <2>4, <2>5, NoPassIsPass DEF SecretInv, SecretShapes, KeysOnlyRise, Secrets!LegacyRowsAreConverted,
       Secrets!ToldSecretsAreStored, Secrets!Exists
<1> QED
  BY <1>1, <1>2, <1>3, <1>4, <1>5 DEF Secrets!Script

LEMMA OperatorKeepsSecrets ==
  ASSUME SecretInv, Secrets!NewKey \/ (\E n \in Node : Secrets!Restart(n)) \/ Secrets!Retire
  PROVE  SecretInv'
<1>0. config.cur \in 0..MaxKey /\ \A n \in Node : env[n].cur \in 0..MaxKey
  BY DEF SecretInv, SecretShapes, Environment
<1>00. \A c \in Cell : stock[c].key \in 0..MaxKey
  BY HeldFacts DEF SecretInv, SecretShapes
<1>1. CASE Secrets!NewKey
  <2>1. config' = [cur |-> config.cur + 1, old |-> config.cur] /\ config.cur < MaxKey /\ proved' = FALSE
        /\ UNCHANGED <<stock, told, env, request, pass, overwritten>>
    BY <1>1 DEF Secrets!NewKey
  <2>2. config' \in Environment /\ config'.cur = config.cur + 1 /\ config'.old # None
    BY <1>0, <2>1, SecretsAssumption, SMTT(60) DEF Environment
  <2>3. KeysOnlyRise'
    BY <1>0, <1>00, <2>1, <2>2, SecretsAssumption DEF SecretInv, KeysOnlyRise
  <2>4. ScriptIsThorough'
    BY <2>1 DEF SecretInv, ScriptIsThorough, Behind
  <2> QED
    BY <2>1, <2>2, <2>3, <2>4 DEF SecretInv, SecretShapes, Secrets!LegacyRowsAreConverted,
       Secrets!ToldSecretsAreStored, Secrets!Exists
<1>2. ASSUME NEW n \in Node, Secrets!Restart(n) PROVE SecretInv'
  <2>1. env' = [env EXCEPT ![n] = config] /\ UNCHANGED <<stock, told, config, pass, proved, overwritten>>
    BY <1>2 DEF Secrets!Restart
  <2>2. /\ request' \in [Request -> {Secrets!NoRequest} \cup Errand]
        /\ \A q \in Request : request'[q] # Secrets!NoRequest => request'[q].seen.form # "none"
    BY <1>2 DEF Secrets!Restart, SecretInv, SecretShapes
  <2>3. KeysOnlyRise'
    BY <1>0, <2>1, SecretsAssumption DEF SecretInv, SecretShapes, KeysOnlyRise
  <2>4. ScriptIsThorough'
    BY <2>1, RouteKeeps
  <2> QED
    BY <2>1, <2>2, <2>3, <2>4 DEF SecretInv, SecretShapes, Secrets!LegacyRowsAreConverted,
       Secrets!ToldSecretsAreStored, Secrets!Exists
<1>3. CASE Secrets!Retire
  <2>1. config' = [config EXCEPT !.old = None] /\ proved /\ UNCHANGED <<stock, told, env, request, pass, proved, overwritten>>
    BY <1>3 DEF Secrets!Retire
  <2>2. config' \in Environment /\ config'.cur = config.cur
    BY <2>1 DEF SecretInv, SecretShapes, Environment
  <2>3. ScriptIsThorough' /\ KeysOnlyRise'
    BY <2>1, <2>2, RouteKeeps DEF SecretInv, KeysOnlyRise
  <2>4. Secrets!LegacyRowsAreConverted'
    BY <2>1 DEF SecretInv, ScriptIsThorough, Secrets!LegacyRowsAreConverted
  <2> QED
    BY <2>1, <2>2, <2>3, <2>4 DEF SecretInv, SecretShapes, Secrets!ToldSecretsAreStored, Secrets!Exists
<1> QED
  BY <1>1, <1>2, <1>3

\* However often the key is changed, and whatever requests, restarts and failing rows come in
\* between: while the old key of the first rotation is there every row can be read, it goes
\* only when no legacy row is left, a row the script has passed is rewritten or reported, and
\* a row holds the secret that was told last, unless the script wrote over it.
THEOREM SecretsHold == HouseSpec => []NoSecretIsLost
<1>1. HouseInit => SecretInv
  BY InitSecrets DEF HouseInit
<1>2. SecretInv /\ [HouseNext]_<<part, vars, wizard, secrets>> => SecretInv'
  <2> SUFFICES ASSUME SecretInv, [HouseNext]_<<part, vars, wizard, secrets>> PROVE SecretInv'
    OBVIOUS
  <2>1. Secrets!Next \/ UNCHANGED secrets
    BY DEF HouseNext
  <2>2. CASE UNCHANGED secrets
    BY <2>2, RouteKeeps DEF secrets, SecretInv, SecretShapes, KeysOnlyRise, Secrets!LegacyRowsAreConverted,
       Secrets!ToldSecretsAreStored, Secrets!Exists
  <2> QED
    BY <2>1, <2>2, RoutesKeepSecrets, ScriptKeepsSecrets, OperatorKeepsSecrets DEF Secrets!Next
<1> QED
  BY <1>1, <1>2, SecretsImply, PTL DEF HouseSpec

-----------------------------------------------------------------------------
(* The first administrator *)

\* A request that a wizard serves, from its entry on.
Busy == Wizard!Creating \cup {"seed"}
VisitStep == {"idle", "guarded", "checked"} \cup Busy
NodeStep == {"down", "start", "role", "insert", "user", "assign", "heal", "look", "up"}

Tasks == [at : VisitStep \cup NodeStep, on : Node \cup {NoNode}, for : Address, tries : 0..Probes - 1]

TasksAreSteps ==
  /\ task \in [Wizard!Actor -> Tasks]
  /\ \A v \in Visit : task[v].at \in VisitStep /\ (task[v].at # "idle" => task[v].on \in Node)
  /\ \A n \in Node : task[n].at \in NodeStep /\ task[n].for = Boss

RowShapes ==
  /\ launch \in Launches /\ account \in [Address -> {"none", "user", "admin"}]
  /\ first = {} \/ \E a \in Address : first = {a}
  /\ role \in BOOLEAN /\ bound \in BOOLEAN /\ crossed \in BOOLEAN /\ faulty \in BOOLEAN
  /\ sessions \subseteq Address /\ halved \subseteq Address /\ calm \subseteq Visit /\ byWizard \subseteq Address

\* The latch of a node is set for one wizard, which is at work.
LatchesHold ==
  /\ latch \in [Node -> BOOLEAN]
  /\ \A n \in Node : latch[n] <=> \E v \in Visit : task[v].on = n /\ task[v].at \in Busy
  /\ \A v, w \in Visit : task[v].at \in Busy /\ task[w].at \in Busy /\ task[v].on = task[w].on => v = w

\* A user without the role has been left behind or is about to get it; an administrator is
\* the wizard's or has the configured address.
UsersAreAccountedFor ==
  /\ \A x \in Wizard!Actor :
       /\ task[x].at = "assign" => account[task[x].for] # "none"
       /\ task[x].at \in {"user", "assign"} => role
  /\ \A a \in Address :
       /\ account[a] = "user" => a \in halved \/ \E x \in Wizard!Actor : task[x].at = "assign" /\ task[x].for = a
       /\ account[a] = "admin" => role /\ (a \in byWizard \/ a = Boss)
  /\ \A a \in byWizard : account[a] = "admin"
  /\ \A a \in first : account[a] # "none"

\* Wizards come one after the other, and the one that is creating finds no work of another.
OneAtATime ==
  ~crossed =>
    /\ \A v, w \in Visit : task[v].at \in Busy /\ task[w].at \in Busy => v = w
    /\ \A v \in Visit : task[v].at \in Wizard!Creating => byWizard = {}
    /\ byWizard = {} \/ \E a \in Address : byWizard = {a}

Ups == {n \in Node : task[n].at = "up"}
Runs == {n \in Node : task[n].at # "down"}

\* An administrator whose role has no permissions: they are about to be seeded, or a node
\* that will look is not up yet.
SomebodySeeds ==
  /\ Cardinality(Runs) <= launch.nodes
  /\ Wizard!Administered /\ ~faulty /\ ~bound =>
       (\E v \in Visit : task[v].at = "seed") \/ Cardinality(Ups) < launch.nodes

CalmMeansAlone ==
  \A v \in calm : task[v].at = "insert" => ~role

WizardInv ==
  /\ TasksAreSteps /\ RowShapes /\ LatchesHold /\ UsersAreAccountedFor /\ OneAtATime /\ SomebodySeeds
  /\ CalmMeansAlone /\ Wizard!CompletionIsTheAdministrators

LEMMA ActorFacts ==
  /\ \A x \in Wizard!Actor : (x \in Visit /\ x \notin Node) \/ (x \in Node /\ x \notin Visit)
  /\ \A v \in Visit : v \in Wizard!Actor
  /\ \A n \in Node : n \in Wizard!Actor
BY WizardAssumption DEF Wizard!Actor

LEMMA NodesAreFinite ==
  /\ IsFiniteSet(Runs) /\ IsFiniteSet(Ups) /\ Cardinality(Runs) \in Nat /\ Cardinality(Ups) \in Nat
  /\ Ups \subseteq Runs /\ Cardinality(Ups) <= Cardinality(Runs)
<1>1. Runs \subseteq Node /\ Ups \subseteq Runs
  BY DEF Runs, Ups
<1>2. IsFiniteSet(Runs) /\ IsFiniteSet(Ups)
  BY <1>1, FS_Subset, WizardAssumption
<1> QED
  BY <1>1, <1>2, FS_Subset, FS_CardinalityType

LEMMA SameCardinality == \A S : Wizard!Cardinality(S) = Cardinality(S)
BY DEF Wizard!Cardinality, Cardinality

LEMMA FewAreOne == Cardinality({}) = 0 /\ \A a : Cardinality({a}) = 1
BY FS_EmptySet, FS_Singleton

LEMMA WizardImplies == WizardInv => WizardIsSound
<1> SUFFICES ASSUME WizardInv PROVE WizardIsSound
  OBVIOUS
<1>1. Wizard!TypeOK
  <2>1. Cardinality(first) <= 1
    BY FewAreOne, SMTT(60) DEF WizardInv, RowShapes
  <2>2. \A x \in Wizard!Actor :
          /\ task[x].at \in Wizard!Creating \cup {"idle", "guarded", "checked", "seed", "down", "start", "heal", "look", "up"}
          /\ task[x].tries \in 0..Probes - 1
    BY DEF WizardInv, TasksAreSteps, Tasks, VisitStep, NodeStep, Busy, Wizard!Creating
  <2>3. \A x \in Wizard!Actor : Wizard!At(x, "assign") => account[task[x].for] # "none" /\ role
    BY DEF WizardInv, UsersAreAccountedFor, Wizard!At
  <2>4. \A n \in Node : latch[n] <=> \E v \in Visit : task[v].on = n /\ task[v].at \in Wizard!Creating \cup {"seed"}
    BY DEF WizardInv, LatchesHold, Busy
  <2>5. latch \in [Node -> BOOLEAN]
    BY DEF WizardInv, LatchesHold
  <2>6. first \subseteq Address
    BY DEF WizardInv, RowShapes
  <2> QED
    <3>1. RowShapes
      BY DEF WizardInv
    <3> QED
      BY <2>1, <2>2, <2>3, <2>4, <2>5, <2>6, <3>1, SameCardinality DEF RowShapes, Wizard!TypeOK
<1>2. Wizard!OneWizardAdministrator
  <2> SUFFICES ASSUME ~crossed, Cardinality(byWizard) > 1 PROVE FALSE
    BY SameCardinality DEF Wizard!OneWizardAdministrator
  <2>1. byWizard = {} \/ \E a \in Address : byWizard = {a}
    BY DEF WizardInv, OneAtATime
  <2>2. Cardinality(byWizard) = 0 \/ Cardinality(byWizard) = 1
    BY <2>1, FewAreOne
  <2> QED
    BY <2>2
<1>3. Wizard!AdministratorsCanAct
  <2>1. Ups = {n \in Node : Wizard!At(n, "up")}
    BY DEF Ups, Wizard!At
  <2>2. launch.nodes \in Nat
    BY WizardAssumption DEF WizardInv, RowShapes
  <2>3. ASSUME Wizard!Administered, ~faulty, Cardinality({n \in Node : Wizard!At(n, "up")}) = launch.nodes,
               \A v \in Visit : ~Wizard!At(v, "seed"), ~bound
        PROVE  FALSE
    <3>1. Cardinality(Ups) = launch.nodes /\ \A v \in Visit : task[v].at # "seed"
      BY <2>1, <2>3 DEF Wizard!At
    <3>2. Cardinality(Ups) < launch.nodes
      BY <2>3, <3>1 DEF WizardInv, SomebodySeeds
    <3> QED
      BY <2>2, <3>1, <3>2
  <2> QED
    BY <2>3, SameCardinality DEF Wizard!AdministratorsCanAct
<1>4. Wizard!WizardTakesOver
  BY WizardAssumption DEF WizardInv, UsersAreAccountedFor, RowShapes, Wizard!WizardTakesOver, Wizard!Initialized, Wizard!Administered
<1> QED
  BY <1>1, <1>2, <1>3, <1>4 DEF WizardInv, WizardIsSound, Wizard!WizardIsSound

LEMMA InitWizard == Wizard!Init => WizardInv
<1> SUFFICES ASSUME Wizard!Init PROVE WizardInv
  OBVIOUS
<1>1. /\ Wizard!Idle \in Tasks /\ Wizard!Idle.at = "idle" /\ Wizard!Idle.for = Boss
      /\ Wizard!Down \in Tasks /\ Wizard!Down.at = "down" /\ Wizard!Down.for = Boss
  BY WizardAssumption DEF Wizard!Idle, Wizard!Down, Tasks, VisitStep, NodeStep
<1>2. task = [x \in Wizard!Actor |-> IF x \in Node THEN Wizard!Down ELSE Wizard!Idle]
  BY DEF Wizard!Init
<1>3. /\ task \in [Wizard!Actor -> Tasks]
      /\ \A v \in Visit : task[v].at = "idle"
      /\ \A n \in Node : task[n].at = "down" /\ task[n].for = Boss
  BY <1>1, <1>2, ActorFacts
<1>4. TasksAreSteps
  BY <1>3 DEF TasksAreSteps, VisitStep, NodeStep
<1>5. RowShapes /\ LatchesHold /\ OneAtATime /\ CalmMeansAlone
  BY <1>3 DEF Wizard!Init, RowShapes, LatchesHold, OneAtATime, CalmMeansAlone, Busy, Wizard!Creating
<1>6. UsersAreAccountedFor
  BY <1>3, ActorFacts DEF Wizard!Init, UsersAreAccountedFor
<1>7. SomebodySeeds
  <2>1. Runs = {}
    BY <1>3 DEF Runs
  <2>2. launch.nodes \in Nat
    BY <1>5, WizardAssumption DEF RowShapes
  <2> QED
    BY <2>1, <2>2, FS_EmptySet DEF SomebodySeeds, Wizard!Init, Wizard!Administered
<1> QED
  BY <1>4, <1>5, <1>6, <1>7 DEF WizardInv, Wizard!Init, Wizard!CompletionIsTheAdministrators

\* A step of one actor.
Moved(x, t) ==
  /\ task' = [task EXCEPT ![x] = t] /\ t \in Tasks
  /\ x \in Visit => t.at \in VisitStep /\ (t.at # "idle" => t.on \in Node)
  /\ x \in Node => t.at \in NodeStep /\ t.for = Boss

LEMMA OneMoved ==
  ASSUME WizardInv, NEW x \in Wizard!Actor, NEW t, Moved(x, t)
  PROVE  TasksAreSteps' /\ task'[x] = t /\ \A y \in Wizard!Actor \ {x} : task'[y] = task[y]
<1>1. task' \in [Wizard!Actor -> Tasks] /\ task'[x] = t /\ \A y \in Wizard!Actor \ {x} : task'[y] = task[y]
  BY DEF WizardInv, TasksAreSteps, Moved
<1>2. \A v \in Visit : task'[v].at \in VisitStep /\ (task'[v].at # "idle" => task'[v].on \in Node)
  BY <1>1, ActorFacts DEF WizardInv, TasksAreSteps, Moved
<1>3. \A n \in Node : task'[n].at \in NodeStep /\ task'[n].for = Boss
  BY <1>1, ActorFacts DEF WizardInv, TasksAreSteps, Moved
<1> QED
  BY <1>1, <1>2, <1>3 DEF TasksAreSteps

\* Going on: everything but the place stays.
LEMMA Going ==
  ASSUME WizardInv, NEW x \in Wizard!Actor, NEW step, Wizard!Goes(x, step),
         x \in Visit => step \in VisitStep \ {"idle"} /\ task[x].at # "idle",
         x \in Node => step \in NodeStep
  PROVE  /\ TasksAreSteps' /\ \A y \in Wizard!Actor \ {x} : task'[y] = task[y]
         /\ task'[x].at = step /\ task'[x].on = task[x].on /\ task'[x].for = task[x].for
<1> DEFINE t == [task[x] EXCEPT !.at = step]
<1>1. task[x] \in Tasks /\ step \in VisitStep \cup NodeStep
  BY ActorFacts DEF WizardInv, TasksAreSteps
<1>2. t \in Tasks /\ t.at = step /\ t.on = task[x].on /\ t.for = task[x].for
  BY <1>1 DEF Tasks
<1>3. task' = [task EXCEPT ![x] = t]
  BY DEF Wizard!Goes
<1> HIDE DEF t
<1>4. Moved(x, t)
  BY <1>2, <1>3 DEF Moved, WizardInv, TasksAreSteps
<1> QED
  BY <1>2, <1>4, OneMoved

\* The latches stay when a node moves, or a request that remains on its side of the latch.
LEMMA LatchesStay ==
  ASSUME WizardInv, NEW x \in Wizard!Actor, \A y \in Wizard!Actor \ {x} : task'[y] = task[y], latch' = latch,
         x \in Visit => (task[x].at \in Busy <=> task'[x].at \in Busy) /\ (task[x].at \in Busy => task'[x].on = task[x].on)
  PROVE  LatchesHold'
<1>1. \A v \in Visit : (task[v].at \in Busy <=> task'[v].at \in Busy) /\ (task[v].at \in Busy => task'[v].on = task[v].on)
  BY ActorFacts
<1>2. \A n \in Node : latch'[n] <=> \E v \in Visit : task'[v].on = n /\ task'[v].at \in Busy
  BY <1>1 DEF WizardInv, LatchesHold
<1>3. \A v, w \in Visit : task'[v].at \in Busy /\ task'[w].at \in Busy /\ task'[v].on = task'[w].on => v = w
  BY <1>1 DEF WizardInv, LatchesHold
<1> QED
  BY <1>2, <1>3 DEF WizardInv, LatchesHold

\* The end of a wizard, or of what a node creates.
LEMMA Leaving ==
  ASSUME WizardInv, NEW x \in Wizard!Actor, task[x].at \in Busy, Wizard!Leaves(x)
  PROVE  /\ TasksAreSteps' /\ LatchesHold' /\ \A y \in Wizard!Actor \ {x} : task'[y] = task[y]
         /\ x \in Node => task'[x].at = "heal"
         /\ x \in Visit => task'[x].at = "idle"
<1>1. CASE x \in Node
  <2>1. Wizard!Goes(x, "heal") /\ latch' = latch
    BY <1>1 DEF Wizard!Leaves
  <2>2. "heal" \in NodeStep /\ x \notin Visit
    BY <1>1, ActorFacts DEF NodeStep
  <2>3. TasksAreSteps' /\ task'[x].at = "heal" /\ \A y \in Wizard!Actor \ {x} : task'[y] = task[y]
    BY <2>1, <2>2, Going
  <2> QED
    BY <2>1, <2>2, <2>3, LatchesStay
<1>2. CASE x \notin Node
  <2>1. x \in Visit /\ task[x].on \in Node
    BY <1>2, ActorFacts DEF WizardInv, TasksAreSteps, Busy, Wizard!Creating
  <2>2. task' = [task EXCEPT ![x] = Wizard!Idle] /\ latch' = [latch EXCEPT ![task[x].on] = FALSE]
    BY <1>2 DEF Wizard!Leaves
  <2>3. Wizard!Idle \in Tasks /\ Wizard!Idle.at = "idle" /\ "idle" \in VisitStep
    BY WizardAssumption DEF Wizard!Idle, Tasks, VisitStep
  <2>4. Moved(x, Wizard!Idle)
    BY <1>2, <2>2, <2>3 DEF Moved
  <2>5. TasksAreSteps' /\ task'[x] = Wizard!Idle /\ \A y \in Wizard!Actor \ {x} : task'[y] = task[y]
    BY <2>4, OneMoved
  <2>6. task'[x].at \notin Busy
    BY <2>3, <2>5 DEF Busy, Wizard!Creating
  <2>7. \A v \in Visit : task'[v].at \in Busy => v # x /\ task'[v] = task[v]
    BY <2>5, <2>6, ActorFacts
  <2>8. \A v \in Visit \ {x} : task[v].at \in Busy => task'[v] = task[v] /\ task[v].on # task[x].on
    BY <2>1, <2>5, ActorFacts DEF WizardInv, LatchesHold
  <2>9. latch' \in [Node -> BOOLEAN] /\ latch'[task[x].on] = FALSE /\ \A n \in Node \ {task[x].on} : latch'[n] = latch[n]
    BY <2>1, <2>2 DEF WizardInv, LatchesHold
  <2>10. ASSUME NEW n \in Node PROVE latch'[n] <=> \E v \in Visit : task'[v].on = n /\ task'[v].at \in Busy
    <3>1. CASE n = task[x].on
      BY <2>7, <2>8, <2>9, <3>1
    <3>2. CASE n # task[x].on
      <4>1. latch'[n] <=> \E v \in Visit : task[v].on = n /\ task[v].at \in Busy
        BY <2>9, <3>2 DEF WizardInv, LatchesHold
      <4>2. ASSUME NEW v \in Visit, task[v].on = n, task[v].at \in Busy PROVE task'[v].on = n /\ task'[v].at \in Busy
        BY <2>8, <3>2, <4>2
      <4>3. ASSUME NEW v \in Visit, task'[v].on = n, task'[v].at \in Busy PROVE task[v].on = n /\ task[v].at \in Busy
        BY <2>7, <4>3
      <4> QED
        BY <4>1, <4>2, <4>3
    <3> QED
      BY <3>1, <3>2
  <2>11. \A v, w \in Visit : task'[v].at \in Busy /\ task'[w].at \in Busy /\ task'[v].on = task'[w].on => v = w
    BY <2>7 DEF WizardInv, LatchesHold
  <2>12. LatchesHold'
    BY <2>9, <2>10, <2>11 DEF LatchesHold
  <2> QED
    BY <1>2, <2>3, <2>5, <2>12
<1> QED
  BY <1>1, <1>2

\* The rows stay: whoever was about to assign still is, or leaves a user behind.
LEMMA RowsStay ==
  ASSUME WizardInv, NEW x \in Wizard!Actor, \A y \in Wizard!Actor \ {x} : task'[y] = task[y],
         UNCHANGED <<account, first, byWizard>>, role => role',
         task'[x].at # "assign", task'[x].at = "user" => role',
         halved \subseteq halved', task[x].at = "assign" => task[x].for \in halved'
  PROVE  UsersAreAccountedFor'
<1>1. \A y \in Wizard!Actor : task'[y].at = "assign" => task[y].at = "assign" /\ task'[y].for = task[y].for
  OBVIOUS
<1>2. \A y \in Wizard!Actor :
        /\ task'[y].at = "assign" => account'[task'[y].for] # "none"
        /\ task'[y].at \in {"user", "assign"} => role'
  BY <1>1 DEF WizardInv, UsersAreAccountedFor
<1>3. ASSUME NEW a \in Address, account'[a] = "user"
      PROVE  a \in halved' \/ \E y \in Wizard!Actor : task'[y].at = "assign" /\ task'[y].for = a
  <2>1. CASE a \in halved
    BY <2>1
  <2>2. ASSUME NEW y \in Wizard!Actor, task[y].at = "assign", task[y].for = a
        PROVE  a \in halved' \/ \E z \in Wizard!Actor : task'[z].at = "assign" /\ task'[z].for = a
    BY <2>2
  <2> QED
    BY <1>3, <2>1, <2>2 DEF WizardInv, UsersAreAccountedFor
<1> QED
  BY <1>2, <1>3 DEF WizardInv, UsersAreAccountedFor

\* Nobody enters and nobody becomes an administrator.
LEMMA NobodyEnters ==
  ASSUME WizardInv, NEW x \in Wizard!Actor, \A y \in Wizard!Actor \ {x} : task'[y] = task[y],
         UNCHANGED <<crossed, byWizard>>,
         x \in Visit => (task'[x].at \in Busy => task[x].at \in Busy) /\ (task'[x].at \in Wizard!Creating => task[x].at \in Wizard!Creating)
  PROVE  OneAtATime'
<1>1. \A v \in Visit : (task'[v].at \in Busy => task[v].at \in Busy) /\ (task'[v].at \in Wizard!Creating => task[v].at \in Wizard!Creating)
  BY ActorFacts
<1> QED
  BY <1>1 DEF WizardInv, OneAtATime

\* No node comes up or goes down, and no request has seeded.
LEMMA SeedersStay ==
  ASSUME WizardInv, NEW x \in Wizard!Actor, \A y \in Wizard!Actor \ {x} : task'[y] = task[y],
         launch' = launch, \A a \in Address : account'[a] = "admin" => account[a] = "admin",
         bound => bound', faulty => faulty',
         x \in Node => (task'[x].at = "up" <=> task[x].at = "up") /\ (task'[x].at = "down" <=> task[x].at = "down"),
         task[x].at = "seed" => task'[x].at = "seed" \/ bound' \/ faulty'
  PROVE  SomebodySeeds'
<1>1. \A n \in Node : (task'[n].at = "up" <=> task[n].at = "up") /\ (task'[n].at = "down" <=> task[n].at = "down")
  BY ActorFacts
<1>2. Ups' = Ups /\ Runs' = Runs
  BY <1>1 DEF Ups, Runs
<1>3. ASSUME NEW v \in Visit, task[v].at = "seed" PROVE task'[v].at = "seed" \/ bound' \/ faulty'
  BY <1>3, ActorFacts
<1>4. Wizard!Administered' => Wizard!Administered
  BY DEF Wizard!Administered
<1> QED
  BY <1>2, <1>3, <1>4 DEF WizardInv, SomebodySeeds

\* The role is not created, or only calm requests are left that are not about to do that.
LEMMA CalmStays ==
  ASSUME WizardInv, NEW x \in Wizard!Actor, \A y \in Wizard!Actor \ {x} : task'[y] = task[y],
         calm' \subseteq calm \cup {x}, calm' \subseteq Visit, role' => role \/ calm' \subseteq {x},
         x \in calm' /\ task'[x].at = "insert" => ~role'
  PROVE  CalmMeansAlone'
<1>1. calm' \subseteq Wizard!Actor
  BY ActorFacts DEF WizardInv, RowShapes
<1> QED
  BY <1>1 DEF WizardInv, CalmMeansAlone

LEMMA TokensStay ==
  ASSUME WizardInv, UNCHANGED sessions, \A a \in Address : account[a] # "none" => account'[a] # "none",
         \A a \in Address : account[a] = "admin" => account'[a] = "admin", halved \subseteq halved', crossed => crossed'
  PROVE  Wizard!CompletionIsTheAdministrators'
BY WizardAssumption DEF WizardInv, RowShapes, Wizard!CompletionIsTheAdministrators

LEMMA Steps ==
  /\ Busy = {"find", "role", "insert", "user", "assign", "seed"}
  /\ Wizard!Creating = {"find", "role", "insert", "user", "assign"}
  /\ VisitStep = {"idle", "guarded", "checked", "find", "role", "insert", "user", "assign", "seed"}
BY DEF Busy, Wizard!Creating, VisitStep

\* Steps on which every actor may fail or meet what another has inserted.
LEMMA EndsQuietly ==
  ASSUME WizardInv, NEW x \in Wizard!Actor, task[x].at \in Wizard!Creating, Wizard!Leaves(x),
         UNCHANGED <<launch, account, first, role, bound, sessions, crossed, faulty, byWizard>>,
         calm' \subseteq calm, halved \subseteq halved', halved' \subseteq Address,
         task[x].at = "assign" => task[x].for \in halved'
  PROVE  WizardInv'
<1>1. /\ TasksAreSteps' /\ LatchesHold' /\ \A y \in Wizard!Actor \ {x} : task'[y] = task[y]
      /\ x \in Node => task'[x].at = "heal"
      /\ x \in Visit => task'[x].at = "idle"
  BY Leaving, Steps
<1>2. task'[x].at \in {"idle", "heal"}
  BY <1>1, ActorFacts
<1>3. UsersAreAccountedFor'
  BY <1>1, <1>2, RowsStay
<1>4. OneAtATime'
  BY <1>1, Steps, NobodyEnters
<1>5. SomebodySeeds'
  BY <1>1, <1>2, Steps, SeedersStay
<1>6. CalmMeansAlone'
  BY <1>1, <1>2, CalmStays DEF WizardInv, RowShapes
<1>7. Wizard!CompletionIsTheAdministrators'
  BY TokensStay
<1>8. RowShapes'
  BY DEF WizardInv, RowShapes
<1> QED
  BY <1>1, <1>3, <1>4, <1>5, <1>6, <1>7, <1>8 DEF WizardInv

\* An actor goes on, and writes nothing.
LEMMA GoesOn ==
  ASSUME WizardInv, NEW x \in Wizard!Actor, NEW step, Wizard!Goes(x, step), UNCHANGED <<launch, Wizard!rowVars, latch, sessions, Wizard!past>>,
         x \in Visit =>
           \/ step \in {"role", "insert", "user"} /\ task[x].at \in Wizard!Creating \ {"assign"}
           \/ step = "checked" /\ task[x].at = "guarded",
         x \in Node => step \in {"role", "insert", "user", "heal", "look"} /\ task[x].at \notin {"down", "up", "assign"},
         step = "insert" => ~role, step = "user" => role
  PROVE  WizardInv'
<1>1. UNCHANGED <<launch, account, first, role, bound, latch, sessions, halved, crossed, faulty, calm, byWizard>>
  BY DEF Wizard!rowVars, Wizard!past
<1>2. /\ TasksAreSteps' /\ \A y \in Wizard!Actor \ {x} : task'[y] = task[y]
      /\ task'[x].at = step /\ task'[x].on = task[x].on /\ task'[x].for = task[x].for
  <2>1. x \in Visit => step \in VisitStep \ {"idle"} /\ task[x].at # "idle"
    BY Steps
  <2>2. x \in Node => step \in NodeStep
    BY DEF NodeStep
  <2> QED
    BY <2>1, <2>2, Going
<1>3. step \notin {"assign", "up", "down", "seed"} /\ (x \in Visit => task[x].at # "seed")
  BY ActorFacts, Steps
<1>4. UsersAreAccountedFor'
  <2>1. task[x].at # "assign"
    BY ActorFacts, Steps
  <2> QED
    BY <1>1, <1>2, <1>3, <2>1, RowsStay
<1>5. LatchesHold'
  BY <1>1, <1>2, Steps, LatchesStay
<1>6. OneAtATime'
  BY <1>1, <1>2, Steps, NobodyEnters
<1>7. SomebodySeeds'
  <2>1. task[x].at # "seed"
    BY <1>3, ActorFacts DEF WizardInv, TasksAreSteps, NodeStep
  <2> QED
    BY <1>1, <1>2, <1>3, <2>1, SeedersStay
<1>8. CalmMeansAlone'
  BY <1>1, <1>2, CalmStays DEF WizardInv, RowShapes
<1>9. Wizard!CompletionIsTheAdministrators' /\ RowShapes'
  BY <1>1, TokensStay DEF WizardInv, RowShapes
<1> QED
  BY <1>2, <1>4, <1>5, <1>6, <1>7, <1>8, <1>9 DEF WizardInv

LEMMA FailKeeps == ASSUME WizardInv, NEW x \in Wizard!Actor, Wizard!Fail(x) PROVE WizardInv'
<1>1. /\ task[x].at \in Wizard!Creating /\ Wizard!Leaves(x) /\ calm' \subseteq calm
      /\ UNCHANGED <<launch, account, first, role, bound, sessions, crossed, faulty, byWizard>>
  BY DEF Wizard!Fail, Wizard!rowVars
<1>2. halved' = halved \cup {task[y].for : y \in {z \in {x} : task[z].at = "assign"}}
  BY DEF Wizard!Fail, Wizard!HalfMade, Wizard!At
<1>3. task[x].for \in Address
  BY DEF WizardInv, TasksAreSteps, Tasks
<1>4. halved \subseteq halved' /\ halved' \subseteq Address /\ (task[x].at = "assign" => task[x].for \in halved')
  BY <1>2, <1>3 DEF WizardInv, RowShapes
<1> QED
  BY <1>1, <1>4, EndsQuietly

LEMMA CollideKeeps ==
  ASSUME WizardInv, NEW x \in Wizard!Actor, task[x].at \in Wizard!Creating \ {"assign"}, Wizard!Leaves(x),
         UNCHANGED <<launch, Wizard!rowVars, sessions, Wizard!past>>
  PROVE  WizardInv'
<1>1. UNCHANGED <<launch, account, first, role, bound, sessions, halved, crossed, faulty, calm, byWizard>>
  BY DEF Wizard!rowVars, Wizard!past
<1> QED
  BY <1>1, EndsQuietly DEF WizardInv, RowShapes

LEMMA FindRoleKeeps == ASSUME WizardInv, NEW x \in Wizard!Actor, Wizard!FindRole(x) PROVE WizardInv'
<1>1. task[x].at = "role"
  BY DEF Wizard!FindRole, Wizard!At
<1>2. PICK step \in {"user", "insert"} : Wizard!Goes(x, step) /\ (step = "insert" => ~role) /\ (step = "user" => role)
        /\ UNCHANGED <<launch, Wizard!rowVars, latch, sessions, Wizard!past>>
  BY DEF Wizard!FindRole, Wizard!RoleFound
<1>3. Wizard!Goes(x, step) /\ UNCHANGED <<launch, Wizard!rowVars, latch, sessions, Wizard!past>>
  BY <1>2
<1> QED
  BY <1>1, <1>2, <1>3, Steps, GoesOn

LEMMA InsertRoleKeeps == ASSUME WizardInv, NEW x \in Wizard!Actor, Wizard!InsertRole(x) PROVE WizardInv'
<1>1. task[x].at = "insert"
  BY DEF Wizard!InsertRole, Wizard!At
<1>2. CASE role
  BY <1>1, <1>2, Steps, CollideKeeps DEF Wizard!InsertRole, Wizard!Collide
<1>3. CASE ~role
  <2>1. /\ role' = TRUE /\ Wizard!Goes(x, "user") /\ calm' = calm \cap {x}
        /\ UNCHANGED <<launch, account, first, bound, latch, sessions, halved, crossed, faulty, byWizard>>
    BY <1>3 DEF Wizard!InsertRole, Wizard!Disturbs
  <2>2. /\ TasksAreSteps' /\ \A y \in Wizard!Actor \ {x} : task'[y] = task[y]
        /\ task'[x].at = "user" /\ task'[x].on = task[x].on /\ task'[x].for = task[x].for
    <3>1. "user" \in VisitStep \ {"idle"} /\ "user" \in NodeStep
      BY Steps DEF NodeStep
    <3> QED
      BY <1>1, <2>1, <3>1, Going
  <2>3. UsersAreAccountedFor'
    BY <1>1, <2>1, <2>2, RowsStay
  <2>4. LatchesHold'
    BY <1>1, <2>1, <2>2, Steps, LatchesStay
  <2>5. OneAtATime'
    BY <1>1, <2>1, <2>2, Steps, NobodyEnters
  <2>6. SomebodySeeds'
    BY <1>1, <2>1, <2>2, SeedersStay
  <2>7. CalmMeansAlone'
    BY <2>1, <2>2, CalmStays DEF WizardInv, RowShapes
  <2>8. Wizard!CompletionIsTheAdministrators' /\ RowShapes'
    BY <2>1, TokensStay DEF WizardInv, RowShapes
  <2> QED
    BY <2>2, <2>3, <2>4, <2>5, <2>6, <2>7, <2>8 DEF WizardInv
<1> QED
  BY <1>2, <1>3 DEF WizardInv, RowShapes

LEMMA InsertUserKeeps == ASSUME WizardInv, NEW x \in Wizard!Actor, Wizard!InsertUser(x) PROVE WizardInv'
<1>1. task[x].at = "user" /\ task[x].for \in Address
  BY DEF Wizard!InsertUser, Wizard!At, WizardInv, TasksAreSteps, Tasks
<1>2. CASE account[task[x].for] # "none"
  BY <1>1, <1>2, Steps, CollideKeeps DEF Wizard!InsertUser, Wizard!Collide
<1>3. CASE account[task[x].for] = "none"
  <2>1. /\ account' = [account EXCEPT ![task[x].for] = "user"]
        /\ first' = IF first = {} THEN {task[x].for} ELSE first
        /\ Wizard!Goes(x, "assign") /\ calm' = calm \cap {x}
        /\ UNCHANGED <<launch, role, bound, latch, sessions, halved, crossed, faulty, byWizard>>
    BY <1>3 DEF Wizard!InsertUser, Wizard!Disturbs
  <2>2. /\ TasksAreSteps' /\ \A y \in Wizard!Actor \ {x} : task'[y] = task[y]
        /\ task'[x].at = "assign" /\ task'[x].on = task[x].on /\ task'[x].for = task[x].for
    <3>1. "assign" \in VisitStep \ {"idle"} /\ "assign" \in NodeStep
      BY Steps DEF NodeStep
    <3> QED
      BY <1>1, <2>1, <3>1, Going
  <2>3. account'[task[x].for] = "user" /\ \A a \in Address \ {task[x].for} : account'[a] = account[a]
    BY <1>1, <2>1 DEF WizardInv, RowShapes
  <2>4. account' \in [Address -> {"none", "user", "admin"}] /\ (first' = {} \/ \E a \in Address : first' = {a})
        /\ \A a \in first' : a \in first \/ a = task[x].for
    BY <1>1, <2>1 DEF WizardInv, RowShapes
  <2>5. UsersAreAccountedFor'
    <3>1. \A y \in Wizard!Actor :
            /\ task'[y].at = "assign" => account'[task'[y].for] # "none"
            /\ task'[y].at \in {"user", "assign"} => role'
      <4>1. role
        BY <1>1 DEF WizardInv, UsersAreAccountedFor
      <4>2. \A y \in Wizard!Actor : task[y].for \in Address
        BY DEF WizardInv, TasksAreSteps, Tasks
      <4> QED
        BY <2>1, <2>2, <2>3, <4>1, <4>2 DEF WizardInv, UsersAreAccountedFor
    <3>2. ASSUME NEW a \in Address, account'[a] = "user"
          PROVE  a \in halved' \/ \E y \in Wizard!Actor : task'[y].at = "assign" /\ task'[y].for = a
      <4>1. CASE a = task[x].for
        BY <2>2, <4>1
      <4>2. CASE a # task[x].for
        <5>1. a \in halved \/ \E y \in Wizard!Actor : task[y].at = "assign" /\ task[y].for = a
          BY <2>3, <3>2, <4>2 DEF WizardInv, UsersAreAccountedFor
        <5> QED
          BY <1>1, <2>1, <2>2, <5>1
      <4> QED
        BY <4>1, <4>2
    <3>3. \A a \in Address : account'[a] = "admin" => role' /\ (a \in byWizard' \/ a = Boss)
      BY <2>1, <2>3 DEF WizardInv, UsersAreAccountedFor
    <3>4. \A a \in byWizard' : account'[a] = "admin"
      BY <1>3, <2>1, <2>3 DEF WizardInv, UsersAreAccountedFor, RowShapes
    <3>5. \A a \in first' : account'[a] # "none"
      BY <1>1, <2>3, <2>4 DEF WizardInv, UsersAreAccountedFor, RowShapes
    <3> QED
      BY <3>1, <3>2, <3>3, <3>4, <3>5 DEF UsersAreAccountedFor
  <2>6. LatchesHold'
    BY <1>1, <2>1, <2>2, Steps, LatchesStay
  <2>7. OneAtATime'
    BY <1>1, <2>1, <2>2, Steps, NobodyEnters
  <2>8. SomebodySeeds'
    BY <1>1, <2>1, <2>2, <2>3, SeedersStay
  <2>9. CalmMeansAlone'
    BY <2>1, <2>2, CalmStays DEF WizardInv, RowShapes
  <2>10. Wizard!CompletionIsTheAdministrators'
    BY <1>3, <2>1, <2>3, TokensStay
  <2>11. RowShapes'
    BY <2>1, <2>4 DEF WizardInv, RowShapes
  <2> QED
    BY <2>2, <2>5, <2>6, <2>7, <2>8, <2>9, <2>10, <2>11 DEF WizardInv
<1> QED
  BY <1>2, <1>3

LEMMA AssignKeeps == ASSUME WizardInv, NEW x \in Wizard!Actor, Wizard!Assign(x) PROVE WizardInv'
<1> DEFINE a == task[x].for
<1>1. task[x].at = "assign" /\ a \in Address /\ account[a] # "none" /\ role
  BY DEF Wizard!Assign, Wizard!At, WizardInv, TasksAreSteps, Tasks, UsersAreAccountedFor
<1>2. /\ account' = [account EXCEPT ![a] = "admin"]
      /\ byWizard' = IF x \in Visit THEN byWizard \cup {a} ELSE byWizard
      /\ Wizard!Goes(x, IF x \in Node THEN "heal" ELSE "seed") /\ calm' = calm \cap {x}
      /\ UNCHANGED <<launch, first, role, bound, latch, sessions, halved, crossed, faulty>>
  BY DEF Wizard!Assign, Wizard!AfterAssign, Wizard!Disturbs
<1>3. x \in Node => a = Boss
  BY DEF WizardInv, TasksAreSteps
<1>4. /\ TasksAreSteps' /\ \A y \in Wizard!Actor \ {x} : task'[y] = task[y]
      /\ task'[x].at = (IF x \in Node THEN "heal" ELSE "seed") /\ task'[x].on = task[x].on
  <2>1. "seed" \in VisitStep \ {"idle"} /\ "heal" \in NodeStep
    BY Steps DEF NodeStep
  <2> QED
    BY <1>1, <1>2, <2>1, ActorFacts, Going
<1> HIDE DEF a
<1>5. account'[a] = "admin" /\ \A b \in Address \ {a} : account'[b] = account[b]
  BY <1>1, <1>2 DEF WizardInv, RowShapes
<1>6. RowShapes'
  BY <1>1, <1>2 DEF WizardInv, RowShapes
<1>7. UsersAreAccountedFor'
  <2>1. \A y \in Wizard!Actor :
          /\ task'[y].at = "assign" => account'[task'[y].for] # "none"
          /\ task'[y].at \in {"user", "assign"} => role'
    <3>1. \A y \in Wizard!Actor : task[y].for \in Address
      BY DEF WizardInv, TasksAreSteps, Tasks
    <3> QED
      BY <1>1, <1>2, <1>4, <1>5, <3>1 DEF WizardInv, UsersAreAccountedFor
  <2>2. ASSUME NEW b \in Address, account'[b] = "user"
        PROVE  b \in halved' \/ \E y \in Wizard!Actor : task'[y].at = "assign" /\ task'[y].for = b
    <3>1. b # a /\ account[b] = "user"
      BY <1>5, <2>2
    <3>2. b \in halved \/ \E y \in Wizard!Actor : task[y].at = "assign" /\ task[y].for = b
      BY <3>1 DEF WizardInv, UsersAreAccountedFor
    <3>3. ASSUME NEW y \in Wizard!Actor, task[y].at = "assign", task[y].for = b PROVE task'[y] = task[y]
      BY <1>4, <3>1, <3>3 DEF a
    <3> QED
      BY <1>2, <3>2, <3>3
  <2>3. \A b \in Address : account'[b] = "admin" => role' /\ (b \in byWizard' \/ b = Boss)
    BY <1>1, <1>2, <1>3, <1>5, ActorFacts DEF WizardInv, UsersAreAccountedFor
  <2>4. \A b \in byWizard' : account'[b] = "admin"
    BY <1>2, <1>5 DEF WizardInv, UsersAreAccountedFor, RowShapes
  <2>5. \A b \in first' : account'[b] # "none"
    BY <1>2, <1>5 DEF WizardInv, UsersAreAccountedFor, RowShapes
  <2> QED
    BY <2>1, <2>2, <2>3, <2>4, <2>5 DEF UsersAreAccountedFor
<1>8. LatchesHold'
  BY <1>1, <1>2, <1>4, ActorFacts, Steps, LatchesStay
<1>9. OneAtATime'
  <2>1. CASE x \in Node
    BY <1>2, <1>4, <2>1, ActorFacts, NobodyEnters
  <2>2. CASE x \in Visit
    <3> SUFFICES ASSUME ~crossed'
                 PROVE  /\ \A v, w \in Visit : task'[v].at \in Busy /\ task'[w].at \in Busy => v = w
                        /\ \A v \in Visit : task'[v].at \in Wizard!Creating => byWizard' = {}
                        /\ byWizard' = {} \/ \E b \in Address : byWizard' = {b}
      BY DEF OneAtATime
    <3>1. ~crossed /\ byWizard = {} /\ \A v \in Visit : task[v].at \in Busy => v = x
      BY <1>1, <1>2, <2>2, Steps DEF WizardInv, OneAtATime
    <3>2. task'[x].at = "seed"
      BY <1>4, <2>2, ActorFacts
    <3>3. \A v \in Visit : task'[v].at \in Busy => v = x
      BY <1>4, <3>1, ActorFacts
    <3>4. byWizard' = {a}
      BY <1>2, <2>2, <3>1
    <3> QED
      BY <1>1, <3>2, <3>3, <3>4, Steps
  <2> QED
    BY <2>1, <2>2, ActorFacts
<1>10. SomebodySeeds'
  <2>1. \A n \in Node : (task'[n].at = "up" <=> task[n].at = "up") /\ (task'[n].at = "down" <=> task[n].at = "down")
    BY <1>1, <1>4, ActorFacts
  <2>2. Ups' = Ups /\ Runs' = Runs
    BY <2>1 DEF Ups, Runs
  <2>3. CASE x \in Visit
    <3>1. task'[x].at = "seed"
      BY <1>4, <2>3, ActorFacts
    <3> QED
      BY <1>2, <2>2, <2>3, <3>1 DEF WizardInv, SomebodySeeds
  <2>4. CASE x \in Node
    <3>1. x \in Runs /\ x \notin Ups
      BY <1>1, <2>4 DEF Runs, Ups
    <3>2. Cardinality(Ups) < Cardinality(Runs)
      <4>1. Ups # Runs
        BY <3>1
      <4> QED
        BY <4>1, NodesAreFinite, FS_Subset
    <3>3. launch.nodes \in Nat
      BY WizardAssumption DEF WizardInv, RowShapes
    <3>4. Cardinality(Ups) < launch.nodes
      BY <3>2, <3>3, NodesAreFinite DEF WizardInv, SomebodySeeds
    <3> QED
      BY <1>2, <2>2, <3>4 DEF WizardInv, SomebodySeeds
  <2> QED
    BY <2>3, <2>4, ActorFacts
<1>11. CalmMeansAlone'
  BY <1>2, <1>4, ActorFacts, CalmStays DEF WizardInv, RowShapes
<1>12. Wizard!CompletionIsTheAdministrators'
  <2>1. \A b \in Address : account[b] = "admin" => account'[b] = "admin"
    BY <1>5
  <2>2. \A b \in Address : account[b] # "none" => account'[b] # "none"
    BY <1>5
  <2> QED
    BY <1>2, <2>1, <2>2, TokensStay
<1> QED
  BY <1>4, <1>6, <1>7, <1>8, <1>9, <1>10, <1>11, <1>12 DEF WizardInv

\* What serves and starting nodes share.
LEMMA CreateKeeps == ASSUME WizardInv, NEW x \in Wizard!Actor, Wizard!Create(x) PROVE WizardInv'
BY FailKeeps, FindRoleKeeps, InsertRoleKeeps, InsertUserKeeps, AssignKeeps DEF Wizard!Create

\* A request that is on neither side of the latch, before or after.
LEMMA RequestWaits ==
  ASSUME WizardInv, NEW v \in Visit, NEW t, Moved(v, t), t.at \in {"idle", "guarded", "checked"},
         task[v].at \in {"idle", "guarded", "checked"},
         UNCHANGED <<launch, account, first, role, bound, latch, sessions, halved, crossed, faulty, calm, byWizard>>
  PROVE  WizardInv'
<1>1. v \in Wizard!Actor /\ v \notin Node
  BY ActorFacts
<1>2. TasksAreSteps' /\ task'[v] = t /\ \A y \in Wizard!Actor \ {v} : task'[y] = task[y]
  BY <1>1, OneMoved
<1>3. UsersAreAccountedFor'
  BY <1>1, <1>2, RowsStay
<1>4. LatchesHold'
  BY <1>1, <1>2, Steps, LatchesStay
<1>5. OneAtATime'
  BY <1>1, <1>2, Steps, NobodyEnters
<1>6. SomebodySeeds'
  BY <1>1, <1>2, SeedersStay
<1>7. CalmMeansAlone'
  BY <1>1, <1>2, CalmStays DEF WizardInv, RowShapes
<1>8. Wizard!CompletionIsTheAdministrators' /\ RowShapes'
  BY TokensStay DEF WizardInv, RowShapes
<1> QED
  BY <1>2, <1>3, <1>4, <1>5, <1>6, <1>7, <1>8 DEF WizardInv

LEMMA IdleFacts ==
  /\ Wizard!Idle \in Tasks /\ Wizard!Idle.at = "idle"
  /\ Wizard!Down \in Tasks /\ Wizard!Down.at = "down" /\ Wizard!Down.for = Boss
BY WizardAssumption DEF Wizard!Idle, Wizard!Down, Tasks, VisitStep, NodeStep

LEMMA WizardKeeps == ASSUME WizardInv, NEW v \in Visit, Wizard!Wizard(v) PROVE WizardInv'
<1>0. v \in Wizard!Actor /\ v \notin Node /\ task[v] \in Tasks
  BY ActorFacts DEF WizardInv, TasksAreSteps
<1>1. ASSUME NEW n \in Node, NEW a \in Address, Wizard!Arrive(v, n, a) PROVE WizardInv'
  <2> DEFINE t == [at |-> "guarded", on |-> n, for |-> a, tries |-> 0]
  <2>1. t \in Tasks /\ t.at = "guarded" /\ t.on = n
    BY WizardAssumption DEF Tasks, VisitStep
  <2>2. task' = [task EXCEPT ![v] = t] /\ task[v].at = "idle"
        /\ UNCHANGED <<launch, account, first, role, bound, latch, sessions, halved, crossed, faulty, calm, byWizard>>
    BY <1>1 DEF Wizard!Arrive, Wizard!At, Wizard!rowVars, Wizard!past
  <2> HIDE DEF t
  <2>3. Moved(v, t)
    BY <1>0, <2>1, <2>2, Steps DEF Moved
  <2> QED
    BY <2>1, <2>2, <2>3, RequestWaits
<1>2. CASE Wizard!Recheck(v)
  <2>1. task[v].at = "guarded" /\ task[v].on \in Node
        /\ UNCHANGED <<launch, account, first, role, bound, latch, sessions, halved, crossed, faulty, calm, byWizard>>
    BY <1>2 DEF Wizard!Recheck, Wizard!At, Wizard!rowVars, Wizard!past, WizardInv, TasksAreSteps
  <2>2. CASE task' = [task EXCEPT ![v] = Wizard!Idle]
    <3>1. Moved(v, Wizard!Idle)
      BY <1>0, <2>2, IdleFacts, Steps DEF Moved
    <3> QED
      BY <2>1, <3>1, IdleFacts, RequestWaits
  <2>3. CASE Wizard!Goes(v, "checked")
    <3> DEFINE t == [task[v] EXCEPT !.at = "checked"]
    <3>1. t \in Tasks /\ t.at = "checked" /\ t.on = task[v].on
      BY <1>0, Steps DEF Tasks
    <3>2. task' = [task EXCEPT ![v] = t]
      BY <2>3 DEF Wizard!Goes
    <3> HIDE DEF t
    <3>3. Moved(v, t)
      BY <1>0, <2>1, <3>1, <3>2, Steps DEF Moved
    <3> QED
      BY <2>1, <3>1, <3>3, RequestWaits
  <2> QED
    BY <1>2, <2>2, <2>3 DEF Wizard!Recheck
<1>3. CASE Wizard!Enter(v)
  <2>1. task[v].at = "checked" /\ task[v].on \in Node
        /\ UNCHANGED <<launch, account, first, role, bound, sessions, halved, faulty, byWizard>>
    BY <1>3 DEF Wizard!Enter, Wizard!At, Wizard!rowVars, WizardInv, TasksAreSteps
  <2>2. CASE latch[task[v].on]
    <3>1. task' = [task EXCEPT ![v] = Wizard!Idle] /\ UNCHANGED <<latch, crossed, calm>>
      BY <1>3, <2>2 DEF Wizard!Enter, Wizard!Latched
    <3>2. Moved(v, Wizard!Idle)
      BY <1>0, <3>1, IdleFacts, Steps DEF Moved
    <3> QED
      BY <2>1, <3>1, <3>2, IdleFacts, RequestWaits
  <2>3. CASE ~latch[task[v].on]
    <3> DEFINE n == task[v].on
    <3>1. /\ Wizard!Goes(v, "find") /\ latch' = [latch EXCEPT ![n] = TRUE]
          /\ crossed' = (crossed \/ Wizard!Administered \/ \E m \in Node \ {n} : latch[m])
          /\ calm' \subseteq calm \cup {v}
      BY <1>3, <2>3 DEF Wizard!Enter, Wizard!Latched
    <3>2. /\ TasksAreSteps' /\ \A y \in Wizard!Actor \ {v} : task'[y] = task[y]
          /\ task'[v].at = "find" /\ task'[v].on = n
      BY <1>0, <2>1, <3>1, Steps, Going
    <3>3. \A w \in Visit : task[w].at \in Busy => task[w].on # n /\ w # v /\ task[w].on \in Node
      BY <2>1, <2>3, Steps DEF WizardInv, LatchesHold, TasksAreSteps
    <3>4. \A w \in Visit \ {v} : task'[w] = task[w]
      BY <3>2, ActorFacts
    <3>5. n \in Node /\ task'[v].at \in Busy
      BY <2>1, <3>2, Steps
    <3> HIDE DEF n
    <3>6. LatchesHold'
      <4>1. latch' \in [Node -> BOOLEAN] /\ latch'[n] = TRUE /\ \A m \in Node \ {n} : latch'[m] = latch[m]
        BY <3>1, <3>5 DEF WizardInv, LatchesHold
      <4>2. ASSUME NEW m \in Node PROVE latch'[m] <=> \E w \in Visit : task'[w].on = m /\ task'[w].at \in Busy
        <5>1. CASE m = n
          BY <3>2, <3>5, <4>1, <5>1
        <5>2. CASE m # n
          <6>1. latch'[m] <=> \E w \in Visit : task[w].on = m /\ task[w].at \in Busy
            BY <4>1, <5>2 DEF WizardInv, LatchesHold
          <6>2. ASSUME NEW w \in Visit, task[w].on = m, task[w].at \in Busy PROVE task'[w].on = m /\ task'[w].at \in Busy
            BY <3>3, <3>4, <6>2
          <6>3. ASSUME NEW w \in Visit, task'[w].on = m, task'[w].at \in Busy PROVE task[w].on = m /\ task[w].at \in Busy
            BY <3>2, <3>4, <5>2, <6>3
          <6> QED
            BY <6>1, <6>2, <6>3
        <5> QED
          BY <5>1, <5>2
      <4>3. ASSUME NEW w \in Visit, NEW u \in Visit, task'[w].at \in Busy, task'[u].at \in Busy, task'[w].on = task'[u].on PROVE w = u
        BY <3>2, <3>3, <3>4, <4>3 DEF WizardInv, LatchesHold
      <4> QED
        BY <4>1, <4>2, <4>3 DEF LatchesHold
    <3>7. OneAtATime'
      <4> SUFFICES ASSUME ~crossed'
                   PROVE  byWizard' = {} /\ \A w \in Visit : task'[w].at \in Busy => w = v
        BY DEF OneAtATime
      <4>1. ~Wizard!Administered /\ \A m \in Node \ {n} : ~latch[m]
        BY <3>1
      <4>2. byWizard = {}
        BY <4>1 DEF WizardInv, UsersAreAccountedFor, RowShapes, Wizard!Administered
      <4>3. \A w \in Visit : task[w].at \notin Busy
        BY <3>3, <4>1 DEF WizardInv, LatchesHold
      <4> QED
        BY <2>1, <3>4, <4>2, <4>3
    <3>8. UsersAreAccountedFor'
      BY <1>0, <2>1, <3>2, RowsStay
    <3>9. SomebodySeeds'
      BY <1>0, <2>1, <3>2, SeedersStay
    <3>10. CalmMeansAlone' /\ calm' \subseteq Visit
      <4>1. calm' \subseteq Visit
        BY <3>1 DEF WizardInv, RowShapes
      <4> QED
        BY <1>0, <2>1, <3>1, <3>2, <4>1, CalmStays
    <3>11. crossed' \in BOOLEAN /\ (crossed => crossed')
      BY <3>1
    <3>12. Wizard!CompletionIsTheAdministrators'
      BY <2>1, <3>11, TokensStay
    <3>13. RowShapes'
      BY <2>1, <3>10, <3>11 DEF WizardInv, RowShapes
    <3> QED
      BY <3>2, <3>6, <3>7, <3>8, <3>9, <3>10, <3>12, <3>13 DEF WizardInv
  <2> QED
    BY <2>2, <2>3
<1>4. CASE Wizard!FindUser(v)
  <2>1. task[v].at = "find" /\ UNCHANGED <<launch, Wizard!rowVars, sessions, Wizard!past>>
    BY <1>4 DEF Wizard!FindUser, Wizard!At
  <2>2. Wizard!Leaves(v) \/ (Wizard!Goes(v, "role") /\ latch' = latch)
    BY <1>4 DEF Wizard!FindUser
  <2>3. CASE Wizard!Leaves(v)
    BY <1>0, <2>1, <2>3, Steps, CollideKeeps
  <2>4. CASE Wizard!Goes(v, "role") /\ latch' = latch
    BY <1>0, <2>1, <2>4, Steps, GoesOn
  <2> QED
    BY <2>2, <2>3, <2>4
<1>5. CASE Wizard!Create(v)
  BY <1>0, <1>5, CreateKeeps
<1>6. CASE Wizard!Seed(v)
  <2>1. task[v].at = "seed" /\ Wizard!Leaves(v) /\ (bound' = TRUE \/ faulty' = TRUE) /\ (bound => bound') /\ (faulty => faulty')
        /\ bound' \in BOOLEAN /\ faulty' \in BOOLEAN
        /\ UNCHANGED <<launch, account, first, role, sessions, halved, crossed, calm, byWizard>>
    <3>1. bound \in BOOLEAN /\ faulty \in BOOLEAN
      BY DEF WizardInv, RowShapes
    <3>2. (bound' = TRUE /\ faulty' = faulty) \/ (faulty' = TRUE /\ bound' = bound)
      BY <1>6 DEF Wizard!Seed
    <3>3. (bound' = TRUE \/ faulty' = TRUE) /\ (bound => bound') /\ (faulty => faulty')
      BY <3>2
    <3>4. bound' \in BOOLEAN /\ faulty' \in BOOLEAN
      BY <3>1, <3>2
    <3> QED
      BY <1>6, <3>3, <3>4 DEF Wizard!Seed, Wizard!At
  <2>2. /\ TasksAreSteps' /\ LatchesHold' /\ \A y \in Wizard!Actor \ {v} : task'[y] = task[y]
        /\ task'[v].at = "idle"
    BY <1>0, <2>1, Steps, Leaving
  <2>3. UsersAreAccountedFor'
    BY <1>0, <2>1, <2>2, RowsStay
  <2>4. OneAtATime'
    BY <1>0, <2>1, <2>2, Steps, NobodyEnters
  <2>5. SomebodySeeds'
    BY <1>0, <2>1, <2>2, SeedersStay
  <2>6. CalmMeansAlone'
    BY <1>0, <2>1, <2>2, CalmStays DEF WizardInv, RowShapes
  <2>7. Wizard!CompletionIsTheAdministrators'
    BY <2>1, TokensStay
  <2>8. RowShapes'
    BY <2>1 DEF WizardInv, RowShapes
  <2> QED
    BY <2>2, <2>3, <2>4, <2>5, <2>6, <2>7, <2>8 DEF WizardInv
<1> QED
  BY <1>1, <1>2, <1>3, <1>4, <1>5, <1>6 DEF Wizard!Wizard

\* A node that is, or comes, up, or starts: what counts nodes is left to show.
LEMMA NodeMoves ==
  ASSUME WizardInv, NEW n \in Node, NEW t, Moved(n, t), t.at \in {"start", "heal", "up"}, task[n].at \in {"down", "heal", "look"},
         UNCHANGED <<launch, account, first, role, latch, sessions, halved, crossed, calm, byWizard>>,
         bound' \in BOOLEAN, faulty' \in BOOLEAN, bound => bound', faulty => faulty'
  PROVE  /\ \A y \in Wizard!Actor \ {n} : task'[y] = task[y]
         /\ task'[n] = t /\ (SomebodySeeds' => WizardInv')
<1>1. n \in Wizard!Actor /\ n \notin Visit
  BY ActorFacts
<1>2. TasksAreSteps' /\ task'[n] = t /\ \A y \in Wizard!Actor \ {n} : task'[y] = task[y]
  BY <1>1, OneMoved
<1>3. UsersAreAccountedFor'
  BY <1>1, <1>2, RowsStay
<1>4. LatchesHold'
  BY <1>1, <1>2, LatchesStay
<1>5. OneAtATime'
  BY <1>1, <1>2, NobodyEnters
<1>6. CalmMeansAlone'
  BY <1>1, <1>2, CalmStays DEF WizardInv, RowShapes
<1>7. Wizard!CompletionIsTheAdministrators' /\ RowShapes'
  BY TokensStay DEF WizardInv, RowShapes
<1> QED
  BY <1>2, <1>3, <1>4, <1>5, <1>6, <1>7 DEF WizardInv

\* The same nodes run.
LEMMA SameRuns ==
  ASSUME WizardInv, NEW n \in Node, \A y \in Wizard!Actor \ {n} : task'[y] = task[y],
         task[n].at # "down", task'[n].at # "down", launch' = launch, account' = account, role' = role,
         bound' \in BOOLEAN, faulty' \in BOOLEAN, bound => bound', faulty => faulty',
         task'[n].at = "up" => faulty' \/ (role => bound'), task[n].at # "up"
  PROVE  SomebodySeeds'
<1>1. \A m \in Node \ {n} : task'[m] = task[m]
  BY ActorFacts
<1>2. Runs' = Runs
  BY <1>1 DEF Runs
<1>3. Wizard!Administered => role
  BY DEF WizardInv, UsersAreAccountedFor, Wizard!Administered
<1>4. CASE task'[n].at = "up"
  BY <1>2, <1>3, <1>4 DEF WizardInv, SomebodySeeds, Wizard!Administered
<1>5. CASE task'[n].at # "up"
  <2>1. Ups' = Ups
    BY <1>1, <1>5 DEF Ups
  <2>2. \A v \in Visit : task'[v] = task[v]
    BY ActorFacts
  <2> QED
    BY <1>2, <2>1, <2>2 DEF WizardInv, SomebodySeeds, Wizard!Administered
<1> QED
  BY <1>4, <1>5

LEMMA CrashKeeps == ASSUME WizardInv, NEW n \in Node, Wizard!Crash(n) PROVE WizardInv'
<1> DEFINE lost == {n} \cup {v \in Visit : task[v].on = n}
<1>1. /\ task[n].at # "down"
      /\ task' = [x \in Wizard!Actor |-> IF x = n THEN Wizard!Down ELSE IF x \in lost THEN Wizard!Idle ELSE task[x]]
      /\ latch' = [latch EXCEPT ![n] = FALSE]
      /\ halved' = halved \cup {task[y].for : y \in {z \in lost : task[z].at = "assign"}}
      /\ calm' = calm \ lost
      /\ UNCHANGED <<launch, account, first, role, bound, sessions, crossed, faulty, byWizard>>
  BY DEF Wizard!Crash, Wizard!Running, Wizard!HalfMade, Wizard!At, Wizard!rowVars
<1>2. /\ n \in Wizard!Actor /\ n \notin Visit /\ lost \subseteq Wizard!Actor /\ n \in lost
      /\ \A x \in lost : x = n \/ (x \in Visit /\ task[x].on = n)
      /\ \A v \in Visit : task[v].on = n => v \in lost
  BY ActorFacts
<1> HIDE DEF lost
<1>3. /\ task'[n] = Wizard!Down /\ \A x \in lost \ {n} : task'[x] = Wizard!Idle
      /\ \A x \in Wizard!Actor \ lost : task'[x] = task[x]
  BY <1>1, <1>2
<1>4. task' \in [Wizard!Actor -> Tasks]
  BY <1>1, IdleFacts DEF WizardInv, TasksAreSteps
<1>5. TasksAreSteps'
  <2>1. \A v \in Visit : task'[v].at \in VisitStep /\ (task'[v].at # "idle" => task'[v].on \in Node)
    BY <1>2, <1>3, IdleFacts, ActorFacts, Steps DEF WizardInv, TasksAreSteps
  <2>2. \A m \in Node : task'[m].at \in NodeStep /\ task'[m].for = Boss
    BY <1>2, <1>3, IdleFacts, ActorFacts DEF WizardInv, TasksAreSteps, NodeStep
  <2> QED
    BY <1>4, <2>1, <2>2 DEF TasksAreSteps
<1>6. \A x \in Wizard!Actor : task'[x].at \notin {"idle", "down"} => x \notin lost /\ task'[x] = task[x]
  BY <1>3, IdleFacts
<1>7. \A v \in Visit : task'[v].at \in Busy => task'[v] = task[v] /\ task[v].on # n
  BY <1>2, <1>6, ActorFacts, Steps
<1>8. LatchesHold'
  <2>1. latch' \in [Node -> BOOLEAN] /\ latch'[n] = FALSE /\ \A m \in Node \ {n} : latch'[m] = latch[m]
    BY <1>1 DEF WizardInv, LatchesHold
  <2>2. ASSUME NEW m \in Node PROVE latch'[m] <=> \E v \in Visit : task'[v].on = m /\ task'[v].at \in Busy
    <3>1. CASE m = n
      BY <1>7, <2>1, <3>1
    <3>2. CASE m # n
      <4>1. latch'[m] <=> \E v \in Visit : task[v].on = m /\ task[v].at \in Busy
        BY <2>1, <3>2 DEF WizardInv, LatchesHold
      <4>2. ASSUME NEW v \in Visit, task[v].on = m PROVE task'[v] = task[v]
        BY <1>2, <1>3, <3>2, <4>2, ActorFacts
      <4>3. ASSUME NEW v \in Visit, task'[v].on = m, task'[v].at \in Busy PROVE task[v].on = m /\ task[v].at \in Busy
        BY <1>7, <4>3
      <4> QED
        BY <4>1, <4>2, <4>3
    <3> QED
      BY <3>1, <3>2
  <2>3. ASSUME NEW v \in Visit, NEW w \in Visit, task'[v].at \in Busy, task'[w].at \in Busy, task'[v].on = task'[w].on PROVE v = w
    BY <1>7, <2>3 DEF WizardInv, LatchesHold
  <2> QED
    BY <2>1, <2>2, <2>3 DEF LatchesHold
<1>9. halved \subseteq halved' /\ halved' \subseteq Address
      /\ \A x \in lost : task[x].at = "assign" => task[x].for \in halved'
  <2>1. \A x \in lost : task[x].for \in Address
    BY <1>2 DEF WizardInv, TasksAreSteps, Tasks
  <2>2. halved \subseteq Address
    BY DEF WizardInv, RowShapes
  <2> QED
    BY <1>1, <2>1, <2>2
<1>10. UsersAreAccountedFor'
  <2>1. \A y \in Wizard!Actor :
          /\ task'[y].at = "assign" => account'[task'[y].for] # "none"
          /\ task'[y].at \in {"user", "assign"} => role'
    BY <1>1, <1>6 DEF WizardInv, UsersAreAccountedFor
  <2>2. ASSUME NEW a \in Address, account'[a] = "user"
        PROVE  a \in halved' \/ \E y \in Wizard!Actor : task'[y].at = "assign" /\ task'[y].for = a
    <3>1. CASE a \in halved
      BY <1>9, <3>1
    <3>2. ASSUME NEW y \in Wizard!Actor, task[y].at = "assign", task[y].for = a
          PROVE  a \in halved' \/ (task'[y].at = "assign" /\ task'[y].for = a)
      BY <1>3, <1>9, <3>2
    <3> QED
      BY <1>1, <2>2, <3>1, <3>2 DEF WizardInv, UsersAreAccountedFor
  <2> QED
    BY <1>1, <2>1, <2>2 DEF WizardInv, UsersAreAccountedFor
<1>11. OneAtATime'
  BY <1>1, <1>7, Steps, SMTT(60) DEF WizardInv, OneAtATime
<1>12. SomebodySeeds'
  <2>1. n \in Runs
    BY <1>1 DEF Runs
  <2>2. Runs' = Runs \ {n} /\ Ups' \subseteq Runs'
    BY <1>2, <1>3, IdleFacts, ActorFacts DEF Runs, Ups
  <2>3. Cardinality(Runs \ {n}) = Cardinality(Runs) - 1 /\ IsFiniteSet(Runs \ {n})
    BY <2>1, NodesAreFinite, FS_RemoveElement
  <2>4. Cardinality(Ups') <= Cardinality(Runs') /\ Cardinality(Ups') \in Nat /\ Cardinality(Runs') \in Nat
    BY <2>2, <2>3, FS_Subset, FS_CardinalityType
  <2>5. launch.nodes \in Nat
    BY WizardAssumption DEF WizardInv, RowShapes
  <2>6. Cardinality(Runs) <= launch.nodes
    BY DEF WizardInv, SomebodySeeds
  <2>7. Cardinality(Ups') < launch.nodes /\ Cardinality(Runs') <= launch.nodes
    BY <2>2, <2>3, <2>4, <2>5, <2>6, NodesAreFinite
  <2>8. Cardinality(Ups)' = Cardinality(Ups') /\ Cardinality(Runs)' = Cardinality(Runs')
    OBVIOUS
  <2> QED
    BY <1>1, <2>7, <2>8 DEF SomebodySeeds
<1>13. CalmMeansAlone'
  <2>1. \A v \in calm' : task'[v].at = "insert" => v \in calm /\ task'[v] = task[v]
    BY <1>1, <1>6, ActorFacts DEF WizardInv, RowShapes
  <2> QED
    BY <1>1, <2>1 DEF WizardInv, CalmMeansAlone
<1>14. Wizard!CompletionIsTheAdministrators' /\ RowShapes'
  BY <1>1, <1>9, TokensStay DEF WizardInv, RowShapes
<1> QED
  BY <1>5, <1>8, <1>10, <1>11, <1>12, <1>13, <1>14 DEF WizardInv

LEMMA RunKeeps == ASSUME WizardInv, NEW n \in Node, Wizard!Run(n) PROVE WizardInv'
<1>0. n \in Wizard!Actor /\ n \notin Visit /\ task[n] \in Tasks /\ task[n].for = Boss
  BY ActorFacts DEF WizardInv, TasksAreSteps
<1>00. bound \in BOOLEAN /\ faulty \in BOOLEAN
  BY DEF WizardInv, RowShapes
<1>1. CASE Wizard!Start(n)
  <2> DEFINE t == [task[n] EXCEPT !.at = "start"]
  <2>1. t \in Tasks /\ t.at = "start" /\ t.for = Boss
    BY <1>0 DEF Tasks, NodeStep
  <2>2. task' = [task EXCEPT ![n] = t] /\ task[n].at = "down"
        /\ UNCHANGED <<launch, account, first, role, bound, latch, sessions, halved, crossed, faulty, calm, byWizard>>
    BY <1>1 DEF Wizard!Start, Wizard!At, Wizard!Goes, Wizard!rowVars, Wizard!past
  <2>3. Cardinality(Runs) < launch.nodes
    <3>1. Runs = {m \in Node : Wizard!Running(m)}
      BY DEF Runs, Wizard!Running
    <3> QED
      BY <1>1, <3>1, SameCardinality DEF Wizard!Start
  <2> HIDE DEF t
  <2>4. Moved(n, t)
    BY <1>0, <2>1, <2>2 DEF Moved, NodeStep
  <2>5. /\ \A y \in Wizard!Actor \ {n} : task'[y] = task[y]
        /\ task'[n] = t /\ (SomebodySeeds' => WizardInv')
    BY <1>00, <2>1, <2>2, <2>4, NodeMoves
  <2>6. \A m \in Node \ {n} : task'[m] = task[m]
    BY <2>5, ActorFacts
  <2>7. Ups' = Ups /\ Runs' = Runs \cup {n} /\ n \notin Runs
    BY <2>1, <2>2, <2>5, <2>6 DEF Ups, Runs
  <2>8. Cardinality(Runs \cup {n}) = Cardinality(Runs) + 1
    BY <2>7, NodesAreFinite, FS_AddElement
  <2>9. launch.nodes \in Nat
    BY WizardAssumption DEF WizardInv, RowShapes
  <2>10. Cardinality(Runs)' <= launch.nodes
    BY <2>3, <2>7, <2>8, <2>9, NodesAreFinite
  <2>11. \A v \in Visit : task'[v] = task[v]
    BY <1>0, <2>5, ActorFacts
  <2>12. SomebodySeeds'
    BY <2>2, <2>7, <2>10, <2>11 DEF WizardInv, SomebodySeeds, Wizard!Administered
  <2> QED
    BY <2>5, <2>12
<1>2. CASE Wizard!Bypass(n)
  <2>1. task[n].at = "start" /\ UNCHANGED <<launch, Wizard!rowVars, latch, sessions, Wizard!past>>
    BY <1>2 DEF Wizard!Bypass, Wizard!At
  <2>2. Wizard!Goes(n, "role") \/ Wizard!Goes(n, "heal")
    BY <1>2 DEF Wizard!Bypass
  <2>3. CASE Wizard!Goes(n, "role")
    BY <1>0, <2>1, <2>3, GoesOn
  <2>4. CASE Wizard!Goes(n, "heal")
    BY <1>0, <2>1, <2>4, GoesOn
  <2> QED
    BY <2>2, <2>3, <2>4
<1>3. CASE Wizard!Create(n)
  BY <1>0, <1>3, CreateKeeps
<1>4. CASE Wizard!Probe(n)
  <2>1. task[n].at = "heal" /\ UNCHANGED <<launch, account, first, role, bound, latch, sessions, halved, crossed, calm, byWizard>>
    BY <1>4 DEF Wizard!Probe, Wizard!At, Wizard!rowVars
  <2>2. CASE Wizard!Goes(n, "look") /\ faulty' = faulty
    <3>1. UNCHANGED <<launch, Wizard!rowVars, latch, sessions, Wizard!past>>
      BY <2>1, <2>2 DEF Wizard!rowVars, Wizard!past
    <3> QED
      BY <1>0, <2>1, <2>2, <3>1, GoesOn
  <2>3. CASE task[n].tries + 1 < Probes /\ task' = [task EXCEPT ![n].tries = @ + 1] /\ faulty' = faulty
    <3> DEFINE t == [task[n] EXCEPT !.tries = task[n].tries + 1]
    <3>1. task[n].tries + 1 \in 0..Probes - 1
      BY <1>0, <2>3, WizardAssumption DEF Tasks
    <3>2. t \in Tasks /\ t.at = "heal" /\ t.for = Boss
      BY <1>0, <2>1, <3>1 DEF Tasks
    <3>3. task' = [task EXCEPT ![n] = t]
      BY <2>3
    <3> HIDE DEF t
    <3>4. Moved(n, t)
      BY <1>0, <3>2, <3>3 DEF Moved, NodeStep
    <3>5. /\ \A y \in Wizard!Actor \ {n} : task'[y] = task[y]
          /\ task'[n] = t /\ (SomebodySeeds' => WizardInv')
      BY <1>00, <2>1, <2>3, <3>2, <3>4, NodeMoves
    <3>6. SomebodySeeds'
      BY <1>00, <2>1, <2>3, <3>2, <3>5, SameRuns
    <3> QED
      BY <3>5, <3>6
  <2>4. CASE Wizard!Goes(n, "up") /\ faulty' = TRUE
    <3> DEFINE t == [task[n] EXCEPT !.at = "up"]
    <3>1. t \in Tasks /\ t.at = "up" /\ t.for = Boss
      BY <1>0 DEF Tasks, NodeStep
    <3>2. task' = [task EXCEPT ![n] = t]
      BY <2>4 DEF Wizard!Goes
    <3> HIDE DEF t
    <3>3. Moved(n, t)
      BY <1>0, <3>1, <3>2 DEF Moved, NodeStep
    <3>4. /\ \A y \in Wizard!Actor \ {n} : task'[y] = task[y]
          /\ task'[n] = t /\ (SomebodySeeds' => WizardInv')
      BY <1>00, <2>1, <2>4, <3>1, <3>3, NodeMoves
    <3>5. SomebodySeeds'
      BY <1>00, <2>1, <2>4, <3>1, <3>4, SameRuns
    <3> QED
      BY <3>4, <3>5
  <2> QED
    BY <1>4, <2>2, <2>3, <2>4 DEF Wizard!Probe
<1>5. CASE Wizard!Heal(n)
  <2> DEFINE t == [task[n] EXCEPT !.at = "up"]
  <2>1. t \in Tasks /\ t.at = "up" /\ t.for = Boss
    BY <1>0 DEF Tasks, NodeStep
  <2>2. task' = [task EXCEPT ![n] = t] /\ task[n].at = "look"
        /\ UNCHANGED <<launch, account, first, role, latch, sessions, halved, crossed, calm, byWizard>>
    BY <1>5 DEF Wizard!Heal, Wizard!At, Wizard!Goes
  <2>3. bound' \in BOOLEAN /\ faulty' \in BOOLEAN /\ (bound => bound') /\ (faulty => faulty') /\ (faulty' \/ (role => bound'))
    <3>1. (bound' = (bound \/ role) /\ faulty' = faulty) \/ (faulty' = TRUE /\ bound' = bound)
      BY <1>5 DEF Wizard!Heal
    <3>2. bound' \in BOOLEAN /\ faulty' \in BOOLEAN
      BY <1>00, <3>1
    <3>3. CASE bound' = (bound \/ role) /\ faulty' = faulty
      BY <3>2, <3>3
    <3>4. CASE faulty' = TRUE /\ bound' = bound
      BY <3>2, <3>4
    <3> QED
      BY <3>1, <3>3, <3>4
  <2> HIDE DEF t
  <2>4. Moved(n, t)
    BY <1>0, <2>1, <2>2 DEF Moved, NodeStep
  <2>5. /\ \A y \in Wizard!Actor \ {n} : task'[y] = task[y]
        /\ task'[n] = t /\ (SomebodySeeds' => WizardInv')
    BY <2>1, <2>2, <2>3, <2>4, NodeMoves
  <2>6. SomebodySeeds'
    BY <2>1, <2>2, <2>3, <2>5, SameRuns
  <2> QED
    BY <2>5, <2>6
<1>6. CASE Wizard!Crash(n)
  BY <1>6, CrashKeeps
<1> QED
  BY <1>1, <1>2, <1>3, <1>4, <1>5, <1>6 DEF Wizard!Run

LEMMA CompleteKeeps == ASSUME WizardInv, NEW a \in Address, Wizard!Complete(a) PROVE WizardInv'
<1>1. /\ Wizard!Initialized /\ a \in first /\ sessions' = sessions \cup {a}
      /\ UNCHANGED <<launch, account, first, role, bound, latch, task, halved, crossed, faulty, calm, byWizard>>
  BY DEF Wizard!Complete, Wizard!Completes, Wizard!rowVars, Wizard!past
<1>2. account[a] = "admin" \/ account[Boss] # "none" \/ halved # {} \/ crossed
  <2> SUFFICES ASSUME account[a] # "admin", account[Boss] = "none", halved = {}, ~crossed PROVE FALSE
    OBVIOUS
  <2>1. PICK b \in Address : account[b] = "admin"
    BY <1>1 DEF Wizard!Initialized, Wizard!Administered
  <2>2. b \in byWizard
    BY <2>1 DEF WizardInv, UsersAreAccountedFor
  <2>3. account[a] = "user"
    BY <1>1 DEF WizardInv, UsersAreAccountedFor, RowShapes
  <2>4. PICK x \in Wizard!Actor : task[x].at = "assign" /\ task[x].for = a
    BY <2>3 DEF WizardInv, UsersAreAccountedFor
  <2>5. x \in Visit
    BY <2>3, <2>4, ActorFacts DEF WizardInv, TasksAreSteps
  <2>6. byWizard = {}
    BY <2>4, <2>5, Steps DEF WizardInv, OneAtATime
  <2> QED
    BY <2>2, <2>6
<1>3. Wizard!CompletionIsTheAdministrators'
  BY <1>1, <1>2 DEF WizardInv, Wizard!CompletionIsTheAdministrators
<1>4. RowShapes'
  BY <1>1 DEF WizardInv, RowShapes
<1>5. TasksAreSteps' /\ LatchesHold' /\ UsersAreAccountedFor' /\ OneAtATime' /\ SomebodySeeds' /\ CalmMeansAlone'
  BY <1>1 DEF WizardInv, TasksAreSteps, LatchesHold, UsersAreAccountedFor, OneAtATime, SomebodySeeds, CalmMeansAlone,
     Wizard!Administered, Runs, Ups
<1> QED
  BY <1>3, <1>4, <1>5 DEF WizardInv

LEMMA WizardSteps == WizardInv /\ [HouseNext]_<<part, vars, wizard, secrets>> => WizardInv'
<1> SUFFICES ASSUME WizardInv, [HouseNext]_<<part, vars, wizard, secrets>> PROVE WizardInv'
  OBVIOUS
<1>1. Wizard!Next \/ UNCHANGED wizard
  BY DEF HouseNext
<1>2. CASE UNCHANGED wizard
  BY <1>2 DEF wizard, WizardInv, TasksAreSteps, RowShapes, LatchesHold, UsersAreAccountedFor, OneAtATime, SomebodySeeds, CalmMeansAlone,
     Wizard!CompletionIsTheAdministrators, Wizard!Administered, Runs, Ups
<1> QED
  BY <1>1, <1>2, WizardKeeps, RunKeeps, CompleteKeeps DEF Wizard!Next

\* Whatever visits, nodes, faults and crashes come together: the latch is the wizards', a
\* second administrator takes two wizards at a time, an administrator gets the permissions or
\* a failure is on record, and the wizard is closed by an administrator or by a user of the
\* configured address who was left behind.
THEOREM WizardHolds == HouseSpec => []WizardIsSound
<1>1. HouseInit => WizardInv
  BY InitWizard DEF HouseInit
<1> QED
  BY <1>1, WizardSteps, WizardImplies, PTL DEF HouseSpec

\* The actions of one actor leave the others where they are.
LEMMA OthersStay ==
  ASSUME WizardInv, NEW x \in Wizard!Actor, Wizard!Create(x) \/ (x \in Visit /\ Wizard!Wizard(x)) \/ (x \in Node /\ Wizard!Run(x) /\ ~Wizard!Crash(x)),
         NEW y \in Wizard!Actor, y # x
  PROVE  task'[y] = task[y]
<1>1. \A t, step : (task' = [task EXCEPT ![x] = t] \/ Wizard!Goes(x, step) \/ Wizard!Leaves(x)) => task'[y] = task[y]
  BY DEF WizardInv, TasksAreSteps, Wizard!Goes, Wizard!Leaves
<1>2. CASE Wizard!Create(x)
  BY <1>1, <1>2 DEF Wizard!Create, Wizard!Fail, Wizard!FindRole, Wizard!RoleFound, Wizard!InsertRole, Wizard!InsertUser,
     Wizard!Collide, Wizard!Assign
<1>3. CASE Wizard!Start(x) \/ Wizard!Bypass(x) \/ Wizard!Heal(x) \/ Wizard!Recheck(x) \/ Wizard!Enter(x) \/ Wizard!FindUser(x) \/ Wizard!Seed(x)
  BY <1>1, <1>3 DEF Wizard!Start, Wizard!Bypass, Wizard!Heal, Wizard!Recheck, Wizard!Enter, Wizard!FindUser, Wizard!Seed
<1>4. CASE Wizard!Probe(x)
  <2>1. CASE task' = [task EXCEPT ![x].tries = @ + 1]
    BY <2>1 DEF WizardInv, TasksAreSteps
  <2> QED
    BY <1>1, <1>4, <2>1 DEF Wizard!Probe
<1>5. ASSUME NEW n \in Node, NEW a \in Address, Wizard!Arrive(x, n, a) PROVE task'[y] = task[y]
  BY <1>1, <1>5 DEF Wizard!Arrive
<1> QED
  BY <1>2, <1>3, <1>4, <1>5 DEF Wizard!Wizard, Wizard!Run

\* A calm request ends before the role is assigned only where the address is taken.
LEMMA CalmSucceeds ==
  ASSUME WizardInv, NEW v \in Visit, v \in calm, Wizard!Wizard(v), task[v].at \in Wizard!Creating, task'[v].at = "idle", v \in calm'
  PROVE  account[task[v].for] # "none"
<1>1. \A step : Wizard!Goes(v, step) => task'[v].at = step
  BY ActorFacts DEF WizardInv, TasksAreSteps, Tasks, Wizard!Goes
<1>2. ~(\E n \in Node, a \in Address : Wizard!Arrive(v, n, a)) /\ ~Wizard!Recheck(v) /\ ~Wizard!Enter(v) /\ ~Wizard!Seed(v)
  BY Steps DEF Wizard!Arrive, Wizard!Recheck, Wizard!Enter, Wizard!Seed, Wizard!At
<1>3. CASE Wizard!FindUser(v)
  BY <1>1, <1>3 DEF Wizard!FindUser
<1>4. CASE Wizard!Fail(v)
  BY <1>4 DEF Wizard!Fail
<1>5. CASE Wizard!FindRole(v)
  BY <1>1, <1>5 DEF Wizard!FindRole, Wizard!RoleFound
<1>6. CASE Wizard!InsertRole(v)
  <2>1. ~role
    BY <1>6 DEF Wizard!InsertRole, Wizard!At, WizardInv, CalmMeansAlone
  <2> QED
    BY <1>1, <1>6, <2>1 DEF Wizard!InsertRole
<1>7. CASE Wizard!InsertUser(v)
  BY <1>1, <1>7 DEF Wizard!InsertUser
<1>8. CASE Wizard!Assign(v)
  BY <1>1, <1>8, ActorFacts DEF Wizard!Assign, Wizard!AfterAssign
<1> QED
  BY <1>2, <1>3, <1>4, <1>5, <1>6, <1>7, <1>8 DEF Wizard!Wizard, Wizard!Create

\* What an attempt has left behind - a role, a user of another address, a latch - stops no
\* later one: a wizard that nothing interferes with makes its administrator.
THEOREM RetriesHold == HouseSpec => RetriesSucceed
<1> DEFINE A == \A v \in calm :
                  task[v].at \in Wizard!Creating /\ task'[v].at = "idle" => v \notin calm' \/ account[task[v].for] # "none"
<1>1. HouseInit => WizardInv
  BY InitWizard DEF HouseInit
<1>2. WizardInv /\ [HouseNext]_<<part, vars, wizard, secrets>> => [A]_(Wizard!vars)
  <2> SUFFICES ASSUME WizardInv, [HouseNext]_<<part, vars, wizard, secrets>>, NEW v \in calm,
                      task[v].at \in Wizard!Creating, task'[v].at = "idle", v \in calm', ~UNCHANGED Wizard!vars
               PROVE  account[task[v].for] # "none"
    OBVIOUS
  <2>1. v \in Visit /\ v \in Wizard!Actor /\ task'[v] # task[v]
    BY ActorFacts, Steps DEF WizardInv, RowShapes
  <2>2. Wizard!Next
    BY DEF HouseNext, wizard, Wizard!vars, Wizard!rowVars, Wizard!past
  <2>3. ASSUME NEW w \in Visit, Wizard!Wizard(w) PROVE account[task[v].for] # "none"
    BY <2>1, <2>3, ActorFacts, OthersStay, CalmSucceeds
  <2>4. ASSUME NEW n \in Node, Wizard!Run(n) PROVE account[task[v].for] # "none"
    <3>1. n # v
      BY <2>1, ActorFacts
    <3>2. CASE ~Wizard!Crash(n)
      BY <2>1, <2>4, <3>1, <3>2, ActorFacts, OthersStay
    <3>3. CASE Wizard!Crash(n)
      BY <2>1, <3>1, <3>3, ActorFacts DEF Wizard!Crash
    <3> QED
      BY <3>2, <3>3
  <2>5. ASSUME NEW a \in Address, Wizard!Complete(a) PROVE FALSE
    BY <2>1, <2>5 DEF Wizard!Complete
  <2> QED
    BY <2>2, <2>3, <2>4, <2>5 DEF Wizard!Next
<1>3. RetriesSucceed <=> [][A]_(Wizard!vars)
  BY DEF RetriesSucceed, Wizard!RetriesSucceed
<1> QED
  BY <1>1, <1>2, <1>3, WizardSteps, PTL DEF HouseSpec
=============================================================================
