------------------------------- MODULE Setup -------------------------------
(***************************************************************************)
(* The first administrator.  The wizard of any node, or a node that starts *)
(* with ADMIN_EMAIL and ADMIN_PASSWORD, creates the role, the user and the *)
(* assignment in statements of their own; the permissions of the role are  *)
(* seeded last by the wizard, or by a node after its start.  Whether there *)
(* is an administrator is read from the database each time; the latch that *)
(* keeps wizards apart is a variable of one process.                       *)
(*                                                                         *)
(* The default tenant row is inserted first by each of them and never      *)
(* missed; the role is created as built-in, so the stamp changes nothing.  *)
(***************************************************************************)
EXTENDS Integers, FiniteSets

CONSTANTS
  Node, Visit,   \* server processes; requests to the wizard
  Boss, Address, \* ADMIN_EMAIL or its default; addresses in use, Boss among them
  Probes,        \* attempts of the self-heal (6)
  NoNode,
  Launches       \* deployments: the number of nodes, is the environment bypass on, do
                 \* statements fail, may nodes crash?

Actor == Visit \cup Node

VARIABLES
  launch,
  account,   \* "none", "user", or "admin" once the role is assigned
  first,     \* the addresses in order of creation: the first one, as a set
  role,      \* is there an admin role?
  bound,     \* does it hold the built-in permissions?
  latch,     \* setupInProgress of each node
  task,      \* what a request or a starting node is about to do
  sessions,  \* addresses that /complete issued tokens for
  halved,    \* history: users left without the role
  crossed,   \* history: a wizard entered while another one, or an administrator, was there
  faulty,    \* history: a seed failed, or a node gave up seeding
  calm,      \* history: wizards that nothing has interfered with
  byWizard   \* history: administrators made by the wizard

rowVars == <<account, first, role, bound>>
past == <<halved, crossed, faulty, calm, byWizard>>
vars == <<launch, rowVars, latch, task, sessions, past>>

Idle == [at |-> "idle", on |-> NoNode, for |-> Boss, tries |-> 0]
Down == [Idle EXCEPT !.at = "down"]
Creating == {"find", "role", "insert", "user", "assign"}

Init ==
  /\ launch \in Launches
  /\ account = [a \in Address |-> "none"] /\ first = {} /\ role = FALSE /\ bound = FALSE
  /\ latch = [n \in Node |-> FALSE]
  /\ task = [x \in Actor |-> IF x \in Node THEN Down ELSE Idle]
  /\ sessions = {} /\ halved = {} /\ crossed = FALSE /\ faulty = FALSE /\ calm = {} /\ byWizard = {}

Administered == \E a \in Address : account[a] = "admin"

\* Faulty variant: any user is taken for the administrator.
InitializedByAnyone == \E a \in Address : account[a] # "none"

\* queryAdminExists: the configured address is taken to be the administrator.
Initialized == account[Boss] # "none" \/ Administered

Running(n) == task[n].at # "down"
At(x, step) == task[x].at = step
Goes(x, step) == task' = [task EXCEPT ![x].at = step]

-----------------------------------------------------------------------------
(* Ending *)

\* The finally clause of the wizard, or the end of initializeAdmin, which leads
\* on to the self-heal.
Leaves(x) ==
  IF x \in Node THEN Goes(x, "heal") /\ UNCHANGED latch
                ELSE task' = [task EXCEPT ![x] = Idle] /\ latch' = [latch EXCEPT ![task[x].on] = FALSE]

HalfMade(X) == {task[x].for : x \in {y \in X : At(y, "assign")}}

\* A statement fails: the error is swallowed, what was committed stays.
Fail(x) ==
  /\ launch.faults /\ task[x].at \in Creating /\ Leaves(x)
  /\ halved' = halved \cup HalfMade({x}) /\ calm' = calm \ {x}
  /\ UNCHANGED <<launch, rowVars, sessions, crossed, faulty, byWizard>>

\* A statement meets what somebody else inserted since it was looked for.
Collide(x) == Leaves(x) /\ UNCHANGED <<launch, rowVars, sessions, past>>

\* A write of one actor disturbs the others.
Disturbs(x) == calm' = calm \cap {x}

Crash(n) ==
  LET lost == {n} \cup {v \in Visit : task[v].on = n}
  IN /\ launch.crashes /\ Running(n)
     /\ task' = [x \in Actor |-> IF x = n THEN Down ELSE IF x \in lost THEN Idle ELSE task[x]]
     /\ latch' = [latch EXCEPT ![n] = FALSE]
     /\ halved' = halved \cup HalfMade(lost) /\ calm' = calm \ lost
     /\ UNCHANGED <<launch, rowVars, sessions, crossed, faulty, byWizard>>

-----------------------------------------------------------------------------
(* The wizard *)

\* setupGuard.
Arrive(v, n, a) ==
  /\ At(v, "idle") /\ Running(n) /\ ~Initialized
  /\ task' = [task EXCEPT ![v] = [at |-> "guarded", on |-> n, for |-> a, tries |-> 0]]
  /\ UNCHANGED <<launch, rowVars, latch, sessions, past>>

\* The handler reads again.
Recheck(v) ==
  /\ At(v, "guarded")
  /\ IF Initialized THEN task' = [task EXCEPT ![v] = Idle] ELSE Goes(v, "checked")
  /\ UNCHANGED <<launch, rowVars, latch, sessions, past>>

\* Faulty variant: nobody looks at the latch.
LatchedNever(n) == FALSE

Latched(n) == latch[n]

Others(v) == {x \in Actor \ {v} : task[x].at \in Creating}

\* The latch is looked at after the answer of the database has arrived.
Enter(v) ==
  /\ At(v, "checked")
  /\ IF Latched(task[v].on)
     THEN task' = [task EXCEPT ![v] = Idle] /\ UNCHANGED <<latch, crossed, calm>>
     ELSE /\ Goes(v, "find") /\ latch' = [latch EXCEPT ![task[v].on] = TRUE]
          /\ crossed' = (crossed \/ Administered \/ \E n \in Node \ {task[v].on} : latch[n])
          /\ calm' = IF Others(v) = {} THEN calm \cup {v} ELSE calm
  /\ UNCHANGED <<launch, rowVars, sessions, halved, faulty, byWizard>>

\* findByEmail.
FindUser(v) ==
  /\ At(v, "find")
  /\ IF account[task[v].for] # "none" THEN Leaves(v) ELSE Goes(v, "role") /\ UNCHANGED latch
  /\ UNCHANGED <<launch, rowVars, sessions, past>>

-----------------------------------------------------------------------------
(* Role, user, assignment: the wizard and a starting node *)

\* Faulty variant: an existing role is an error, and it is not the one with the fixed id.
RoleFoundFails(x) == Leaves(x)

\* RoleManager.create returns the role that is there.
RoleFound(x) == Goes(x, "user") /\ UNCHANGED latch

FindRole(x) ==
  /\ At(x, "role")
  /\ IF role THEN RoleFound(x) ELSE Goes(x, "insert") /\ UNCHANGED latch
  /\ UNCHANGED <<launch, rowVars, sessions, past>>

InsertRole(x) ==
  /\ At(x, "insert")
  /\ IF role THEN Collide(x)
     ELSE /\ role' = TRUE /\ Goes(x, "user") /\ Disturbs(x)
          /\ UNCHANGED <<launch, account, first, bound, latch, sessions, halved, crossed, faulty, byWizard>>

InsertUser(x) ==
  /\ At(x, "user")
  /\ IF account[task[x].for] # "none" THEN Collide(x)
     ELSE /\ account' = [account EXCEPT ![task[x].for] = "user"]
          /\ first' = IF first = {} THEN {task[x].for} ELSE first
          /\ Goes(x, "assign") /\ Disturbs(x)
          /\ UNCHANGED <<launch, role, bound, latch, sessions, halved, crossed, faulty, byWizard>>

\* Faulty variant: a node with an administrator of its own does not heal.
AfterAssignUp(x) == IF x \in Node THEN "up" ELSE "seed"

AfterAssign(x) == IF x \in Node THEN "heal" ELSE "seed"

Assign(x) ==
  /\ At(x, "assign")
  /\ account' = [account EXCEPT ![task[x].for] = "admin"]
  /\ byWizard' = IF x \in Visit THEN byWizard \cup {task[x].for} ELSE byWizard
  /\ Goes(x, AfterAssign(x)) /\ Disturbs(x)
  /\ UNCHANGED <<launch, first, role, bound, latch, sessions, halved, crossed, faulty>>

\* seedBuiltinPermissions, which never throws.
Seed(v) ==
  /\ At(v, "seed") /\ Leaves(v)
  /\ \/ bound' = TRUE /\ UNCHANGED faulty
     \/ launch.faults /\ faulty' = TRUE /\ UNCHANGED bound
  /\ UNCHANGED <<launch, account, first, role, sessions, halved, crossed, calm, byWizard>>

-----------------------------------------------------------------------------
(* A node starts *)

Start(n) ==
  /\ At(n, "down") /\ Cardinality({m \in Node : Running(m)}) < launch.nodes
  /\ Goes(n, "start")
  /\ UNCHANGED <<launch, rowVars, latch, sessions, past>>

\* initializeAdmin, up to its first write.
Bypass(n) ==
  /\ At(n, "start")
  /\ Goes(n, IF account[Boss] = "none" /\ launch.bypass THEN "role" ELSE "heal")
  /\ UNCHANGED <<launch, rowVars, latch, sessions, past>>

\* The probe is retried, a fixed number of times.
Probe(n) ==
  /\ At(n, "heal")
  /\ \/ Goes(n, "look") /\ UNCHANGED faulty
     \/ /\ launch.faults
        /\ IF task[n].tries + 1 < Probes
           THEN task' = [task EXCEPT ![n].tries = @ + 1] /\ UNCHANGED faulty
           ELSE Goes(n, "up") /\ faulty' = TRUE
  /\ UNCHANGED <<launch, rowVars, latch, sessions, halved, crossed, calm, byWizard>>

\* A failure behind the probe is swallowed, and not retried.
Heal(n) ==
  /\ At(n, "look") /\ Goes(n, "up")
  /\ \/ bound' = (bound \/ role) /\ UNCHANGED faulty
     \/ launch.faults /\ faulty' = TRUE /\ UNCHANGED bound
  /\ UNCHANGED <<launch, account, first, role, latch, sessions, halved, crossed, calm, byWizard>>

-----------------------------------------------------------------------------
(* POST /complete: tokens for the first user of the tenant *)

\* Faulty variant: whether there is an administrator is not asked.
CompleteAny(a) == a \in first

Completes(a) == Initialized /\ a \in first

Complete(a) ==
  /\ Completes(a) /\ sessions' = sessions \cup {a}
  /\ UNCHANGED <<launch, rowVars, latch, task, past>>

Create(x) == Fail(x) \/ FindRole(x) \/ InsertRole(x) \/ InsertUser(x) \/ Assign(x)

Wizard(v) ==
  \/ \E n \in Node, a \in Address : Arrive(v, n, a)
  \/ Recheck(v) \/ Enter(v) \/ FindUser(v) \/ Create(v) \/ Seed(v)

Run(n) == Start(n) \/ Bypass(n) \/ Create(n) \/ Probe(n) \/ Heal(n) \/ Crash(n)

Next ==
  \/ \E v \in Visit : Wizard(v)
  \/ \E n \in Node : Run(n)
  \/ \E a \in Address : Complete(a)

Spec == Init /\ [][Next]_vars
-----------------------------------------------------------------------------
(* Properties *)

\* Shapes; a node whose wizard is creating has its latch set, and no other
\* node; an assignment is of a user that exists.
TypeOK ==
  /\ launch \in Launches /\ account \in [Address -> {"none", "user", "admin"}]
  /\ first \subseteq Address /\ Cardinality(first) <= 1
  /\ role \in BOOLEAN /\ bound \in BOOLEAN /\ crossed \in BOOLEAN /\ faulty \in BOOLEAN
  /\ latch \in [Node -> BOOLEAN]
  /\ sessions \subseteq Address /\ halved \subseteq Address /\ calm \subseteq Visit /\ byWizard \subseteq Address
  /\ \A x \in Actor :
       /\ task[x].at \in Creating \cup {"idle", "guarded", "checked", "seed", "down", "start", "heal", "look", "up"}
       /\ task[x].tries \in 0..Probes - 1
       /\ At(x, "assign") => account[task[x].for] # "none" /\ role
  /\ \A n \in Node :
       latch[n] <=> \E v \in Visit : task[v].on = n /\ task[v].at \in Creating \cup {"seed"}

\* The wizard makes one administrator, unless a request entered it while it was
\* busy on another node, or on an answer older than the administrator.
OneWizardAdministrator == Cardinality(byWizard) > 1 => crossed

\* What an earlier attempt has left behind stops no later one: a wizard that
\* nothing interferes with makes an administrator, unless it was asked for an
\* address that is taken.
RetriesSucceed ==
  [][\A v \in calm :
       task[v].at \in Creating /\ task'[v].at = "idle" =>
         v \notin calm' \/ account[task[v].for] # "none"]_vars

\* When nodes have started and no wizard is at work, the role of an administrator
\* has its permissions, unless seeding them has failed.
AdministratorsCanAct ==
  /\ Administered /\ ~faulty
  /\ Cardinality({n \in Node : At(n, "up")}) = launch.nodes
  /\ \A v \in Visit : ~At(v, "seed")
  => bound

\* The tokens that end the wizard are an administrator's, unless an earlier
\* attempt left a user behind, two ran at the same time, or the configured
\* address has a user, whom nobody asks for the role.
CompletionIsTheAdministrators ==
  \A a \in sessions : account[a] = "admin" \/ account[Boss] # "none" \/ halved # {} \/ crossed

\* When nothing is under way, the wizard is closed only if there is an
\* administrator; or if the user of the configured address was left without the
\* role, which closes it for good.
WizardTakesOver ==
  Initialized /\ (\A x \in Actor : task[x].at \in {"idle", "up", "down"}) => Administered \/ Boss \in halved

\* Whatever visits, starts, faults and crashes come together, the first start ends with one
\* administrator of the wizard who can work, or with the wizard.
WizardIsSound ==
  TypeOK /\ OneWizardAdministrator /\ AdministratorsCanAct /\ CompletionIsTheAdministrators
  /\ WizardTakesOver
=============================================================================
