---------------------------- MODULE MCLastAdmin ----------------------------
(* Small instances of LastAdmin: users, groups and requests are each
   interchangeable.  And, in behaviours of their own, of Setup and SecretStore;
   the model values are shared among the parts. *)
EXTENDS LastAdmin, FiniteSets, Sequences, TLC

CONSTANTS
  Node, Visit, Boss, Address, Probes, NoNode, Launches,
  Request, Cell, Columns, MaxKey, MaxSecret, None

VARIABLES
  part,
  launch, account, first, role, bound, latch, task, sessions, halved, crossed, faulty, calm, byWizard,
  stock, told, config, env, request, pass, proved, overwritten

wizard == <<launch, account, first, role, bound, latch, task, sessions, halved, crossed, faulty,
            calm, byWizard>>
secrets == <<stock, told, config, env, request, pass, proved, overwritten>>

Launch(nodes, bypass, faults, crashes) ==
  [nodes |-> nodes, bypass |-> bypass, faults |-> faults, crashes |-> crashes]

SmallLaunches ==
  {Launch(2, FALSE, FALSE, TRUE), Launch(1, FALSE, TRUE, FALSE), Launch(1, TRUE, TRUE, FALSE)}

Wizard == INSTANCE Setup
Secrets == INSTANCE SecretStore

SmallColumns == <<{CHOOSE c \in Cell : TRUE}, Cell \ {CHOOSE c \in Cell : TRUE}>>

Symmetry == Permutations(User) \cup Permutations(Group) \cup Permutations(Proc)

\* A deployment of some nodes; requests are not nodes, and a node is tried to be healed
\* at least once.
ASSUME WizardAssumption ==
  /\ IsFiniteSet(Node) /\ Node \cap Visit = {} /\ Boss \in Address /\ Probes \in Nat \ {0}
  /\ Launches \subseteq [nodes : Nat, bypass : BOOLEAN, faults : BOOLEAN, crashes : BOOLEAN]

\* The columns the script knows have all the cells.
ASSUME SecretsAssumption ==
  /\ MaxKey \in Nat /\ MaxSecret \in Nat \ {0} /\ None \notin Nat
  /\ Columns \in Seq(SUBSET Cell) /\ Cell = UNION {Columns[i] : i \in 1..Len(Columns)}

-----------------------------------------------------------------------------
\* The parts that a behaviour is not about stay in one initial state.
HouseInit ==
  /\ Init /\ Wizard!Init /\ Secrets!Init
  /\ part \in {"guard", "setup", "secrets"}
  /\ part # "guard" => db.status = [u \in User |-> "active"]
  /\ part # "setup" => launch = Launch(2, FALSE, FALSE, TRUE)
  /\ part # "secrets" => \A c \in Cell : told[c] = 0

\* The script and the operator stop when the bounds are reached.
HouseNext ==
  /\ UNCHANGED part
  /\ \/ part = "guard"   /\ Next /\ UNCHANGED <<wizard, secrets>>
     \/ part = "setup"   /\ Wizard!Next /\ UNCHANGED <<vars, secrets>>
     \/ part = "secrets" /\ Secrets!Next /\ UNCHANGED <<vars, wizard>>
     \/ part = "secrets" /\ UNCHANGED <<vars, wizard, secrets>>

HouseSpec == HouseInit /\ [][HouseNext]_<<part, vars, wizard, secrets>>

\* Stated in Setup.
WizardIsSound == Wizard!WizardIsSound
RetriesSucceed == Wizard!RetriesSucceed

\* Stated in SecretStore.
NoSecretIsLost == Secrets!NoSecretIsLost
RetiredKeyIsNotNeeded == Secrets!RetiredKeyIsNotNeeded
=============================================================================
