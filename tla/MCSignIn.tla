------------------------------ MODULE MCSignIn ------------------------------
(* Small instances of SignIn: one or two ways in at a time, two requests.
   And of OidcProvider, with the requests of SignIn. *)
EXTENDS SignIn, TLC

CONSTANTS Subject, RowId, Limit, Nil, Tasks

VARIABLES
  task, table, serving, registered, hits, reach, passed, waiting, redeemed, rushed, over, late

Provider == INSTANCE OidcProvider WITH Serving <- Proc

provider == <<task, table, serving, registered, hits, reach, passed, waiting, redeemed, rushed,
              over, late>>

Site(methods, policies) ==
  [methods |-> methods, typos |-> "typos" \in policies,
   enforce |-> "enforce" \in policies, verified |-> "verified" \in policies,
   captcha |-> "captcha" \in policies, getdel |-> "legacy" \notin policies,
   outages |-> "outages" \in policies]

SmallSites ==
  { Site({"password"}, {"typos"}),
    Site({"password", "admin"}, {"enforce"}),
    Site({"password", "mfa"}, {"verified"}),
    Site({"password", "forgot", "admin"}, {"captcha"}),
    Site({"register", "admin"}, {"verified", "captcha"}),
    Site({"magic", "admin"}, {"verified", "captcha", "outages"}),
    Site({"sms", "admin"}, {}),
    Site({"sms"}, {"legacy", "outages"}),
    Site({"password", "forgot"}, {"legacy"}),
    Site({"ldap", "mfa"}, {"verified"}),
    Site({"passkey", "admin"}, {"enforce"}) }

Task(does, rows) == [does |-> does, rows |-> rows]

NoTask == Task({}, 0)

SmallTasks ==
  { NoTask, Task({"decide"}, 3), Task({"decide", "expiry"}, 2), Task({"redeem"}, 4),
    Task({"redeem", "expiry"}, 3), Task({"guard"}, 0) }

Symmetry == Permutations(Proc) \cup Permutations(Token) \cup Permutations(Subject)

\* Rows are numbered from one, and no address is allowed no request at all.
ASSUME ProviderAssumption ==
  /\ IsFiniteSet(Proc) /\ 0 \notin Proc /\ Limit \in Nat \ {0}
  /\ IsFiniteSet(RowId) /\ RowId = 1..Cardinality(RowId)
  /\ Nil \notin Subject \cup {"login", "consent", "deny"}
  /\ \A t \in Tasks : t.rows \in Nat

-----------------------------------------------------------------------------
\* NoTask: this is an instance of SignIn.  Otherwise the site does not matter.
HouseInit ==
  /\ Init /\ Provider!Init
  /\ task # NoTask => site = (CHOOSE s \in Sites : TRUE) /\ row.status = "absent"

\* The provider stops when it has used all the rows it may.
HouseNext ==
  \/ task = NoTask /\ Next /\ UNCHANGED provider
  \/ task # NoTask /\ (Provider!Next \/ UNCHANGED provider) /\ UNCHANGED vars

HouseSpec == HouseInit /\ [][HouseNext]_<<vars, provider>>

\* Stated in OidcProvider.
ProviderIsSound == Provider!ProviderIsSound
=============================================================================
