---------------------------- MODULE MCAuthState ----------------------------
(* Small instances of AuthState: requests and writers are interchangeable.
   And, in behaviours of their own, of FederatedLogin: an account or two at
   providers, two requests. *)
EXTENDS AuthState, FiniteSets, TLC

CONSTANTS
  Person, Mail, Account, Kind, Asserts, NameId, Logout, About, Session, MaxBumps, Code, Proc, NoMail,
  Nobody, Works

VARIABLES
  part,
  work, person, link, hints, logins, code, answers, asked, claimed, job, quiet, moved,
  promised, voided, honoured

Federation == INSTANCE FederatedLogin

federation == <<work, person, link, hints, logins, code, answers, asked, claimed, job, quiet,
                moved, promised, voided, honoured>>

CONSTANTS hub, own, roam, mute, corp, alias, m1, m2, l1, l2, l3

SmallKind == hub :> "builtin" @@ mute :> "builtin" @@ own :> "generic" @@ roam :> "generic" @@ corp :> "saml" @@
             alias :> "saml"

SmallAsserts == hub :> {m1} @@ mute :> {NoMail} @@ own :> {m1} @@ roam :> {m1, m2} @@ corp :> {m1} @@
                alias :> {m2}

\* corp asserts its nameID, alias another address.
SmallNameId == corp :> m1 @@ alias :> m1 @@ [a \in Account |-> NoMail]

SmallAbout == l1 :> own @@ l2 :> corp @@ l3 :> alias

Work(accounts, extras) == [accounts |-> accounts, extras |-> extras]

NoWork == Work({}, {})

SmallWorks ==
  { NoWork,
    Work({hub}, {"unlink", "delete"}), Work({hub, own}, {}), Work({own, corp}, {}),
    Work({roam}, {"known"}), Work({own}, {"delete"}), Work({mute}, {"unlink", "failures"}),
    Work({hub}, {"enforce", "mfa"}),
    Work({own}, {"slo", "login"}), Work({own}, {"slo", "suspend"}), Work({corp}, {"login"}),
    Work({corp}, {"slo", "outage"}), Work({corp}, {"slo", "suspend", "failures"}),
    Work({alias}, {"slo", "known"}) }

Symmetry == Permutations(Req) \cup Permutations(Writer) \cup Permutations(Proc)

\* Finitely many requests.  Nobody is no user, and no address is none of the addresses; an
\* account has one provider.  A SAML provider always asserts an address, the nameID if no other.
ASSUME FederationAssumption ==
  /\ IsFiniteSet(Proc) /\ Nobody \notin Person /\ NoMail \notin Mail \cup Account
  /\ MaxBumps \in Nat /\ "none" \notin Account
  /\ Kind \in [Account -> {"builtin", "generic", "saml"}]
  /\ Asserts \in [Account -> SUBSET (Mail \cup {NoMail})]
  /\ NameId \in [Account -> Mail \cup {NoMail}]
  /\ \A a \in Account : Kind[a] = "saml" => Asserts[a] \subseteq Mail
  /\ About \in [Logout -> Account]

-----------------------------------------------------------------------------
HouseInit ==
  /\ part \in {"bearer", "federation"}
  /\ Init /\ Federation!Init
  /\ part = "federation" <=> work # NoWork

HouseNext ==
  /\ UNCHANGED part
  /\ \/ part = "bearer"     /\ Next /\ UNCHANGED federation
     \/ part = "federation" /\ Federation!Next /\ UNCHANGED vars

HouseSpec == HouseInit /\ [][HouseNext]_<<part, vars, federation>>

\* Stated in FederatedLogin.
LoginsAreSound == Federation!LoginsAreSound
LogoutsHold == Federation!LogoutsHold
RefusalsAreExplained == [][Federation!RefusalsHaveAReason]_<<vars, federation>>
=============================================================================
