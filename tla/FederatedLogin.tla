--------------------------- MODULE FederatedLogin ---------------------------
(***************************************************************************)
(* Signing in with an account at an identity provider (OAuth, OIDC, SAML), *)
(* and being signed out by that provider: the callbacks that find, link or *)
(* make the local user, the one-time codes that hand a token pair to the   *)
(* browser, SAML single logout and OIDC back-channel logout.               *)
(*                                                                         *)
(* A request (Proc) runs in a server process of its own.  A deleted user   *)
(* does not come back, and links do not know: oauth_accounts has no        *)
(* foreign key.                                                            *)
(***************************************************************************)
EXTENDS Integers, FiniteSets

CONSTANTS
  Person,    \* users
  Mail,      \* addresses people have
  Account,   \* accounts at providers
  Kind,      \* the provider of an account: built in, configured (generic), or SAML
  Asserts,   \* the addresses a provider may assert over time, NoMail for none
  NameId,    \* the nameID of a SAML account as an address, NoMail if it is not one
  Logout,    \* logout messages: a LogoutRequest or a logout token
  About,     \* the account a logout message is about
  Session,   \* bound: sessions
  MaxBumps,  \* bound: the versions of a user's bearer tokens
  Code,      \* bound: exchange codes
  Proc,      \* requests being served
  NoMail, Nobody,
  Works      \* workloads: the accounts used and what else happens

Mails == Mail \cup {NoMail}

VARIABLES
  work,      \* the workload
  person,    \* rows of users
  link,      \* oauth_accounts: the user an account is linked to
  hints,     \* links that hold an id_token
  logins,    \* refresh sessions, each with the bearer token issued with it
  code,      \* exchange codes
  answers,   \* does Redis answer?
  asked,     \* what a browser is waiting for: an OAuth callback, a SAML response
  claimed,   \* where a logout message has been claimed
  job,       \* the requests
  quiet,     \* history: requests during which nobody else did anything
  moved,     \* history: accounts whose link has left a user for another, or for none
  promised,  \* history: sessions a provider was told are over
  voided,     \* history: those whose bearer tokens are, too
  honoured   \* history: how often a logout message was acted upon

rows == <<person, link, hints, logins>>
logouts == <<claimed, promised, voided, honoured>>
federation == <<work, rows, code, answers, asked, job, quiet, moved, logouts>>

Redis == "redis"
Row == [status: {"absent", "active", "suspended", "deleted"}, totp: BOOLEAN, version: 0..MaxBumps]
NoRow == [status |-> "absent", totp |-> FALSE, version |-> 0]
Stranger == [row |-> NoRow, mail |-> NoMail]

\* claim is the version in the bearer token, or -1: OAuth logins do not select it.
NoSession == [user |-> Nobody, live |-> FALSE, via |-> "none", claim |-> -1, row |-> NoRow]
Idle == [at |-> "idle", acct |-> "none", mail |-> NoMail, user |-> Nobody, row |-> NoRow, msg |-> "none", due |-> {}]
FreshCode == [for |-> "fresh", of |-> Nobody]

\* One element of S, if it has any: which one of the unused ones is used does not matter.
AnyOf(S) == IF S = {} THEN {} ELSE {CHOOSE x \in S : TRUE}

\* In some workloads there is a user already.
Init ==
  /\ work \in Works
  /\ IF "known" \in work.extras
     THEN \E u \in AnyOf(Person), m \in Mail :
            person = [v \in Person |-> IF v = u THEN [row |-> [NoRow EXCEPT !.status = "active"], mail |-> m]
                                                ELSE Stranger]
     ELSE person = [v \in Person |-> Stranger]
  /\ link = [a \in Account |-> Nobody] /\ hints = {}
  /\ logins = [s \in Session |-> NoSession] /\ code = [c \in Code |-> FreshCode]
  /\ answers = TRUE /\ asked = {}
  /\ claimed = [l \in Logout |-> {}] /\ job = [p \in Proc |-> Idle]
  /\ quiet = [p \in Proc |-> FALSE] /\ moved = {}
  /\ promised = {} /\ voided = {} /\ honoured = [l \in Logout |-> 0]

At(p, where) == job[p].at = where
Goto(p, where) == job' = [job EXCEPT ![p].at = where]
Reply(p) == job' = [job EXCEPT ![p] = Idle]
Exists(u) == u \in Person /\ person[u].row.status \in {"active", "suspended"}
WithMail(m) == {u \in Person : Exists(u) /\ person[u].mail = m}
SessionsOf(u) == {s \in Session : logins[s].live /\ logins[s].user = u}
End(S) == logins' = [s \in Session |-> [logins[s] EXCEPT !.live = @ /\ s \notin S]]
Saml(p) == Kind[job[p].acct] = "saml"
Knows(p, u, where) == job' = [job EXCEPT ![p] = [@ EXCEPT !.at = where, !.user = u, !.row = person[u].row]]

-----------------------------------------------------------------------------
(* Signing in *)

\* The state cookie; or the id of the AuthnRequest, which only Redis keeps until the answer.
Authorize(a) ==
  /\ a \in work.accounts /\ (Kind[a] # "saml" \/ answers)
  /\ asked' = asked \cup {IF Kind[a] = "saml" THEN "saml" ELSE "oauth"}
  /\ UNCHANGED <<work, rows, code, answers, job, moved, logouts>>

\* The provider says no, the state does not match, the code or the response is not valid.
TurnedBack(w) ==
  /\ w \in asked /\ asked' = asked \ {w}
  /\ UNCHANGED <<work, rows, code, answers, job, moved, logouts>>

Begin(p, a, where) ==
  /\ a \in work.accounts /\ At(p, "idle")
  /\ \E m \in Asserts[a] : job' = [job EXCEPT ![p] = [Idle EXCEPT !.at = where, !.acct = a, !.mail = m]]
  /\ UNCHANGED <<work, rows, code, answers, moved, logouts>>

Callback(p, a) ==
  /\ Kind[a] # "saml" /\ "oauth" \in asked /\ asked' = asked \ {"oauth"}
  /\ Begin(p, a, "find")

Acs(p, a) ==
  /\ Kind[a] = "saml" /\ answers /\ "saml" \in asked /\ asked' = asked \ {"saml"}
  /\ Begin(p, a, "mail")

\* A link to a deleted user counts as none.  Configured providers refresh the link.
FindLink(p) ==
  LET a == job[p].acct IN
  /\ At(p, "find")
  /\ IF Exists(link[a]) THEN Knows(p, link[a], IF Kind[a] = "generic" THEN "link" ELSE "gates")
                        ELSE Goto(p, "mail")
  /\ UNCHANGED <<work, rows, code, answers, asked, moved, logouts>>

\* The user by the asserted address; SAML looks at the status before it links.
MatchMail(p) ==
  LET found == WithMail(job[p].mail) IN
  /\ At(p, "mail")
  /\ IF found = {} THEN Goto(p, "create")
     ELSE \E u \in found : IF Saml(p) /\ person[u].row.status # "active" THEN Reply(p)
                                                                        ELSE Knows(p, u, "link")
  /\ UNCHANGED <<work, rows, code, answers, asked, moved, logouts>>

\* Without an asserted address the user gets one made of the account's id.
NewMail(j) == IF j.mail = NoMail THEN j.acct ELSE j.mail

\* Faulty variant: the address is not unique.
FreeAlways(m) == TRUE

Free(m) == WithMail(m) = {}

\* Addresses are unique: whoever comes second is refused.  The row is committed by itself.
Create(p) ==
  LET m == NewMail(job[p])
      born == [NoRow EXCEPT !.status = "active"]
  IN /\ At(p, "create")
     /\ IF ~Free(m) THEN Reply(p) /\ UNCHANGED person
        ELSE \E u \in AnyOf({u \in Person : person[u].row.status = "absent"}) :
               /\ person' = [person EXCEPT ![u] = [row |-> born, mail |-> m]]
               /\ job' = [job EXCEPT ![p] = [@ EXCEPT !.at = "link", !.user = u, !.row = born]]
     /\ UNCHANGED <<work, link, hints, logins, code, answers, asked, moved, logouts>>

\* Faulty variant: a plain INSERT for every OAuth provider.
LinkablePlain(a) == Kind[a] = "saml" \/ link[a] = Nobody

\* Only the providers that are built in use a plain INSERT.
Linkable(a) == Kind[a] # "builtin" \/ link[a] = Nobody

\* SAML logins go on without a link when it cannot be written (too long, database error).
Link(p) ==
  LET a == job[p].acct
      u == job[p].user
  IN /\ At(p, "link")
     /\ \/ /\ ~Linkable(a) /\ Reply(p)
           /\ UNCHANGED <<link, hints, moved>>
        \/ /\ Linkable(a) /\ link' = [link EXCEPT ![a] = u] /\ Goto(p, "gates")
           /\ hints' = IF Kind[a] = "generic" THEN hints \cup {a} ELSE hints
           /\ moved' = IF Exists(link[a]) /\ link[a] # u THEN moved \cup {a} ELSE moved
        \/ Saml(p) /\ Goto(p, "gates") /\ UNCHANGED <<link, hints, moved>>
     /\ UNCHANGED <<work, person, logins, code, answers, asked, logouts>>

EnrollHit(r) == "enforce" \in work.extras /\ ~r.totp

\* Faulty variant: the enforcement is looked at, the user's own factor is not.
PendingEnforced(r) == IF EnrollHit(r) THEN "enroll" ELSE "nothing"

Pending(r) == IF EnrollHit(r) THEN "enroll" ELSE IF r.totp THEN "verify" ELSE "nothing"

NewCode(f, of) ==
  \E c \in AnyOf({c \in Code : code[c] = FreshCode}) : code' = [code EXCEPT ![c] = [for |-> f, of |-> of]]

\* The gates look at the row the user was found with.
Gates(p) ==
  LET r == job[p].row IN
  /\ At(p, "gates")
  /\ \/ r.status # "active" /\ Reply(p) /\ UNCHANGED code
     \/ r.status = "active" /\ Pending(r) = "nothing" /\ Goto(p, "issue") /\ UNCHANGED code
     \/ r.status = "active" /\ Pending(r) # "nothing" /\ NewCode(Pending(r), job[p].user) /\ Reply(p)
  /\ UNCHANGED <<work, rows, answers, asked, moved, logouts>>

Unused == AnyOf({s \in Session : logins[s] = NoSession})

\* The INSERT fails when the user is gone.  The pair waits in the code, not in the redirect.
Issue(p) ==
  LET j == job[p] IN
  /\ At(p, "issue")
  /\ IF ~Exists(j.user) THEN UNCHANGED <<logins, code>>
     ELSE \E s \in Unused :
            /\ NewCode("pair", s)
            /\ logins' = [logins EXCEPT ![s] =
                 [user |-> j.user, live |-> TRUE, via |-> j.acct, row |-> j.row,
                  claim |-> IF Saml(p) THEN j.row.version ELSE -1]]
  /\ Reply(p)
  /\ UNCHANGED <<work, person, link, hints, answers, asked, moved, logouts>>

\* The tenant is suspended.
TenantShut(p) ==
  /\ At(p, "issue") /\ Reply(p)
  /\ UNCHANGED <<work, rows, code, answers, asked, moved, logouts>>

\* POST .../exchange: once; a pending code becomes a flow token of SignIn.
Exchange(c) ==
  /\ code[c].for \notin {"fresh", "used"}
  /\ code' = [code EXCEPT ![c].for = "used"]
  /\ UNCHANGED <<work, rows, answers, asked, job, moved, logouts>>

-----------------------------------------------------------------------------
(* Signing out *)

Via(a) == {s \in Session : logins[s].live /\ logins[s].via = a /\ a \notin moved}

\* A SAML login goes by the asserted address, a SAML logout by the nameID: an account whose
\* addresses are not its nameID is out of the reach of its logouts.
InReach(a) == Kind[a] = "saml" => Asserts[a] = {NameId[a]}

\* What a provider that ends this account's session can expect: nobody stays signed in with it.
Expected(a) == IF InReach(a) THEN Via(a) ELSE {}

Told(p) == Reply(p) /\ promised' = promised \cup job[p].due

\* Where a claim is made: in Redis, or in the memory of the process while Redis is down.
Home(p) == IF answers THEN Redis ELSE p

EndSessions(p, l, us) ==
  LET a == About[l] IN
  job' = [job EXCEPT ![p] =
    [Idle EXCEPT !.at = "revoke", !.acct = a, !.msg = l,
                 !.user = IF us = {} THEN Nobody ELSE CHOOSE u \in us : TRUE,
                 !.due = Expected(a) \cup UNION {SessionsOf(u) : u \in us}]]

\* A LogoutRequest is claimed, whatever becomes of it then; one claimed already is refused.
\* Nobody with that nameID for an address: that is answered like a success.
\* Faulty variant: the claim is written, and not looked at.
ClaimedUnread(l, home) == FALSE

Claimed(l, home) == home \in claimed[l]

Slo(p, l) ==
  /\ About[l] \in work.accounts /\ Kind[About[l]] = "saml" /\ "slo" \in work.extras
  /\ At(p, "idle")
  /\ IF Claimed(l, Home(p)) THEN UNCHANGED <<job, claimed, honoured>>
     ELSE /\ claimed' = [claimed EXCEPT ![l] = @ \cup {Home(p)}]
          /\ honoured' = [honoured EXCEPT ![l] = @ + 1]
          /\ EndSessions(p, l, WithMail(NameId[About[l]]))
  /\ UNCHANGED <<work, rows, code, answers, asked, moved, promised, voided>>

\* Faulty variant: a logout token that has been claimed is not processed again.
UnlinkedOrClaimed(l) == link[About[l]] = Nobody \/ claimed[l] # {}

\* Nobody has signed in with this account: that is answered like a success.
Unlinked(l) == link[About[l]] = Nobody

Bclo(p, l) ==
  LET a == About[l] IN
  /\ a \in work.accounts /\ Kind[a] = "generic" /\ "slo" \in work.extras
  /\ At(p, "idle")
  /\ IF Unlinked(l) THEN promised' = promised \cup Via(a) /\ UNCHANGED job
                    ELSE EndSessions(p, l, {link[a]}) /\ UNCHANGED promised
  /\ UNCHANGED <<work, rows, code, answers, asked, moved, claimed, voided, honoured>>

\* The sessions are revoked from a pool of their own, outside the transaction of Bump.
Revoke(p) ==
  /\ At(p, "revoke") /\ End(SessionsOf(job[p].user))
  /\ IF Saml(p) THEN Told(p) ELSE Goto(p, "bump") /\ UNCHANGED promised
  /\ UNCHANGED <<work, person, link, hints, code, answers, asked, moved, claimed, voided, honoured>>

\* The version, the ID tokens of the link, and at last the claim, whose result nobody reads.
Bump(p) ==
  LET j == job[p] IN
  /\ At(p, "bump")
  /\ Exists(j.user) => person[j.user].row.version < MaxBumps
  /\ person' = IF Exists(j.user) THEN [person EXCEPT ![j.user].row.version = @ + 1] ELSE person
  /\ hints' = hints \ {j.acct}
  /\ claimed' = [claimed EXCEPT ![j.msg] = IF answers THEN @ \cup {Redis} ELSE @]
  /\ Told(p) /\ voided' = voided \cup j.due
  /\ UNCHANGED <<work, link, logins, code, answers, asked, moved, honoured>>

\* POST /auth/logout with a bearer token only: every session ends, and the browser is sent
\* to the provider, SAML links first.
LogOut(u) ==
  /\ "login" \in work.extras /\ Exists(u) /\ SessionsOf(u) # {} /\ End(SessionsOf(u))
  /\ asked' = IF \E a \in Account : Kind[a] = "saml" /\ link[a] = u THEN asked \cup {"logout"} ELSE asked
  /\ UNCHANGED <<work, person, link, hints, code, answers, job, moved, logouts>>

-----------------------------------------------------------------------------
(* What else happens *)

PasswordLogin(u) ==
  /\ "login" \in work.extras /\ Exists(u) /\ person[u].row.status = "active"
  /\ \E s \in Unused :
       logins' = [logins EXCEPT ![s] = [user |-> u, live |-> TRUE, via |-> "none", row |-> person[u].row,
                                           claim |-> person[u].row.version]]
  /\ UNCHANGED <<work, person, link, hints, code, answers, asked, job, moved, logouts>>

\* Deleting a user deletes the sessions and leaves the links.
DeleteUser(u) ==
  /\ "delete" \in work.extras /\ Exists(u)
  /\ person' = [person EXCEPT ![u] = [row |-> [NoRow EXCEPT !.status = "deleted"], mail |-> NoMail]]
  /\ End(SessionsOf(u))
  /\ UNCHANGED <<work, link, hints, code, answers, asked, job, moved, logouts>>

\* The status is changed, then the sessions of a suspended user are revoked.
Suspend(u) ==
  /\ "suspend" \in work.extras /\ Exists(u) /\ person[u].row.status = "active"
  /\ person[u].row.version < MaxBumps
  /\ person' = [person EXCEPT ![u].row.status = "suspended", ![u].row.version = @ + 1]
  /\ End(SessionsOf(u))
  /\ UNCHANGED <<work, link, hints, code, answers, asked, job, moved, logouts>>

SetTotp(u) ==
  /\ "mfa" \in work.extras /\ Exists(u)
  /\ person' = [person EXCEPT ![u].row.totp = ~@]
  /\ UNCHANGED <<work, link, hints, logins, code, answers, asked, job, moved, logouts>>

\* Only the providers that are built in can be unlinked.
Unlink(a) ==
  /\ "unlink" \in work.extras /\ Kind[a] = "builtin" /\ Exists(link[a])
  /\ link' = [link EXCEPT ![a] = Nobody] /\ moved' = moved \cup {a}
  /\ UNCHANGED <<work, person, hints, logins, code, answers, asked, job, logouts>>

ToggleRedis ==
  /\ "outage" \in work.extras /\ answers' = ~answers
  /\ UNCHANGED <<work, rows, code, asked, job, moved, logouts>>

\* A request fails: its process crashes, or the database does not answer.  Claims remain.
FailRequest(p) ==
  /\ ~At(p, "idle") /\ "failures" \in work.extras /\ Reply(p)
  /\ UNCHANGED <<work, rows, code, answers, asked, moved, logouts>>

Step(p) ==
  \/ \E a \in Account : Callback(p, a) \/ Acs(p, a)
  \/ FindLink(p) \/ MatchMail(p) \/ Create(p) \/ Link(p) \/ Gates(p) \/ Issue(p) \/ TenantShut(p)
  \/ \E l \in Logout : Slo(p, l) \/ Bclo(p, l)
  \/ Revoke(p) \/ Bump(p)

Environment ==
  \/ \E a \in Account : Authorize(a) \/ Unlink(a)
  \/ \E w \in asked : TurnedBack(w)
  \/ \E c \in Code : Exchange(c)
  \/ \E u \in Person : \/ LogOut(u) \/ PasswordLogin(u) \/ DeleteUser(u) \/ Suspend(u) \/ SetTotp(u)
  \/ ToggleRedis \/ \E p \in Proc : FailRequest(p)

Next ==
  \/ \E p \in Proc : Step(p) /\ quiet' = [q \in Proc |-> q = p /\ (At(p, "idle") \/ quiet[p])]
  \/ Environment /\ quiet' = [q \in Proc |-> FALSE]

-----------------------------------------------------------------------------
(* Properties *)

TypeOK ==
  /\ work \in Works /\ answers \in BOOLEAN /\ asked \subseteq {"oauth", "saml", "logout"}
  /\ person \in [Person -> [row : Row, mail : Mails \cup Account]]
  /\ link \in [Account -> Person \cup {Nobody}] /\ hints \subseteq Account
  /\ \A s \in Session : logins[s].user \in Person \cup {Nobody} /\ logins[s].claim \in -1..MaxBumps
  /\ \A c \in Code : code[c].for \in {"fresh", "pair", "enroll", "verify", "used"}
  /\ claimed \in [Logout -> SUBSET (Proc \cup {Redis})]
  /\ promised \subseteq Session /\ voided \subseteq Session

\* Two users never have the same address, though two callbacks that found nobody with it
\* may both be about to make one.
OneUserPerAddress ==
  \A u, v \in Person : Exists(u) /\ Exists(v) /\ person[u].mail = person[v].mail => u = v

\* A provider that was told its logout succeeded can rely on it: the sessions made with the
\* account, and the other sessions of its user, are over, and after a back-channel logout so
\* are the bearer tokens that carry a version.  An account whose link has moved to another
\* user speaks for that one.  A SAML provider can rely on it only where every address it
\* asserts is the nameID (InReach): otherwise what is over are the sessions of the user, if
\* any, who has the nameID for an address, whoever signed in with the account.
PromisesKept ==
  /\ \A s \in promised : ~logins[s].live
  /\ \A s \in voided : LET x == logins[s] IN
       x.claim # -1 /\ Exists(x.user) => x.claim < person[x.user].row.version

\* A LogoutRequest is acted upon once; while Redis is down, once in each process besides.
HonouredOnce ==
  \A l \in Logout : honoured[l] <= IF "outage" \in work.extras THEN 1 + Cardinality(Proc) ELSE 1

\* A provider's word alone never stands in for the second factor: whoever has one, or must
\* enrol one, gets a code that leads to the factor, and a suspended user gets nothing.
PairsNeedNoSecondFactor ==
  \A s \in Session : logins[s].via \in Account =>
    logins[s].row.status = "active" /\ ~logins[s].row.totp /\ ~EnrollHit(logins[s].row)

\* A callback during which nothing else happens is refused for want of a user or a link
\* only when the account is linked to a user who is gone and its provider is built in, or
\* when the provider asserts no address and the one made up is taken.
RefusalsHaveAReason ==
  \A p \in Proc :
    LET a == job[p].acct IN
    job[p].at \in {"create", "link"} /\ quiet'[p] /\ job'[p].at = "idle" =>
      \/ Kind[a] = "builtin" /\ link[a] # Nobody /\ ~Exists(link[a])
      \/ job[p].mail = NoMail

\* A login through a provider ends with the one user of the address, behind the gates that
\* user has to pass.
LoginsAreSound == TypeOK /\ OneUserPerAddress /\ PairsNeedNoSecondFactor

\* A logout that a provider sends, and that is in its reach, is carried out, and carried out once.
LogoutsHold == PromisesKept /\ HonouredOnce
=============================================================================
