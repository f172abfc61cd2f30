------------------------------- MODULE SignIn -------------------------------
(***************************************************************************)
(* Signing in to one account: passwords, mail links, SMS codes, passkeys   *)
(* and LDAP, the second factor, the flow tokens that carry a client from   *)
(* one endpoint to the next, and the lockout counter.  A request (Proc)    *)
(* runs in a server process of its own, so the in-memory fallbacks of the  *)
(* two Redis-backed services belong to it.                                 *)
(*                                                                         *)
(* A token that is used up is never issued again, so Token bounds the      *)
(* journeys of a behaviour; Waste stands for its expiry and for presenting it at an      *)
(* endpoint it is not for.                                                 *)
(***************************************************************************)
EXTENDS Integers, FiniteSets

CONSTANTS
  Proc,          \* requests being served
  Token,         \* flow tokens
  MaxFailures,   \* lockout threshold
  MaxSecret,     \* bound: TOTP secrets, and batches of recovery codes
  MaxCount,      \* bound: signature counter of the passkey
  Sites          \* deployments: what is switched on, the policies, whether users mistype,
                 \* and whether Redis and its client know GETDEL

ASSUME CountsAssumption ==
  MaxFailures \in Nat \ {0} /\ MaxSecret \in Nat /\ MaxCount \in Nat \ {0}

VARIABLES
  site,       \* the deployment
  row,        \* the row of table users
  codes,      \* recovery codes: one stands for the batch of a setup
  passkey,    \* counter of the registered credential, or NoPasskey
  flow,       \* flow tokens: Fresh, issued, or Gone
  captcha,    \* is a challenge waiting for its answer?
  fails,      \* failure counters: in Redis and in the memory of each process
  up,         \* does Redis answer?
  tenantUp,   \* is the tenant active?
  req,        \* the requests
  session,    \* the session issued last
  opened,     \* history: how often a token was honoured
  confirmed,  \* history: secrets confirmed by a live code
  raced,      \* history: has a setup run into an enable?
  spent,      \* history: recovery codes whose use has been recorded
  guesses     \* history: wrong passwords since the counter was last reset, less the
              \* failures that crashes and concurrent writes lost

account == <<row, codes, passkey>>
lockout == <<fails, guesses>>
mfaHistory == <<confirmed, raced, spent>>
vars == <<site, account, flow, captcha, fails, up, tenantUp, req, session, opened,
          mfaHistory, guesses>>

Purpose == {"password_reset", "mfa_enroll", "mfa_verify", "email_verify",
            "magic_login", "sms_otp", "webauthn_reg", "webauthn_login"}
Redis == "redis"
NoPasskey == -1
FirstFactor == {"password", "magic", "sms", "passkey", "ldap"}
Via == FirstFactor \cup {"none", "totp", "recovery", "wizard", "bearer", "change"}

Row == [status: {"absent", "pending", "active", "suspended"},
        verified: BOOLEAN, totp: BOOLEAN, must: BOOLEAN, secret: 0..MaxSecret]

\* What the gates look at.
Seen(r) == [totp |-> r.totp, must |-> r.must, verified |-> r.verified]
Snapshot == [totp: BOOLEAN, must: BOOLEAN, verified: BOOLEAN]

\* What a request holds that has read a token and not yet deleted it.
Nothing == [token |-> "none", purpose |-> "none"]
Got == [token: Token \cup {"none"}, purpose: Purpose \cup {"none"}]

\* known is FALSE in the dummy token of an SMS request for nobody.
Record == [purpose: Purpose, home: {Redis} \cup Proc, known: BOOLEAN]

Request == [at: {"idle", "password", "strike", "issue", "clear", "code", "burn", "second",
                 "setup", "codes", "enable", "confirm", "wipe", "counter", "reading"},
            via: Via, row: Snapshot, n: Nat,
            base: {NoPasskey} \cup 0..MaxCount, got: Got]

Absent == [status |-> "absent", verified |-> FALSE, totp |-> FALSE, must |-> FALSE, secret |-> 0]
Idle == [at |-> "idle", via |-> "none", row |-> Seen(Absent), n |-> 0, base |-> NoPasskey,
         got |-> Nothing]
Fresh == [purpose |-> "fresh", home |-> Redis, known |-> TRUE]
Gone == [purpose |-> "gone", home |-> Redis, known |-> TRUE]
NoSession == [via |-> "none", row |-> Seen(Absent)]

\* The account is not there yet, or an administrator has created it.
Init ==
  /\ site \in Sites
  /\ \E s \in {"absent", "active"}, m \in BOOLEAN :
       /\ m => s = "active" /\ "password" \in site.methods
       /\ row = [Absent EXCEPT !.status = s, !.must = m]
  /\ codes = [c \in 1..MaxSecret |-> "none"] /\ passkey = NoPasskey
  /\ flow = [t \in Token |-> Fresh] /\ captcha = FALSE
  /\ fails = [h \in {Redis} \cup Proc |-> 0] /\ up = TRUE /\ tenantUp = TRUE
  /\ req = [p \in Proc |-> Idle] /\ session = NoSession
  /\ opened = [t \in Token |-> 0] /\ confirmed = {} /\ raced = FALSE /\ spent = {}
  /\ guesses = 0

-----------------------------------------------------------------------------
(* Requests *)

At(p, where) == req[p].at = where
Goto(p, where, r) == req' = [req EXCEPT ![p] = [r EXCEPT !.at = where]]
Reply(p) == req' = [req EXCEPT ![p] = Idle]
Has(method) == method \in site.methods
-----------------------------------------------------------------------------
(* Flow tokens *)

\* Redis, or the memory of the process when Redis does not answer.
Issue(p, purpose, known) ==
  \E t \in Token :
    /\ flow[t] = Fresh
    /\ flow' = [flow EXCEPT ![t] = [purpose |-> purpose, home |-> IF up THEN Redis ELSE p,
                                    known |-> known]]

\* Without GETDEL a token in Redis is read first, and deleted by a command of its own.
Read(p, t) ==
  /\ At(p, "idle") /\ ~site.getdel
  /\ up /\ flow[t].home = Redis /\ flow[t].known /\ flow[t].purpose \in Purpose
  /\ Goto(p, "reading", [Idle EXCEPT !.got = [token |-> t, purpose |-> flow[t].purpose]])
  /\ UNCHANGED <<site, account, flow, captcha, lockout, up, tenantUp, session, opened, mfaHistory>>

\* GETDEL, and the get and delete of the map in memory: nothing comes between.
InOneGo(p, t) == flow[t].home = p \/ (flow[t].home = Redis /\ up /\ site.getdel)

\* Whoever has read the token goes on once the DEL is done, also when another has deleted it;
\* a DEL that fails sends the request to the map in memory, which has no such token (Fail).
Held(p, t, purpose) ==
  \/ At(p, "idle") /\ InOneGo(p, t) /\ flow[t].known /\ flow[t].purpose = purpose
  \/ At(p, "reading") /\ up /\ req[p].got = [token |-> t, purpose |-> purpose]

\* Faulty variant: GET without the DEL.
BurnLater(t) == flow' = flow

Burn(t) == flow' = [flow EXCEPT ![t] = Gone]

Consume(p, t, purpose) ==
  /\ Held(p, t, purpose) /\ Burn(t)
  /\ opened' = [opened EXCEPT ![t] = @ + 1]

\* Consume and go on to the next token of the chain in one go: the two touch
\* different keys.
Exchange(p, t, purpose, next) ==
  /\ Held(p, t, purpose)
  /\ opened' = [opened EXCEPT ![t] = @ + 1]
  /\ \E s \in Token :
       /\ flow[s] = Fresh
       /\ flow' = [flow EXCEPT ![t] = Gone,
                               ![s] = [purpose |-> next, home |-> IF up THEN Redis ELSE p,
                                       known |-> TRUE]]

Waste(t) ==
  /\ flow[t] \notin {Fresh, Gone} /\ Burn(t)
  /\ UNCHANGED <<site, account, captcha, lockout, up, tenantUp, req, session, opened, mfaHistory>>

-----------------------------------------------------------------------------
(* Captcha: checked where a request costs mail, an SMS or an account *)

NewCaptcha ==
  /\ site.captcha /\ up /\ ~captcha /\ captcha' = TRUE
  /\ UNCHANGED <<site, account, flow, lockout, up, tenantUp, req, session, opened, mfaHistory>>

\* One answer per challenge; without Redis the feature is inert.  Without GETDEL the others may
\* read the challenge as well before it is deleted.
CheckCaptcha ==
  IF site.captcha /\ up THEN captcha /\ captcha' \in {FALSE} \cup (IF site.getdel THEN {} ELSE {TRUE})
                        ELSE UNCHANGED captcha

\* A wrong answer uses the challenge up as well.
WrongCaptcha ==
  /\ site.captcha /\ up /\ captcha /\ captcha' = FALSE
  /\ UNCHANGED <<site, account, flow, lockout, up, tenantUp, req, session, opened, mfaHistory>>

-----------------------------------------------------------------------------
(* Lockout *)

\* Faulty variant: a missing counter is not a number.
GetIntOrNull(p) == IF up /\ fails[Redis] > 0 THEN fails[Redis] ELSE fails[p] - 1

\* A missing key in Redis falls back to memory as well.
GetInt(p) == IF up /\ fails[Redis] > 0 THEN fails[Redis] ELSE fails[p]

\* Faulty variant: off by one.
IsLockedLate(p) == GetInt(p) > MaxFailures

IsLocked(p) == GetInt(p) >= MaxFailures

\* The counter is read with the password's verdict and written later.
RecordFailure(p) ==
  LET home == IF up THEN Redis ELSE p
      next == req[p].n + 1
  IN /\ At(p, "strike")
     /\ fails' = [fails EXCEPT ![home] = next]
     /\ guesses' = IF fails[Redis] >= next THEN guesses - (fails[Redis] + 1 - next) ELSE guesses
     /\ Reply(p)
     /\ UNCHANGED <<site, account, flow, captcha, up, tenantUp, session, opened, mfaHistory>>

ClearLockout(p) ==
  /\ At(p, "clear") /\ Reply(p)
  /\ fails' = [fails EXCEPT ![IF up THEN Redis ELSE p] = 0]
  /\ guesses' = 0
  /\ UNCHANGED <<site, account, flow, captcha, up, tenantUp, session, opened, mfaHistory>>

\* The window ends: every failure has restarted it.
WindowEnds(h) ==
  /\ fails[h] > 0 /\ fails' = [fails EXCEPT ![h] = 0]
  /\ guesses' = IF h = Redis THEN 0 ELSE guesses
  /\ UNCHANGED <<site, account, flow, captcha, up, tenantUp, req, session, opened, mfaHistory>>

-----------------------------------------------------------------------------
(* The gates before a session *)

EnrollHit(r) == site.enforce /\ ~r.totp
VerifiedRequired(r) == site.verified /\ ~r.verified

\* Faulty variant: the second factor is left to the client.
StepUpForgotten(p, r) == Goto(p, "issue", r) /\ UNCHANGED flow

StepUp(p, r) ==
  IF r.row.totp THEN Issue(p, "mfa_verify", TRUE) /\ Reply(p)
                ELSE Goto(p, "issue", r) /\ UNCHANGED flow

\* assertTenantActive, the bearer and the refresh token.  A bearer of an
\* account that is no longer active carries its status and opens nothing.
IssueTokenPair(p) ==
  /\ At(p, "issue")
  /\ IF tenantUp
     THEN /\ session' = [via |-> req[p].via, row |-> req[p].row]
          /\ IF req[p].via = "password" THEN Goto(p, "clear", req[p]) ELSE Reply(p)
     ELSE UNCHANGED session /\ Reply(p)
  /\ UNCHANGED <<site, account, flow, captcha, lockout, up, tenantUp, opened, mfaHistory>>

-----------------------------------------------------------------------------
(* Password *)

\* Network lists, then the lock: both before the password is looked at.
LoginGates(p) ==
  /\ Has("password") /\ At(p, "idle") /\ ~IsLocked(p)
  /\ Goto(p, "password", Idle)
  /\ UNCHANGED <<site, account, flow, captcha, lockout, up, tenantUp, session, opened, mfaHistory>>

\* A counter more than one past the threshold is left out (bound).
WrongPassword(p) ==
  /\ At(p, "password") /\ row.status \in {"active", "absent"} /\ site.typos
  /\ GetInt(p) <= MaxFailures
  /\ Goto(p, "strike", [req[p] EXCEPT !.n = GetInt(p)])
  /\ guesses' = guesses + 1
  /\ UNCHANGED <<site, account, flow, captcha, fails, up, tenantUp, session, opened, mfaHistory>>

\* An account that is not active is refused before the comparison.
LoginRefused(p) ==
  /\ At(p, "password") /\ row.status \in {"pending", "suspended"} /\ Reply(p)
  /\ UNCHANGED <<site, account, flow, captcha, lockout, up, tenantUp, session, opened, mfaHistory>>

\* Forced change, enrollment, second factor, verified address: in this order.
RightPassword(p) ==
  LET r == [req[p] EXCEPT !.via = "password", !.row = Seen(row)]
  IN /\ At(p, "password") /\ row.status = "active"
     /\ IF row.must THEN Issue(p, "password_reset", TRUE) /\ Reply(p)
        ELSE IF EnrollHit(row) THEN Issue(p, "mfa_enroll", TRUE) /\ Reply(p)
        ELSE IF ~row.totp /\ VerifiedRequired(row) THEN Reply(p) /\ UNCHANGED flow
        ELSE StepUp(p, r)
     /\ UNCHANGED <<site, account, captcha, lockout, up, tenantUp, session, opened, mfaHistory>>

Forgot(p) ==
  /\ Has("forgot") /\ At(p, "idle") /\ row.status # "absent"
  /\ CheckCaptcha /\ Issue(p, "password_reset", TRUE)
  /\ UNCHANGED <<site, account, lockout, up, tenantUp, req, session, opened, mfaHistory>>

\* Any password set clears the forced change.
ResetPassword(p, t) ==
  /\ Consume(p, t, "password_reset") /\ Reply(p)
  /\ row' = [row EXCEPT !.must = FALSE]
  /\ UNCHANGED <<site, codes, passkey, captcha, lockout, up, tenantUp, session, mfaHistory>>

\* With a bearer and the old password; the client gets a new session.
ChangePassword(p) ==
  /\ Has("forgot") /\ At(p, "idle") /\ row.status = "active"
  /\ row' = [row EXCEPT !.must = FALSE]
  /\ Goto(p, "issue", [Idle EXCEPT !.via = "change", !.row = Seen(row')])
  /\ UNCHANGED <<site, codes, passkey, flow, captcha, lockout, up, tenantUp, session, opened, mfaHistory>>

-----------------------------------------------------------------------------
(* Registration and the address *)

Register(p) ==
  /\ Has("register") /\ At(p, "idle") /\ row.status = "absent" /\ CheckCaptcha
  /\ row' = [Absent EXCEPT !.status = "pending"]
  /\ Issue(p, "email_verify", TRUE) \/ UNCHANGED flow     \* mail is best effort
  /\ UNCHANGED <<site, codes, passkey, lockout, up, tenantUp, req, session, opened, mfaHistory>>

VerifyEmailRequest(p) ==
  /\ Has("register") /\ At(p, "idle") /\ row.status = "active"
  /\ Issue(p, "email_verify", TRUE)
  /\ UNCHANGED <<site, account, captcha, lockout, up, tenantUp, req, session, opened, mfaHistory>>

VerifyEmail(p, t) ==
  /\ Consume(p, t, "email_verify") /\ Reply(p)
  /\ row' = [row EXCEPT !.verified = TRUE]
  /\ UNCHANGED <<site, codes, passkey, captcha, lockout, up, tenantUp, session, mfaHistory>>

-----------------------------------------------------------------------------
(* Mail links and SMS codes *)

MagicRequest(p) ==
  /\ Has("magic") /\ At(p, "idle") /\ row.status = "active"
  /\ CheckCaptcha /\ Issue(p, "magic_login", TRUE)
  /\ UNCHANGED <<site, account, lockout, up, tenantUp, req, session, opened, mfaHistory>>

\* Possession is proven: the address counts as verified from here on.
Possession(p, t, purpose, via) ==
  /\ row.status = "active"
  /\ row' = [row EXCEPT !.verified = TRUE]
  /\ IF row.totp THEN Exchange(p, t, purpose, "mfa_verify") /\ Reply(p)
     ELSE /\ Consume(p, t, purpose)
          /\ Goto(p, "issue", [Idle EXCEPT !.via = via, !.row = Seen(row')])
  /\ UNCHANGED <<site, codes, passkey, captcha, lockout, up, tenantUp, session, mfaHistory>>

MagicConsume(p, t) == Possession(p, t, "magic_login", "magic")

\* Every request gets a token, an eligible one also a code by SMS.
SmsRequest(p) ==
  /\ Has("sms") /\ At(p, "idle") /\ CheckCaptcha
  /\ Issue(p, "sms_otp", row.status = "active")
  /\ UNCHANGED <<site, account, lockout, up, tenantUp, req, session, opened, mfaHistory>>

\* A wrong code, a dummy token and an inactive account waste the token.
SmsVerify(p, t) == Possession(p, t, "sms_otp", "sms")

-----------------------------------------------------------------------------
(* LDAP: find or provision *)

LdapLogin(p) ==
  LET found == row.status # "absent"
      r == IF found THEN row ELSE [Absent EXCEPT !.status = "active"]
  IN /\ Has("ldap") /\ At(p, "idle") /\ (found => row.status = "active")
     /\ row' = IF found THEN row ELSE [r EXCEPT !.verified = TRUE]
     /\ StepUp(p, [Idle EXCEPT !.via = "ldap", !.row = Seen(r)])
     /\ UNCHANGED <<site, codes, passkey, captcha, lockout, up, tenantUp, session, opened, mfaHistory>>

-----------------------------------------------------------------------------
(* The second factor *)

\* Step-up: the token is used up, whatever the code is worth.
MfaVerify(p, t) ==
  /\ Consume(p, t, "mfa_verify") /\ Goto(p, "code", Idle)
  /\ UNCHANGED <<site, account, captcha, lockout, up, tenantUp, session, mfaHistory>>

WrongCode(p) ==
  /\ At(p, "code") /\ Reply(p)
  /\ UNCHANGED <<site, account, flow, captcha, lockout, up, tenantUp, session, opened, mfaHistory>>

\* A live code of the stored secret, confirmed or not.
TotpCode(p) ==
  /\ At(p, "code") /\ row.secret > 0
  /\ Goto(p, "second", [req[p] EXCEPT !.via = "totp"])
  /\ UNCHANGED <<site, account, flow, captcha, lockout, up, tenantUp, session, opened, mfaHistory>>

\* The unused codes are read and compared; the use is recorded afterwards.
RecoveryCode(p, c) ==
  /\ At(p, "code") /\ codes[c] = "unused"
  /\ Goto(p, "burn", [req[p] EXCEPT !.via = "recovery", !.n = c])
  /\ UNCHANGED <<site, account, flow, captcha, lockout, up, tenantUp, session, opened, mfaHistory>>

\* Faulty variant: a code stays good.
Used(c) == codes

Burned(c) == [codes EXCEPT ![c] = IF @ = "unused" THEN "used" ELSE @]

BurnCode(p) ==
  /\ At(p, "burn") /\ codes' = Burned(req[p].n) /\ spent' = spent \cup {req[p].n}
  /\ Goto(p, "second", [req[p] EXCEPT !.n = 0])
  /\ UNCHANGED <<site, row, passkey, flow, captcha, lockout, up, tenantUp, session, opened,
                 confirmed, raced>>

\* The account is looked up again; its status goes into the bearer as it is.
StepUpDone(p) ==
  /\ At(p, "second")
  /\ IF row.status = "absent" \/ VerifiedRequired(row) THEN Reply(p)
     ELSE Goto(p, "issue", [req[p] EXCEPT !.row = Seen(row)])
  /\ UNCHANGED <<site, account, flow, captcha, lockout, up, tenantUp, session, opened, mfaHistory>>

\* By bearer, or by the token of a sign-in that has to enroll first.
MfaSetup(p) ==
  /\ row.status = "active"
  /\ \/ At(p, "idle") /\ Has("mfa") /\ UNCHANGED <<flow, opened>> /\ Goto(p, "setup", [Idle EXCEPT !.via = "bearer"])
     \/ \E t \in Token : Consume(p, t, "mfa_enroll") /\ Goto(p, "setup", [Idle EXCEPT !.via = "wizard"])
  /\ UNCHANGED <<site, account, captcha, lockout, up, tenantUp, session, mfaHistory>>

\* Faulty variant: an enabled factor stays enabled while its secret changes.
Rekeyed(r, s) == [r EXCEPT !.secret = s]

WithSecret(r, s) == [r EXCEPT !.secret = s, !.totp = FALSE]

\* The new secret.  It may overtake an enable that has compared the old one.
SetupSecret(p) ==
  \E s \in 1..MaxSecret :
    /\ At(p, "setup") /\ s > row.secret /\ codes[s] = "none"
    /\ \A q \in Proc : At(q, "codes") => req[q].n # s
    /\ row' = WithSecret(row, s)
    /\ raced' = (raced \/ \E q \in Proc : At(q, "confirm"))
    /\ Goto(p, "codes", [req[p] EXCEPT !.n = s])
    /\ UNCHANGED <<site, codes, passkey, flow, captcha, lockout, up, tenantUp, session, opened,
                   confirmed, spent>>

\* Its recovery codes; those of earlier setups stay.  The wizard gets the next
\* token of the chain.
SetupCodes(p) ==
  /\ At(p, "codes") /\ codes' = [codes EXCEPT ![req[p].n] = "unused"]
  /\ IF req[p].via = "wizard" THEN Issue(p, "mfa_enroll", TRUE) ELSE UNCHANGED flow
  /\ Reply(p)
  /\ UNCHANGED <<site, row, passkey, captcha, lockout, up, tenantUp, session, opened, mfaHistory>>

MfaEnable(p) ==
  /\ row.status = "active"
  /\ \/ At(p, "idle") /\ Has("mfa") /\ UNCHANGED <<flow, opened>> /\ Goto(p, "enable", [Idle EXCEPT !.via = "bearer"])
     \/ \E t \in Token :
          Consume(p, t, "mfa_enroll") /\ Goto(p, "enable", [Idle EXCEPT !.via = "wizard", !.row = Seen(row)])
  /\ UNCHANGED <<site, account, captcha, lockout, up, tenantUp, session, mfaHistory>>

\* The code is compared with the secret there is, if there is one.
EnableCompare(p, right) ==
  /\ At(p, "enable")
  /\ IF right /\ row.secret > 0
     THEN Goto(p, "confirm", [req[p] EXCEPT !.n = row.secret]) /\ confirmed' = confirmed \cup {row.secret}
     ELSE Reply(p) /\ UNCHANGED confirmed
  /\ UNCHANGED <<site, account, flow, captcha, lockout, up, tenantUp, session, opened, raced, spent>>

\* The flag is set by user id.  The wizard ends in a session.
EnableWrite(p) ==
  /\ At(p, "confirm") /\ row' = [row EXCEPT !.totp = TRUE]
  /\ IF req[p].via = "wizard" THEN Goto(p, "issue", [req[p] EXCEPT !.n = 0]) ELSE Reply(p)
  /\ UNCHANGED <<site, codes, passkey, flow, captcha, lockout, up, tenantUp, session, opened, mfaHistory>>

\* After the password: the secret goes first, the codes follow.
MfaDisable(p) ==
  /\ Has("mfa") /\ At(p, "idle") /\ row.status = "active"
  /\ row' = [row EXCEPT !.totp = FALSE, !.secret = 0]
  /\ raced' = (raced \/ \E q \in Proc : At(q, "confirm"))
  /\ Goto(p, "wipe", Idle)
  /\ UNCHANGED <<site, codes, passkey, flow, captcha, lockout, up, tenantUp, session, opened,
                 confirmed, spent>>

DisableCodes(p) ==
  /\ At(p, "wipe") /\ Reply(p)
  /\ codes' = [c \in DOMAIN codes |-> IF codes[c] = "none" THEN "none" ELSE "used"]
  /\ UNCHANGED <<site, row, passkey, flow, captcha, lockout, up, tenantUp, session, opened, mfaHistory>>

-----------------------------------------------------------------------------
(* Passkeys *)

PasskeyOptions(p) ==
  /\ Has("passkey") /\ At(p, "idle")
  /\ IF passkey = NoPasskey THEN row.status = "active" /\ Issue(p, "webauthn_reg", TRUE)
                            ELSE Issue(p, "webauthn_login", TRUE)
  /\ UNCHANGED <<site, account, captcha, lockout, up, tenantUp, req, session, opened, mfaHistory>>

PasskeyRegister(p, t) ==
  /\ row.status = "active" /\ passkey = NoPasskey
  /\ Consume(p, t, "webauthn_reg") /\ Reply(p)
  /\ passkey' \in {0, 1}     \* an authenticator without a counter sends zero
  /\ UNCHANGED <<site, row, codes, captcha, lockout, up, tenantUp, session, mfaHistory>>

\* Faulty variant: equal counters pass.
RegressedLoosely(base, count) == base > 0 /\ count > 0 /\ count < base - 1

\* The library and the handler both compare the counter with the one read.
Regressed(base, count) == (base > 0 \/ count > 0) /\ count <= base

PasskeyAssert(p, t, count) ==
  /\ passkey # NoPasskey /\ Consume(p, t, "webauthn_login")
  /\ ~Regressed(passkey, count)
  /\ Goto(p, "counter", [Idle EXCEPT !.via = "passkey", !.n = count, !.base = passkey])
  /\ UNCHANGED <<site, account, captcha, lockout, up, tenantUp, session, mfaHistory>>

\* The counter is written by id; then the account is looked up.
PasskeyLogin(p) ==
  LET r == [req[p] EXCEPT !.row = Seen(row), !.n = 0, !.base = NoPasskey]
  IN /\ At(p, "counter") /\ passkey' = IF passkey = NoPasskey THEN passkey ELSE req[p].n
     /\ IF row.status # "active" THEN Reply(p) /\ UNCHANGED flow
        ELSE IF EnrollHit(row) THEN Issue(p, "mfa_enroll", TRUE) /\ Reply(p)
        ELSE StepUp(p, r)
     /\ UNCHANGED <<site, row, codes, captcha, lockout, up, tenantUp, session, opened, mfaHistory>>

PasskeyDelete(p) ==
  /\ Has("passkey") /\ At(p, "idle") /\ row.status = "active" /\ passkey # NoPasskey
  /\ passkey' = NoPasskey
  /\ UNCHANGED <<site, row, codes, flow, captcha, lockout, up, tenantUp, req, session, opened, mfaHistory>>

-----------------------------------------------------------------------------
(* What happens around a sign-in *)

SetStatus(s) ==
  /\ Has("admin") /\ row.status # "absent" /\ row.status # s /\ row' = [row EXCEPT !.status = s]
  /\ UNCHANGED <<site, codes, passkey, flow, captcha, lockout, up, tenantUp, req, session, opened, mfaHistory>>

SetTenant ==
  /\ Has("admin") /\ tenantUp' = ~tenantUp
  /\ UNCHANGED <<site, account, flow, captcha, lockout, up, req, session, opened, mfaHistory>>

\* Redis goes away or comes back.
SetRedis ==
  /\ site.outages /\ up' = ~up
  /\ UNCHANGED <<site, account, flow, captcha, lockout, tenantUp, req, session, opened, mfaHistory>>

\* A crash or an error: the client gets no answer.
Fail(p) ==
  /\ ~At(p, "idle") /\ Reply(p)
  /\ guesses' = IF At(p, "strike") THEN guesses - 1 ELSE guesses
  /\ UNCHANGED <<site, account, flow, captcha, fails, up, tenantUp, session, opened, mfaHistory>>

PasswordStep(p) ==
  LoginGates(p) \/ WrongPassword(p) \/ LoginRefused(p) \/ RightPassword(p) \/ RecordFailure(p)
    \/ ClearLockout(p) \/ Forgot(p) \/ ChangePassword(p) \/ \E t \in Token : ResetPassword(p, t)

AddressStep(p) ==
  \/ Register(p) \/ VerifyEmailRequest(p) \/ MagicRequest(p) \/ SmsRequest(p) \/ LdapLogin(p)
  \/ \E t \in Token : VerifyEmail(p, t) \/ MagicConsume(p, t) \/ SmsVerify(p, t)

MfaStep(p) ==
  \/ MfaSetup(p) \/ SetupSecret(p) \/ SetupCodes(p) \/ MfaEnable(p) \/ EnableWrite(p)
  \/ MfaDisable(p) \/ DisableCodes(p) \/ TotpCode(p) \/ WrongCode(p) \/ BurnCode(p) \/ StepUpDone(p)
  \/ \E right \in BOOLEAN : EnableCompare(p, right)
  \/ \E c \in DOMAIN codes : RecoveryCode(p, c)
  \/ \E t \in Token : MfaVerify(p, t)

PasskeyStep(p) ==
  \/ PasskeyOptions(p) \/ PasskeyLogin(p) \/ PasskeyDelete(p)
  \/ \E t \in Token : PasskeyRegister(p, t) \/ \E n \in 0..MaxCount : PasskeyAssert(p, t, n)

Next ==
  \/ \E p \in Proc : PasswordStep(p) \/ AddressStep(p) \/ MfaStep(p) \/ PasskeyStep(p)
                       \/ IssueTokenPair(p) \/ Fail(p) \/ \E t \in Token : Read(p, t)
  \/ NewCaptcha \/ WrongCaptcha \/ SetTenant \/ SetRedis
  \/ \E t \in Token : Waste(t)
  \/ \E s \in {"active", "suspended"} : SetStatus(s)
  \/ \E h \in {Redis} \cup Proc : WindowEnds(h)

Spec == Init /\ [][Next]_vars
-----------------------------------------------------------------------------
(* Properties *)

\* Shapes.
TypeOK ==
  /\ row \in Row /\ codes \in [1..MaxSecret -> {"none", "unused", "used"}]
  /\ passkey \in {NoPasskey} \cup 0..MaxCount
  /\ flow \in [Token -> {Fresh, Gone} \cup Record] /\ captcha \in BOOLEAN
  /\ req \in [Proc -> Request]

\* A flow token opens one thing, once, although several processes share it and any of them may
\* have to do without Redis.  Where Redis or its client does not know GETDEL, it opens once for
\* each of the requests that overlap, and for none that comes later.
TokensOpenOnce == \A t \in Token : opened[t] <= IF site.getdel THEN 1 ELSE Cardinality(Proc)

\* The ways in that have the gate.  Mail links, SMS codes and LDAP have no enrollment gate, and
\* only the password and the step-up ask for a verified address.
HaveForcedChange == {"password"}
HaveEnrollment == {"password", "passkey"}
HaveVerified == {"password", "totp", "recovery"}

\* A session passes every gate its way in has, whatever happens meanwhile: the second factor
\* after every first one, the forced password change, enrollment, the verified address.
NoGateIsSkipped ==
  LET v == session.via
      r == session.row
  IN /\ v \in FirstFactor => ~r.totp
     /\ v \in HaveForcedChange => ~r.must
     /\ v \in HaveEnrollment => ~EnrollHit(r)
     /\ v \in HaveVerified => ~VerifiedRequired(r)

\* A second factor is enabled only for a secret the user has shown a live code
\* of, unless a setup or a disable fell between the comparison and the write.
EnabledMeansConfirmed == row.totp /\ ~raced => row.secret \in confirmed

\* Once its use is recorded, no request accepts a recovery code again.
RecoveryCodeOnce ==
  [][\A p \in Proc : ~At(p, "burn") /\ req'[p].at = "burn" => req'[p].n \notin spent]_vars

\* Where Redis always answers, no more than the threshold of wrong passwords is
\* compared, but for those in flight and those whose count a crash prevented
\* or a concurrent failure overwrote.
GuessesAreCounted ==
  site.outages \/ guesses <= MaxFailures - 1 + Cardinality(Proc)

\* The signature counter falls only where another sign-in overlapped.
CounterRises ==
  [][\A p \in Proc : At(p, "counter") /\ req'[p] # req[p] /\ passkey' # passkey /\ passkey' # NoPasskey
        => passkey' > passkey \/ req[p].base # passkey]_vars

\* The gates that the ways in have hold, and the second factor is one that the user can pass.
GatesHold == TypeOK /\ NoGateIsSkipped /\ EnabledMeansConfirmed

\* A second factor is used up by its use: the recovery code and the count of a passkey.
FactorsAreSpent == RecoveryCodeOnce /\ CounterRises
=============================================================================
