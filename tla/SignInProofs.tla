--------------------------- MODULE SignInProofs ---------------------------
(***************************************************************************)
(* Proofs about SignIn for any number of requests, flow tokens, secrets    *)
(* and deployments; and about OidcProvider for any number of requests,     *)
(* rows and users.                                                         *)
(***************************************************************************)
EXTENDS MCSignIn, FiniteSetTheorems, TLAPS

-----------------------------------------------------------------------------
(* Types *)

TypeInv == TypeOK /\ fails \in [{Redis} \cup Proc -> Nat]

\* A passkey whose counter is about to be written has shown a count that may follow the one read.
CountsFollow ==
  \A p \in Proc : At(p, "counter") =>
    /\ req[p].via = "passkey" /\ req[p].n \in 0..MaxCount /\ req[p].base \in 0..MaxCount
    /\ ~Regressed(req[p].base, req[p].n)

LEMMA SeenTyped == ASSUME NEW r \in Row PROVE Seen(r) \in Snapshot
  BY DEF Row, Seen, Snapshot

LEMMA IdleTyped == Idle \in Request /\ Absent \in Row
  BY CountsAssumption DEF Idle, Absent, Request, Row, Seen, Snapshot, Via, FirstFactor, NoPasskey, Got, Nothing

\* What an assignment to a field keeps.
LEMMA SetVia == ASSUME NEW r \in Request, NEW v \in Via PROVE [r EXCEPT !.via = v] \in Request
  BY DEF Request

LEMMA SetN ==
  ASSUME NEW r \in Request, NEW v \in Nat
  PROVE  [r EXCEPT !.n = v] \in Request /\ [r EXCEPT !.n = v].n = v
  BY DEF Request

LEMMA SetTwo ==
  ASSUME NEW r \in Request, NEW v \in Via, NEW n \in Nat
  PROVE  /\ [r EXCEPT !.via = v, !.n = n] \in Request
         /\ [r EXCEPT !.via = v, !.n = n].via = v /\ [r EXCEPT !.via = v, !.n = n].n = n
  BY DEF Request

LEMMA SetRow ==
  ASSUME NEW r \in Request, NEW x \in Snapshot
  PROVE  /\ [r EXCEPT !.row = x, !.n = 0, !.base = NoPasskey] \in Request
         /\ [r EXCEPT !.row = x, !.n = 0, !.base = NoPasskey].via = r.via
         /\ [r EXCEPT !.row = x, !.n = 0, !.base = NoPasskey].row = x
  BY DEF Request

LEMMA SetBase ==
  ASSUME NEW r \in Request, NEW v \in {NoPasskey} \cup 0..MaxCount PROVE [r EXCEPT !.base = v] \in Request
  BY DEF Request

LEMMA SetSecret == ASSUME NEW r \in Row, NEW v \in 0..MaxSecret PROVE [r EXCEPT !.secret = v] \in Row
  BY CountsAssumption DEF Row

LEMMA ClearTotp == ASSUME NEW r \in Row PROVE [r EXCEPT !.totp = FALSE] \in Row
  BY DEF Row

LEMMA Rekeyed2 ==
  ASSUME NEW r \in Row, NEW s \in 0..MaxSecret
  PROVE  WithSecret(r, s) \in Row /\ [r EXCEPT !.totp = FALSE, !.secret = s] \in Row
  BY SetSecret, ClearTotp DEF WithSecret

LEMMA AssertTyped ==
  ASSUME NEW n \in 0..MaxCount, NEW base \in {NoPasskey} \cup 0..MaxCount
  PROVE  [Idle EXCEPT !.via = "passkey", !.n = n, !.base = base] \in Request
<1>1. n \in Nat
  BY CountsAssumption
<1>2. [Idle EXCEPT !.via = "passkey"] \in Request
  BY IdleTyped, SetVia DEF Via, FirstFactor
<1>3. [Idle EXCEPT !.via = "passkey", !.n = n] \in Request
  BY <1>1, <1>2, SetN
<1> QED
  BY <1>3, SetBase

Places == {"idle", "password", "strike", "issue", "clear", "code", "burn", "second",
           "setup", "codes", "enable", "confirm", "wipe", "counter", "reading"}

LEMMA GotoTyped ==
  ASSUME TypeOK, NEW p \in Proc, NEW where \in Places, NEW r \in Request, Goto(p, where, r)
  PROVE  /\ req' \in [Proc -> Request]
         /\ req'[p].at = where /\ req'[p].via = r.via /\ req'[p].row = r.row
         /\ req'[p].n = r.n /\ req'[p].base = r.base /\ req'[p].got = r.got
         /\ \A q \in Proc \ {p} : req'[q] = req[q]
<1>1. req' = [req EXCEPT ![p] = [r EXCEPT !.at = where]]
  BY DEF Goto
<1>2. [r EXCEPT !.at = where] \in Request
  BY DEF Places, Request
<1> QED
  BY <1>1, <1>2 DEF TypeOK, Request

\* A request that has read token t.
ReadingOf(t) == [Idle EXCEPT !.got = [token |-> t, purpose |-> flow[t].purpose]]

LEMMA ReadingTyped ==
  ASSUME NEW t \in Token, flow[t].purpose \in Purpose
  PROVE  /\ ReadingOf(t) \in Request
         /\ ReadingOf(t).got = [token |-> t, purpose |-> flow[t].purpose]
<1>1. [token |-> t, purpose |-> flow[t].purpose] \in Got
  BY DEF Got
<1>2. \A r \in Request, g \in Got : [r EXCEPT !.got = g] \in Request /\ [r EXCEPT !.got = g].got = g
  BY DEF Request
<1> QED
  BY <1>1, <1>2, IdleTyped DEF ReadingOf

LEMMA ReplyTyped ==
  ASSUME TypeOK, NEW p \in Proc, Reply(p)
  PROVE  /\ req' \in [Proc -> Request]
         /\ req'[p] = Idle /\ \A q \in Proc \ {p} : req'[q] = req[q]
  BY IdleTyped DEF TypeOK, Reply

LEMMA IssueTyped ==
  ASSUME TypeOK, NEW p \in Proc, NEW purpose \in Purpose, NEW known \in BOOLEAN, Issue(p, purpose, known)
  PROVE  flow' \in [Token -> {Fresh, Gone} \cup Record]
  BY DEF TypeOK, Issue, Record

LEMMA ConsumeTyped ==
  ASSUME TypeOK, NEW p \in Proc, NEW t \in Token, NEW purpose, Consume(p, t, purpose)
  PROVE  flow' \in [Token -> {Fresh, Gone} \cup Record]
  BY DEF TypeOK, Consume, Burn

LEMMA ExchangeTyped ==
  ASSUME TypeOK, NEW p \in Proc, NEW t \in Token, NEW purpose, NEW next \in Purpose, Exchange(p, t, purpose, next)
  PROVE  flow' \in [Token -> {Fresh, Gone} \cup Record]
  BY DEF TypeOK, Exchange, Record

\* A step-up, or a session without one.
LEMMA StepUpCases ==
  ASSUME NEW p, NEW r, StepUp(p, r)
  PROVE  \/ Issue(p, "mfa_verify", TRUE) /\ Reply(p)
         \/ Goto(p, "issue", r) /\ ~r.row.totp /\ UNCHANGED flow
  BY DEF StepUp

LEMMA StepUpTyped ==
  ASSUME TypeOK, NEW p \in Proc, NEW r \in Request, StepUp(p, r)
  PROVE  flow' \in [Token -> {Fresh, Gone} \cup Record] /\ req' \in [Proc -> Request]
<1>1. flow \in [Token -> {Fresh, Gone} \cup Record] /\ "mfa_verify" \in Purpose /\ "issue" \in Places
  BY DEF TypeOK, Purpose, Places
<1>2. CASE Issue(p, "mfa_verify", TRUE) /\ Reply(p)
  BY <1>1, <1>2, ReplyTyped, IssueTyped
<1>3. CASE Goto(p, "issue", r) /\ UNCHANGED flow
  BY <1>1, <1>3, GotoTyped
<1> QED
  BY <1>2, <1>3, StepUpCases

LEMMA PasswordTyped ==
  ASSUME TypeInv, NEW p \in Proc, PasswordStep(p) PROVE TypeInv'
<1> USE DEF TypeInv
<1>0. req[p] \in Request /\ Seen(row) \in Snapshot
  BY SeenTyped DEF TypeOK
<1>1. CASE LoginGates(p)
  BY <1>1, IdleTyped, GotoTyped DEF LoginGates, TypeOK, Places, account, lockout
<1>2. CASE WrongPassword(p)
  <2>1. GetInt(p) \in Nat
    BY DEF GetInt
  <2>2. [req[p] EXCEPT !.n = GetInt(p)] \in Request
    BY <1>0, <2>1 DEF Request
  <2> QED
    BY <1>2, <2>2, GotoTyped DEF WrongPassword, TypeOK, Places, account
<1>3. CASE RecordFailure(p)
  <2>1. req[p].n \in Nat
    BY <1>0 DEF Request
  <2> QED
    BY <1>3, <2>1, ReplyTyped DEF RecordFailure, TypeOK, account
<1>4. CASE LoginRefused(p)
  BY <1>4, ReplyTyped DEF LoginRefused, TypeOK, account, lockout
<1>5. CASE RightPassword(p)
  <2> DEFINE r == [req[p] EXCEPT !.via = "password", !.row = Seen(row)]
  <2>1. r \in Request
    BY <1>0 DEF Request, Via, FirstFactor
  <2>2. UNCHANGED <<account, captcha, lockout>>
    BY <1>5 DEF RightPassword
  <2>3. (\E purpose \in Purpose : Issue(p, purpose, TRUE) /\ Reply(p)) \/ (Reply(p) /\ UNCHANGED flow) \/ StepUp(p, r)
    BY <1>5 DEF RightPassword, Purpose
  <2> HIDE DEF r
  <2> QED
    BY <2>1, <2>2, <2>3, ReplyTyped, StepUpTyped, IssueTyped DEF TypeOK, account, lockout
<1>6. CASE ClearLockout(p)
  BY <1>6, ReplyTyped DEF ClearLockout, TypeOK, account
<1>7. CASE Forgot(p)
  BY <1>7, IssueTyped DEF Forgot, CheckCaptcha, TypeOK, Purpose, account, lockout
<1>8. CASE ChangePassword(p)
  <2>1. row' = [row EXCEPT !.must = FALSE] /\ row' \in Row
    BY <1>8 DEF ChangePassword, TypeOK, Row
  <2>2. Seen(row') \in Snapshot
    BY <2>1, SeenTyped
  <2>3. [Idle EXCEPT !.via = "change", !.row = Seen(row')] \in Request
    BY <2>2, IdleTyped DEF Request, Via
  <2> QED
    BY <1>8, <2>1, <2>3, GotoTyped DEF ChangePassword, TypeOK, Places, lockout
<1>9. ASSUME NEW t \in Token, ResetPassword(p, t) PROVE TypeInv'
  BY <1>9, ConsumeTyped, ReplyTyped DEF ResetPassword, TypeOK, Row, lockout
<1> QED
  BY <1>1, <1>2, <1>3, <1>4, <1>5, <1>6, <1>7, <1>8, <1>9 DEF PasswordStep

LEMMA AddressTyped ==
  ASSUME TypeInv, NEW p \in Proc, AddressStep(p) PROVE TypeInv'
<1> USE DEF TypeInv
<1>1. CASE Register(p)
  <2>1. [Absent EXCEPT !.status = "pending"] \in Row
    BY IdleTyped DEF Row
  <2> QED
    BY <1>1, <2>1, IssueTyped DEF Register, CheckCaptcha, Purpose, TypeOK, lockout
<1>2. CASE VerifyEmailRequest(p)
  BY <1>2, IssueTyped DEF VerifyEmailRequest, Purpose, TypeOK, account, lockout
<1>3. CASE MagicRequest(p)
  BY <1>3, IssueTyped DEF MagicRequest, CheckCaptcha, Purpose, TypeOK, account, lockout
<1>4. CASE SmsRequest(p)
  BY <1>4, IssueTyped DEF SmsRequest, CheckCaptcha, Purpose, TypeOK, account, lockout
<1>5. CASE LdapLogin(p)
  <2> DEFINE r == IF row.status # "absent" THEN row ELSE [Absent EXCEPT !.status = "active"]
             q == [Idle EXCEPT !.via = "ldap", !.row = Seen(r)]
  <2>1. r \in Row
    BY IdleTyped DEF TypeOK, Row
  <2>2. q \in Request
    BY <2>1, SeenTyped, IdleTyped DEF Request, Via, FirstFactor
  <2>3. row' \in Row /\ StepUp(p, q) /\ UNCHANGED <<codes, passkey, captcha, lockout>>
    BY <1>5, <2>1 DEF LdapLogin, Row, TypeOK
  <2> HIDE DEF r, q
  <2> QED
    BY <2>2, <2>3, StepUpTyped DEF TypeOK, lockout
<1>6. ASSUME NEW t \in Token, VerifyEmail(p, t) PROVE TypeInv'
  BY <1>6, ConsumeTyped, ReplyTyped DEF VerifyEmail, TypeOK, Row, lockout
<1>7. ASSUME NEW t \in Token, NEW purpose, NEW via \in Via, Possession(p, t, purpose, via) PROVE TypeInv'
  <2>1. row' \in Row /\ UNCHANGED <<codes, passkey, captcha, lockout>>
    BY <1>7 DEF Possession, TypeOK, Row
  <2>2. [Idle EXCEPT !.via = via, !.row = Seen(row')] \in Request
    BY <2>1, SeenTyped, IdleTyped DEF Request
  <2> QED
    BY <1>7, <2>1, <2>2, ConsumeTyped, ExchangeTyped, GotoTyped, ReplyTyped
       DEF Possession, Places, Purpose, TypeOK, lockout
<1> QED
  BY <1>1, <1>2, <1>3, <1>4, <1>5, <1>6, <1>7 DEF AddressStep, MagicConsume, SmsVerify, Via, FirstFactor

LEMMA MfaTyped ==
  ASSUME TypeInv, NEW p \in Proc, MfaStep(p) PROVE TypeInv'
<1> USE DEF TypeInv
<1>0. req[p] \in Request /\ Seen(row) \in Snapshot /\ DOMAIN codes = 1..MaxSecret
  BY SeenTyped, CountsAssumption DEF TypeOK
<1>a. row \in Row /\ row.secret \in Nat /\ MaxSecret \in Nat /\ 0 \in 0..MaxSecret
  BY CountsAssumption DEF TypeOK, Row
<1>1. CASE MfaSetup(p)
  <2>1. \A v \in {"bearer", "wizard"} : [Idle EXCEPT !.via = v] \in Request
    BY IdleTyped DEF Request, Via
  <2> QED
    BY <1>1, <2>1, ConsumeTyped, GotoTyped DEF MfaSetup, Places, TypeOK, account, lockout
<1>2. CASE SetupSecret(p)
  <2>1. PICK s \in 1..MaxSecret : /\ row' = WithSecret(row, s) /\ Goto(p, "codes", [req[p] EXCEPT !.n = s])
                                  /\ UNCHANGED <<codes, passkey, flow, captcha, lockout>>
    BY <1>2 DEF SetupSecret
  <2>b. s \in 0..MaxSecret
    BY <1>a
  <2>c. WithSecret(row, s) \in Row
    BY <1>a, <2>b, Rekeyed2
  <2>2. row' \in Row
    BY <2>1, <2>c
  <2>a. s \in Nat
    BY <1>a
  <2>3. [req[p] EXCEPT !.n = s] \in Request
    BY <1>0, <2>a DEF Request
  <2> QED
    BY <2>1, <2>2, <2>3, GotoTyped DEF Places, TypeOK, lockout
<1>3. CASE SetupCodes(p)
  BY <1>3, ReplyTyped, IssueTyped DEF SetupCodes, Purpose, TypeOK, lockout
<1>4. CASE MfaEnable(p)
  <2>1. [Idle EXCEPT !.via = "bearer"] \in Request /\ [Idle EXCEPT !.via = "wizard", !.row = Seen(row)] \in Request
    BY <1>0, IdleTyped DEF Request, Via
  <2> QED
    BY <1>4, <2>1, ConsumeTyped, GotoTyped DEF MfaEnable, Places, TypeOK, account, lockout
<1>5. CASE EnableWrite(p)
  <2>1. row' \in Row /\ [req[p] EXCEPT !.n = 0] \in Request
    BY <1>0, <1>5 DEF EnableWrite, TypeOK, Row, Request
  <2> QED
    BY <1>5, <2>1, ReplyTyped, GotoTyped DEF EnableWrite, Places, TypeOK, lockout
<1>6. CASE MfaDisable(p)
  <2>1. row' = [row EXCEPT !.totp = FALSE, !.secret = 0]
    BY <1>6 DEF MfaDisable
  <2>2. row' \in Row
    BY <1>a, <2>1, Rekeyed2
  <2> QED
    BY <1>6, <2>2, IdleTyped, GotoTyped DEF MfaDisable, Places, TypeOK, lockout
<1>7. CASE DisableCodes(p)
  BY <1>7, ReplyTyped DEF DisableCodes, TypeOK, lockout
<1>8. CASE TotpCode(p)
  <2>1. [req[p] EXCEPT !.via = "totp"] \in Request
    BY <1>0 DEF Request, Via
  <2> QED
    BY <1>8, <2>1, GotoTyped DEF TotpCode, Places, TypeOK, account, lockout
<1>9. CASE WrongCode(p)
  BY <1>9, ReplyTyped DEF WrongCode, TypeOK, account, lockout
<1>10. CASE BurnCode(p)
  <2>1. codes' \in [1..MaxSecret -> {"none", "unused", "used"}]
    BY <1>10 DEF BurnCode, Burned, TypeOK
  <2>2. [req[p] EXCEPT !.n = 0] \in Request
    BY <1>0 DEF Request
  <2> QED
    BY <1>10, <2>1, <2>2, GotoTyped DEF BurnCode, Places, TypeOK, lockout
<1>11. CASE StepUpDone(p)
  <2>1. [req[p] EXCEPT !.row = Seen(row)] \in Request
    BY <1>0 DEF Request
  <2> QED
    BY <1>11, <2>1, ReplyTyped, GotoTyped DEF StepUpDone, Places, TypeOK, account, lockout
<1>12. ASSUME NEW right \in BOOLEAN, EnableCompare(p, right) PROVE TypeInv'
  <2>1. [req[p] EXCEPT !.n = row.secret] \in Request
    BY <1>0, <1>a, SetN
  <2> QED
    BY <1>12, <2>1, ReplyTyped, GotoTyped DEF EnableCompare, Places, TypeOK, account, lockout
<1>13. ASSUME NEW c \in DOMAIN codes, RecoveryCode(p, c) PROVE TypeInv'
  <2>1. c \in Nat
    BY <1>0, <1>a
  <2>2. [req[p] EXCEPT !.via = "recovery", !.n = c] \in Request
    BY <1>0, <2>1 DEF Request, Via
  <2> QED
    BY <1>13, <2>2, GotoTyped DEF RecoveryCode, Places, TypeOK, account, lockout
<1>14. ASSUME NEW t \in Token, MfaVerify(p, t) PROVE TypeInv'
  BY <1>14, IdleTyped, ConsumeTyped, GotoTyped DEF MfaVerify, Places, TypeOK, account, lockout
<1> QED
  BY <1>1, <1>2, <1>3, <1>4, <1>5, <1>6, <1>7, <1>8, <1>9, <1>10, <1>11, <1>12, <1>13, <1>14 DEF MfaStep

LEMMA PasskeyTyped ==
  ASSUME TypeInv, CountsFollow, NEW p \in Proc, PasskeyStep(p) PROVE TypeInv'
<1> USE DEF TypeInv
<1>0. /\ req[p] \in Request /\ Seen(row) \in Snapshot /\ MaxCount \in Nat \ {0}
      /\ passkey \in {NoPasskey} \cup 0..MaxCount
  BY SeenTyped, CountsAssumption DEF TypeOK
<1>1. CASE PasskeyOptions(p)
  BY <1>1, IssueTyped DEF PasskeyOptions, Purpose, TypeOK, account, lockout
<1>2. CASE PasskeyLogin(p)
  <2> DEFINE r == [req[p] EXCEPT !.row = Seen(row), !.n = 0, !.base = NoPasskey]
  <2>1. r \in Request
    BY <1>0 DEF Request
  <2>2. passkey' \in {NoPasskey} \cup 0..MaxCount
    <3>1. At(p, "counter")
      BY <1>2 DEF PasskeyLogin
    <3> QED
      BY <1>0, <1>2, <3>1 DEF PasskeyLogin, CountsFollow
  <2>3. /\ UNCHANGED <<row, codes, captcha, lockout>>
        /\ \/ Reply(p) /\ UNCHANGED flow
           \/ Issue(p, "mfa_enroll", TRUE) /\ Reply(p)
           \/ StepUp(p, r)
    BY <1>2 DEF PasskeyLogin
  <2> HIDE DEF r
  <2> QED
    BY <2>1, <2>2, <2>3, ReplyTyped, StepUpTyped, IssueTyped DEF Purpose, TypeOK, lockout
<1>3. CASE PasskeyDelete(p)
  BY <1>3 DEF PasskeyDelete, TypeOK, lockout
<1>4. ASSUME NEW t \in Token, PasskeyRegister(p, t) PROVE TypeInv'
  BY <1>4, <1>0, ConsumeTyped, ReplyTyped DEF PasskeyRegister, TypeOK, lockout, NoPasskey
<1>5. ASSUME NEW t \in Token, NEW n \in 0..MaxCount, PasskeyAssert(p, t, n) PROVE TypeInv'
  <2>1. [Idle EXCEPT !.via = "passkey", !.n = n, !.base = passkey] \in Request
    BY <1>0, AssertTyped
  <2> QED
    BY <1>5, <2>1, ConsumeTyped, GotoTyped DEF PasskeyAssert, Places, TypeOK, account, lockout
<1> QED
  BY <1>1, <1>2, <1>3, <1>4, <1>5 DEF PasskeyStep

-----------------------------------------------------------------------------
(* The gates *)

\* What a session has passed in deployment s, by the way in and by the row its request has seen.
Passed(s, v, r) ==
  /\ v \in FirstFactor => ~r.totp
  /\ v = "password" => ~r.must
  /\ v \in {"password", "passkey"} => ~(s.enforce /\ ~r.totp)
  /\ v \in {"password", "totp", "recovery"} => ~(s.verified /\ ~r.verified)

\* A request that is about to issue has passed them; one that waits for its second factor
\* has that as its way in.
GatesAreAhead ==
  /\ Passed(site, session.via, session.row)
  /\ \A p \in Proc :
       /\ At(p, "issue") => Passed(site, req[p].via, req[p].row)
       /\ At(p, "burn") \/ At(p, "second") => req[p].via \in {"totp", "recovery"}

\* A step of one request, to where there is nothing to pass, or to where it has passed.
LEMMA GateEffects ==
  ASSUME TypeOK, GatesAreAhead, NEW p \in Proc, UNCHANGED <<site, session>>
  PROVE  /\ UNCHANGED req => GatesAreAhead'
         /\ Reply(p) => GatesAreAhead'
         /\ \A r \in Request, where \in Places \ {"issue", "burn", "second"} : Goto(p, where, r) => GatesAreAhead'
         /\ \A r \in Request : Goto(p, "issue", r) /\ Passed(site, r.via, r.row) => GatesAreAhead'
         /\ \A r \in Request, where \in {"burn", "second"} :
              Goto(p, where, r) /\ r.via \in {"totp", "recovery"} => GatesAreAhead'
<1> USE DEF GatesAreAhead, At
<1>1. UNCHANGED req => GatesAreAhead'
  OBVIOUS
<1>2. Reply(p) => GatesAreAhead'
  BY ReplyTyped DEF Idle
<1>3. ASSUME NEW r \in Request, NEW where \in Places \ {"issue", "burn", "second"}, Goto(p, where, r)
      PROVE  GatesAreAhead'
  BY <1>3, GotoTyped
<1>4. ASSUME NEW r \in Request, Goto(p, "issue", r), Passed(site, r.via, r.row) PROVE GatesAreAhead'
  BY <1>4, GotoTyped DEF Places
<1>5. ASSUME NEW r \in Request, NEW where \in {"burn", "second"}, Goto(p, where, r), r.via \in {"totp", "recovery"}
      PROVE  GatesAreAhead'
  BY <1>5, GotoTyped DEF Places
<1> QED
  BY <1>1, <1>2, <1>3, <1>4, <1>5

\* The places where requests go, and what they take along.
LEMMA Shapes ==
  ASSUME TypeInv, NEW p \in Proc
  PROVE  /\ Idle \in Request /\ req[p] \in Request
         /\ \A v \in Via : [Idle EXCEPT !.via = v] \in Request /\ [req[p] EXCEPT !.via = v] \in Request
         /\ \A v \in Via, x \in Snapshot :
              /\ [Idle EXCEPT !.via = v, !.row = x] \in Request
              /\ [req[p] EXCEPT !.via = v, !.row = x] \in Request
         /\ \A x \in Snapshot : /\ [req[p] EXCEPT !.row = x] \in Request
                                /\ [req[p] EXCEPT !.row = x, !.n = 0, !.base = NoPasskey] \in Request
         /\ \A n \in Nat : [req[p] EXCEPT !.n = n] \in Request
         /\ \A v \in Via, n \in Nat : [req[p] EXCEPT !.via = v, !.n = n] \in Request
         /\ \A v \in Via, n \in Nat, b \in {NoPasskey} \cup 0..MaxCount :
              [Idle EXCEPT !.via = v, !.n = n, !.base = b] \in Request
         /\ Seen(row) \in Snapshot /\ GetInt(p) \in Nat /\ row.secret \in Nat
         /\ DOMAIN codes \subseteq Nat
<1>1. Idle \in Request /\ req[p] \in Request
  BY IdleTyped DEF TypeInv, TypeOK
<1>2. \A r \in Request, v \in Via : [r EXCEPT !.via = v] \in Request
  BY DEF Request
<1>3. \A r \in Request, x \in Snapshot : [r EXCEPT !.row = x] \in Request
  BY DEF Request
<1>4. \A r \in Request, n \in Nat : [r EXCEPT !.n = n] \in Request
  BY DEF Request
<1>5. \A r \in Request, b \in {NoPasskey} \cup 0..MaxCount : [r EXCEPT !.base = b] \in Request
  BY DEF Request
<1>6. Seen(row) \in Snapshot /\ row.secret \in Nat
  BY SeenTyped, CountsAssumption DEF TypeInv, TypeOK, Row
<1>7. GetInt(p) \in Nat
  BY DEF GetInt, TypeInv
<1>8. DOMAIN codes \subseteq Nat
  BY CountsAssumption DEF TypeInv, TypeOK
<1>9. \A r \in Request, v \in Via, x \in Snapshot : [r EXCEPT !.via = v, !.row = x] \in Request
  BY <1>2, <1>3
<1>10. \A r \in Request, v \in Via, n \in Nat : [r EXCEPT !.via = v, !.n = n] \in Request
  BY <1>2, <1>4
<1>11. \A r \in Request, v \in Via, n \in Nat, b \in {NoPasskey} \cup 0..MaxCount :
         [r EXCEPT !.via = v, !.n = n, !.base = b] \in Request
  BY <1>10, <1>5
<1>12. \A r \in Request, x \in Snapshot : [r EXCEPT !.row = x, !.n = 0, !.base = NoPasskey] \in Request
  BY <1>3, <1>4, <1>5
<1> QED
  BY <1>1, <1>2, <1>3, <1>4, <1>6, <1>7, <1>8, <1>9, <1>10, <1>11, <1>12

LEMMA GatesStep == TypeInv /\ TypeInv' /\ CountsFollow /\ GatesAreAhead /\ [Next]_vars => GatesAreAhead'
<1> SUFFICES ASSUME TypeInv, TypeInv', CountsFollow, GatesAreAhead, [Next]_vars PROVE GatesAreAhead'
  OBVIOUS
<1>0. TypeOK
  BY DEF TypeInv
<1>1. ASSUME NEW p \in Proc, PasswordStep(p) PROVE GatesAreAhead'
  <2>1. CASE RightPassword(p)
    <3> DEFINE r == [req[p] EXCEPT !.via = "password", !.row = Seen(row)]
    <3>0. req[p] \in Request /\ Seen(row) \in Snapshot
      BY Shapes
    <3>1. r \in Request /\ r.via = "password" /\ r.row = Seen(row)
      BY <3>0 DEF Request, Via, FirstFactor
    <3>2. UNCHANGED <<site, session>> /\ (Reply(p) \/ (StepUp(p, r) /\ ~row.must /\ ~EnrollHit(row)
                                               /\ (row.totp \/ ~VerifiedRequired(row))))
      BY <2>1 DEF RightPassword
    <3> HIDE DEF r
    <3>3. CASE Goto(p, "issue", r) /\ ~r.row.totp /\ ~row.must /\ ~EnrollHit(row) /\ (row.totp \/ ~VerifiedRequired(row))
      <4>1. Passed(site, r.via, r.row)
        BY <3>1, <3>3 DEF Passed, Seen, EnrollHit, VerifiedRequired
      <4> QED
        BY <1>0, <3>1, <3>2, <3>3, <4>1, GateEffects
    <3> QED
      BY <1>0, <3>1, <3>2, <3>3, StepUpCases, GateEffects
  <2>2. CASE ChangePassword(p)
    <3> DEFINE r == [Idle EXCEPT !.via = "change", !.row = Seen(row')]
    <3>1. Seen(row') \in Snapshot
      BY SeenTyped DEF TypeInv, TypeOK
    <3>2. r \in Request /\ r.via = "change"
      BY <3>1, Shapes DEF Via, Idle
    <3>3. Goto(p, "issue", r) /\ UNCHANGED <<site, session>>
      BY <2>2 DEF ChangePassword
    <3> HIDE DEF r
    <3>4. Passed(site, r.via, r.row)
      BY <3>2 DEF Passed, FirstFactor
    <3> QED
      BY <1>0, <3>2, <3>3, <3>4, GateEffects
  <2>3. CASE LoginGates(p) \/ WrongPassword(p) \/ LoginRefused(p) \/ RecordFailure(p) \/ ClearLockout(p) \/ Forgot(p)
             \/ \E t \in Token : ResetPassword(p, t)
    BY <1>0, <2>3, Shapes, GateEffects
       DEF LoginGates, WrongPassword, LoginRefused, RecordFailure, ClearLockout, Forgot, ResetPassword, Places
  <2> QED
    BY <1>1, <2>1, <2>2, <2>3 DEF PasswordStep
<1>2. ASSUME NEW p \in Proc, AddressStep(p) PROVE GatesAreAhead'
  <2>1. ASSUME NEW t \in Token, NEW purpose, NEW via \in {"magic", "sms"}, Possession(p, t, purpose, via)
        PROVE  GatesAreAhead'
    <3> DEFINE r == [Idle EXCEPT !.via = via, !.row = Seen(row')]
    <3>1. Seen(row') \in Snapshot
      BY SeenTyped DEF TypeInv, TypeOK
    <3>2. r \in Request /\ r.via = via /\ r.row = Seen(row')
      BY <3>1, Shapes DEF Via, FirstFactor, Idle
    <3>3. UNCHANGED <<site, session>> /\ (Reply(p) \/ (Goto(p, "issue", r) /\ ~row.totp /\ row' = [row EXCEPT !.verified = TRUE]))
      BY <2>1 DEF Possession
    <3>4. CASE Goto(p, "issue", r) /\ ~row.totp /\ row' = [row EXCEPT !.verified = TRUE]
      <4>1. row'.totp = row.totp
        BY <3>4, <1>0 DEF TypeOK, Row
      <4>2. Passed(site, r.via, r.row)
        BY <3>2, <3>4, <4>1 DEF Passed, Seen
      <4> HIDE DEF r
      <4> QED
        BY <1>0, <3>2, <3>3, <3>4, <4>2, GateEffects
    <3> QED
      BY <1>0, <3>3, <3>4, GateEffects
  <2>2. CASE LdapLogin(p)
    <3> DEFINE x == IF row.status # "absent" THEN row ELSE [Absent EXCEPT !.status = "active"]
               r == [Idle EXCEPT !.via = "ldap", !.row = Seen(x)]
    <3>1. x \in Row
      BY IdleTyped DEF TypeInv, TypeOK, Row
    <3>2. r \in Request /\ r.via = "ldap"
      BY <3>1, SeenTyped, Shapes DEF Via, FirstFactor, Idle
    <3>3. UNCHANGED <<site, session>> /\ StepUp(p, r)
      BY <2>2 DEF LdapLogin
    <3> HIDE DEF x, r
    <3>4. ~r.row.totp => Passed(site, r.via, r.row)
      BY <3>2 DEF Passed
    <3> QED
      BY <1>0, <3>2, <3>3, <3>4, StepUpCases, GateEffects
  <2>3. CASE Register(p) \/ VerifyEmailRequest(p) \/ MagicRequest(p) \/ SmsRequest(p) \/ \E t \in Token : VerifyEmail(p, t)
    BY <1>0, <2>3, GateEffects DEF Register, VerifyEmailRequest, MagicRequest, SmsRequest, VerifyEmail
  <2> QED
    BY <1>2, <2>1, <2>2, <2>3 DEF AddressStep, MagicConsume, SmsVerify
<1>3. ASSUME NEW p \in Proc, MfaStep(p) PROVE GatesAreAhead'
  <2>0. req[p] \in Request
    BY Shapes
  <2>1. ASSUME TotpCode(p) \/ \E c \in DOMAIN codes : RecoveryCode(p, c) PROVE GatesAreAhead'
    <3>1. UNCHANGED <<site, session>> /\ \E r \in Request, where \in {"burn", "second"} :
                                   Goto(p, where, r) /\ r.via \in {"totp", "recovery"}
      <4>1. CASE TotpCode(p)
        <5> DEFINE r == [req[p] EXCEPT !.via = "totp"]
        <5>1. r \in Request /\ r.via = "totp"
          BY <2>0, SetVia DEF Via, Request
        <5> QED
          BY <4>1, <5>1 DEF TotpCode
      <4>2. ASSUME NEW c \in DOMAIN codes, RecoveryCode(p, c)
            PROVE  UNCHANGED <<site, session>> /\ \E r \in Request, where \in {"burn", "second"} :
                                   Goto(p, where, r) /\ r.via \in {"totp", "recovery"}
        <5> DEFINE r == [req[p] EXCEPT !.via = "recovery", !.n = c]
        <5>0. "recovery" \in Via /\ c \in Nat
          BY Shapes DEF Via
        <5>1. r \in Request /\ r.via = "recovery"
          BY <2>0, <5>0, SetTwo, ZenonT(60)
        <5> QED
          BY <4>2, <5>1 DEF RecoveryCode
      <4> QED
        BY <2>1, <4>1, <4>2
    <3> QED
      BY <1>0, <3>1, GateEffects
  <2>2. CASE BurnCode(p)
    <3>1. [req[p] EXCEPT !.n = 0] \in Request /\ [req[p] EXCEPT !.n = 0].via = req[p].via
      BY <2>0, SetN DEF Request
    <3>2. req[p].via \in {"totp", "recovery"}
      BY <2>2 DEF BurnCode, GatesAreAhead
    <3> QED
      BY <1>0, <2>2, <3>1, <3>2, GateEffects DEF BurnCode
  <2>3. CASE StepUpDone(p)
    <3> DEFINE r == [req[p] EXCEPT !.row = Seen(row)]
    <3>1. r \in Request /\ r.via = req[p].via /\ r.row = Seen(row)
      BY <2>0, Shapes DEF Request
    <3>2. req[p].via \in {"totp", "recovery"}
      BY <2>3 DEF StepUpDone, GatesAreAhead
    <3>3. UNCHANGED <<site, session>> /\ (Reply(p) \/ (Goto(p, "issue", r) /\ ~VerifiedRequired(row)))
      BY <2>3 DEF StepUpDone
    <3> HIDE DEF r
    <3>4. ~VerifiedRequired(row) => Passed(site, r.via, r.row)
      BY <3>1, <3>2 DEF Passed, VerifiedRequired, Seen, FirstFactor
    <3> QED
      BY <1>0, <3>1, <3>3, <3>4, GateEffects
  <2>4. CASE EnableWrite(p)
    <3> DEFINE r == [req[p] EXCEPT !.n = 0]
    <3>1. r \in Request /\ r.via = req[p].via
      BY <2>0, SetN DEF Request
    <3>2. UNCHANGED <<site, session>> /\ (Reply(p) \/ (Goto(p, "issue", r) /\ req[p].via = "wizard"))
      BY <2>4 DEF EnableWrite
    <3> HIDE DEF r
    <3>3. req[p].via = "wizard" => Passed(site, r.via, r.row)
      BY <3>1 DEF Passed, FirstFactor
    <3> QED
      BY <1>0, <3>1, <3>2, <3>3, GateEffects
  <2>5. CASE \/ MfaSetup(p) \/ MfaEnable(p) \/ MfaDisable(p) \/ \E t \in Token : MfaVerify(p, t)
    <3>1. \A v \in {"bearer", "wizard"} : /\ [Idle EXCEPT !.via = v] \in Request
                                          /\ [Idle EXCEPT !.via = v, !.row = Seen(row)] \in Request
      BY Shapes DEF Via
    <3> QED
      BY <1>0, <2>5, <3>1, IdleTyped, GateEffects DEF MfaSetup, MfaEnable, MfaDisable, MfaVerify, Places
  <2>6. CASE SetupSecret(p) \/ \E right \in BOOLEAN : EnableCompare(p, right)
    <3>1. \A n \in Nat : [req[p] EXCEPT !.n = n] \in Request
      BY Shapes
    <3>2. row.secret \in Nat
      BY Shapes
    <3>a. 1..MaxSecret \subseteq Nat
      BY CountsAssumption
    <3> QED
      BY <1>0, <2>6, <3>1, <3>2, <3>a, GateEffects DEF SetupSecret, EnableCompare, Places
  <2>7. CASE SetupCodes(p) \/ DisableCodes(p) \/ WrongCode(p)
    BY <1>0, <2>7, GateEffects DEF SetupCodes, DisableCodes, WrongCode
  <2> QED
    BY <1>3, <2>1, <2>2, <2>3, <2>4, <2>5, <2>6, <2>7 DEF MfaStep
<1>4. ASSUME NEW p \in Proc, PasskeyStep(p) PROVE GatesAreAhead'
  <2>1. CASE PasskeyLogin(p)
    <3> DEFINE r == [req[p] EXCEPT !.row = Seen(row), !.n = 0, !.base = NoPasskey]
    <3>0. req[p] \in Request /\ Seen(row) \in Snapshot
      BY Shapes
    <3>1. r \in Request /\ r.via = req[p].via /\ r.row = Seen(row)
      BY <3>0, SetRow
    <3>2. req[p].via = "passkey"
      BY <2>1 DEF PasskeyLogin, CountsFollow
    <3>3. UNCHANGED <<site, session>> /\ (Reply(p) \/ (StepUp(p, r) /\ ~EnrollHit(row)))
      BY <2>1 DEF PasskeyLogin
    <3> HIDE DEF r
    <3>4. ~EnrollHit(row) /\ ~r.row.totp => Passed(site, r.via, r.row)
      BY <3>1, <3>2 DEF Passed, EnrollHit, Seen
    <3> QED
      BY <1>0, <3>1, <3>3, <3>4, StepUpCases, GateEffects
  <2>2. ASSUME NEW t \in Token, NEW n \in 0..MaxCount, PasskeyAssert(p, t, n) PROVE GatesAreAhead'
    <3>1. [Idle EXCEPT !.via = "passkey", !.n = n, !.base = passkey] \in Request
      BY AssertTyped DEF TypeInv, TypeOK
    <3> QED
      BY <1>0, <2>2, <3>1, GateEffects DEF PasskeyAssert, Places
  <2>3. CASE PasskeyOptions(p) \/ PasskeyDelete(p) \/ \E t \in Token : PasskeyRegister(p, t)
    BY <1>0, <2>3, GateEffects DEF PasskeyOptions, PasskeyDelete, PasskeyRegister
  <2> QED
    BY <1>4, <2>1, <2>2, <2>3 DEF PasskeyStep
<1>5. ASSUME NEW p \in Proc, IssueTokenPair(p) PROVE GatesAreAhead'
  <2>1. /\ UNCHANGED site
        /\ Passed(site, session'.via, session'.row)
    BY <1>5 DEF IssueTokenPair, GatesAreAhead
  <2>2. Reply(p) \/ Goto(p, "clear", req[p])
    BY <1>5 DEF IssueTokenPair
  <2>3. CASE Reply(p)
    BY <1>0, <2>1, <2>3, ReplyTyped DEF GatesAreAhead, At, Idle
  <2>4. CASE Goto(p, "clear", req[p])
    <3>1. req[p] \in Request
      BY Shapes
    <3> QED
      BY <1>0, <2>1, <2>4, <3>1, GotoTyped DEF GatesAreAhead, At, Places
  <2> QED
    BY <2>2, <2>3, <2>4
<1>6. ASSUME NEW p \in Proc, Fail(p) \/ \E t \in Token : Read(p, t) PROVE GatesAreAhead'
  <2>1. ASSUME NEW t \in Token, Read(p, t) PROVE GatesAreAhead'
    <3>1. ReadingOf(t) \in Request /\ Goto(p, "reading", ReadingOf(t)) /\ UNCHANGED <<site, session>>
      BY <2>1, ReadingTyped DEF Read, ReadingOf
    <3> QED
      BY <1>0, <3>1, GateEffects DEF Places
  <2> QED
    BY <1>0, <1>6, <2>1, GateEffects DEF Fail
<1>7. CASE \/ NewCaptcha \/ WrongCaptcha \/ SetTenant \/ SetRedis \/ UNCHANGED vars
           \/ (\E t \in Token : Waste(t))
           \/ \E s \in {"active", "suspended"} : SetStatus(s)
           \/ \E h \in {Redis} \cup Proc : WindowEnds(h)
  BY <1>7 DEF NewCaptcha, WrongCaptcha, SetTenant, SetRedis, SetStatus, WindowEnds, Waste, GatesAreAhead, At, vars
<1> QED
  BY <1>1, <1>2, <1>3, <1>4, <1>5, <1>6, <1>7 DEF Next

-----------------------------------------------------------------------------
(* Where requests go *)

\* Request p stays, or goes to one of these places; the others stay.
Lands(p, places) ==
  /\ req' \in [Proc -> Request] /\ \A q \in Proc \ {p} : req'[q] = req[q]
  /\ req' = req \/ req'[p].at \in places

\* Places where a request carries nothing that an invariant below is about, but for the token
\* that it has read.
Calm == {"idle", "issue", "clear", "code", "second", "setup", "wipe"}
Quiet == Calm \cup {"reading"}

LEMMA CalmIsQuiet == \A p : Lands(p, Calm) => Lands(p, Quiet)
  BY DEF Lands, Calm, Quiet

LEMMA Landing ==
  ASSUME TypeInv, NEW p \in Proc
  PROVE  /\ UNCHANGED req => Lands(p, Calm) /\ Lands(p, Quiet)
         /\ Reply(p) => Lands(p, Calm) /\ Lands(p, Quiet)
         /\ \A r \in Request, where \in Calm : Goto(p, where, r) => Lands(p, Calm)
         /\ \A r \in Request, where \in Quiet : Goto(p, where, r) => Lands(p, Quiet)
<1>1. UNCHANGED req => Lands(p, Calm)
  BY DEF TypeInv, TypeOK, Lands
<1>2. Reply(p) => Lands(p, Calm)
  <2>1. Idle.at = "idle"
    BY DEF Idle
  <2> QED
    BY <2>1, ReplyTyped DEF TypeInv, Lands, Calm
<1>3. ASSUME NEW r \in Request, NEW where \in Calm, Goto(p, where, r) PROVE Lands(p, Calm)
  BY <1>3, GotoTyped DEF TypeInv, Lands, Calm, Places
<1>4. ASSUME NEW r \in Request, NEW where \in Quiet, Goto(p, where, r) PROVE Lands(p, Quiet)
  BY <1>4, GotoTyped DEF TypeInv, Lands, Calm, Quiet, Places
<1> QED
  BY <1>1, <1>2, <1>3, <1>4, CalmIsQuiet

LEMMA CalmSteps ==
  ASSUME TypeInv, TypeInv', CountsFollow, NEW p \in Proc
  PROVE  /\ PasswordStep(p) => LoginGates(p) \/ WrongPassword(p) \/ Lands(p, Calm)
         /\ AddressStep(p) => Lands(p, Calm)
         /\ MfaStep(p) => \/ SetupSecret(p) \/ MfaEnable(p) \/ (\E right \in BOOLEAN : EnableCompare(p, right))
                          \/ (\E c \in DOMAIN codes : RecoveryCode(p, c))
                          \/ Lands(p, Calm)
         /\ PasskeyStep(p) => (\E t \in Token, n \in 0..MaxCount : PasskeyAssert(p, t, n)) \/ Lands(p, Calm)
         /\ IssueTokenPair(p) \/ Fail(p) => Lands(p, Calm)
<1>0. req[p] \in Request /\ Idle \in Request /\ Seen(row) \in Snapshot
  BY Shapes
<1>1. ASSUME PasswordStep(p) PROVE LoginGates(p) \/ WrongPassword(p) \/ Lands(p, Calm)
  <2>1. CASE RightPassword(p)
    <3> DEFINE r == [req[p] EXCEPT !.via = "password", !.row = Seen(row)]
    <3>1. r \in Request
      BY <1>0 DEF Request, Via, FirstFactor
    <3>2. Reply(p) \/ StepUp(p, r)
      BY <2>1 DEF RightPassword
    <3> HIDE DEF r
    <3> QED
      BY <3>1, <3>2, StepUpCases, Landing DEF Calm
  <2>2. CASE ChangePassword(p)
    <3>1. Seen(row') \in Snapshot
      BY SeenTyped DEF TypeInv, TypeOK
    <3>2. [Idle EXCEPT !.via = "change", !.row = Seen(row')] \in Request
      BY <3>1, Shapes DEF Via
    <3> QED
      BY <2>2, <3>2, Landing DEF ChangePassword, Calm
  <2>3. CASE LoginRefused(p) \/ RecordFailure(p) \/ ClearLockout(p) \/ Forgot(p) \/ \E t \in Token : ResetPassword(p, t)
    BY <2>3, Landing DEF LoginRefused, RecordFailure, ClearLockout, Forgot, ResetPassword
  <2> QED
    BY <1>1, <2>1, <2>2, <2>3 DEF PasswordStep
<1>2. ASSUME AddressStep(p) PROVE Lands(p, Calm)
  <2>1. ASSUME NEW t \in Token, NEW purpose, NEW via \in {"magic", "sms"}, Possession(p, t, purpose, via)
        PROVE  Lands(p, Calm)
    <3>1. Seen(row') \in Snapshot
      BY SeenTyped DEF TypeInv, TypeOK
    <3>2. [Idle EXCEPT !.via = via, !.row = Seen(row')] \in Request
      BY <3>1, Shapes DEF Via, FirstFactor
    <3>3. Reply(p) \/ Goto(p, "issue", [Idle EXCEPT !.via = via, !.row = Seen(row')])
      BY <2>1 DEF Possession
    <3> QED
      BY <3>2, <3>3, Landing DEF Calm
  <2>2. CASE LdapLogin(p)
    <3> DEFINE x == IF row.status # "absent" THEN row ELSE [Absent EXCEPT !.status = "active"]
               r == [Idle EXCEPT !.via = "ldap", !.row = Seen(x)]
    <3>1. x \in Row
      BY IdleTyped DEF TypeInv, TypeOK, Row
    <3>2. r \in Request
      BY <3>1, SeenTyped, Shapes DEF Via, FirstFactor
    <3>3. StepUp(p, r)
      BY <2>2 DEF LdapLogin
    <3> HIDE DEF x, r
    <3> QED
      BY <3>2, <3>3, StepUpCases, Landing DEF Calm
  <2>3. CASE Register(p) \/ VerifyEmailRequest(p) \/ MagicRequest(p) \/ SmsRequest(p) \/ \E t \in Token : VerifyEmail(p, t)
    BY <2>3, Landing DEF Register, VerifyEmailRequest, MagicRequest, SmsRequest, VerifyEmail
  <2> QED
    BY <1>2, <2>1, <2>2, <2>3 DEF AddressStep, MagicConsume, SmsVerify
<1>3. ASSUME MfaStep(p)
      PROVE  \/ SetupSecret(p) \/ MfaEnable(p) \/ (\E right \in BOOLEAN : EnableCompare(p, right))
             \/ (\E c \in DOMAIN codes : RecoveryCode(p, c))
             \/ Lands(p, Calm)
  <2>1. CASE TotpCode(p) \/ BurnCode(p) \/ StepUpDone(p) \/ EnableWrite(p)
    <3>1. /\ [req[p] EXCEPT !.via = "totp"] \in Request /\ [req[p] EXCEPT !.n = 0] \in Request
          /\ [req[p] EXCEPT !.row = Seen(row)] \in Request
      BY <1>0 DEF Request, Via
    <3> QED
      BY <2>1, <3>1, Landing DEF TotpCode, BurnCode, StepUpDone, EnableWrite, Calm
  <2>2. CASE MfaSetup(p) \/ MfaDisable(p) \/ \E t \in Token : MfaVerify(p, t)
    <3>1. \A v \in {"bearer", "wizard"} : [Idle EXCEPT !.via = v] \in Request
      BY Shapes DEF Via
    <3> QED
      BY <1>0, <2>2, <3>1, Landing DEF MfaSetup, MfaDisable, MfaVerify, Calm
  <2>3. CASE SetupCodes(p) \/ DisableCodes(p) \/ WrongCode(p)
    BY <2>3, Landing DEF SetupCodes, DisableCodes, WrongCode
  <2> QED
    BY <1>3, <2>1, <2>2, <2>3 DEF MfaStep
<1>4. ASSUME PasskeyStep(p)
      PROVE  (\E t \in Token, n \in 0..MaxCount : PasskeyAssert(p, t, n)) \/ Lands(p, Calm)
  <2>1. CASE PasskeyLogin(p)
    <3> DEFINE r == [req[p] EXCEPT !.row = Seen(row), !.n = 0, !.base = NoPasskey]
    <3>1. r \in Request
      BY Shapes
    <3>2. Reply(p) \/ StepUp(p, r)
      BY <2>1 DEF PasskeyLogin
    <3> HIDE DEF r
    <3> QED
      BY <3>1, <3>2, StepUpCases, Landing DEF Calm
  <2>2. CASE PasskeyOptions(p) \/ PasskeyDelete(p) \/ \E t \in Token : PasskeyRegister(p, t)
    BY <2>2, Landing DEF PasskeyOptions, PasskeyDelete, PasskeyRegister
  <2> QED
    BY <1>4, <2>1, <2>2 DEF PasskeyStep
<1>5. ASSUME IssueTokenPair(p) \/ Fail(p) PROVE Lands(p, Calm)
  <2>1. Reply(p) \/ Goto(p, "clear", req[p])
    BY <1>5 DEF IssueTokenPair, Fail
  <2> QED
    BY <1>0, <2>1, Landing DEF Calm
<1> QED
  BY <1>1, <1>2, <1>3, <1>4, <1>5

LEMMA ReadGoes ==
  ASSUME NEW p \in Proc, NEW t \in Token, Read(p, t)
  PROVE  ReadingOf(t) \in Request /\ Goto(p, "reading", ReadingOf(t))
  BY ReadingTyped DEF Read, ReadingOf

LEMMA QuietSteps ==
  ASSUME TypeInv, TypeInv', CountsFollow, NEW p \in Proc
  PROVE  /\ PasswordStep(p) => LoginGates(p) \/ WrongPassword(p) \/ Lands(p, Quiet)
         /\ AddressStep(p) => Lands(p, Quiet)
         /\ MfaStep(p) => \/ SetupSecret(p) \/ MfaEnable(p) \/ (\E right \in BOOLEAN : EnableCompare(p, right))
                          \/ (\E c \in DOMAIN codes : RecoveryCode(p, c))
                          \/ Lands(p, Quiet)
         /\ PasskeyStep(p) => (\E t \in Token, n \in 0..MaxCount : PasskeyAssert(p, t, n)) \/ Lands(p, Quiet)
         /\ IssueTokenPair(p) \/ Fail(p) \/ (\E t \in Token : Read(p, t)) => Lands(p, Quiet)
<1>1. ASSUME NEW t \in Token, Read(p, t) PROVE Lands(p, Quiet)
  BY <1>1, ReadGoes, Landing DEF Calm, Quiet
<1> QED
  BY <1>1, CalmSteps, CalmIsQuiet

\* The other steps move no request.
LEMMA StillSteps ==
  ASSUME NewCaptcha \/ WrongCaptcha \/ SetTenant \/ SetRedis \/ UNCHANGED vars
           \/ (\E t \in Token : Waste(t))
           \/ (\E s \in {"active", "suspended"} : SetStatus(s))
           \/ \E h \in {Redis} \cup Proc : WindowEnds(h)
  PROVE  UNCHANGED <<req, site, codes, passkey, mfaHistory>>
  BY DEF NewCaptcha, WrongCaptcha, SetTenant, SetRedis, SetStatus, WindowEnds, Waste, account, mfaHistory, vars

LEMMA TypeStep == TypeInv /\ CountsFollow /\ [Next]_vars => TypeInv'
<1> SUFFICES ASSUME TypeInv, CountsFollow, [Next]_vars PROVE TypeInv'
  OBVIOUS
<1>1. ASSUME NEW p \in Proc, PasswordStep(p) \/ AddressStep(p) \/ MfaStep(p) \/ PasskeyStep(p) PROVE TypeInv'
  BY <1>1, PasswordTyped, AddressTyped, MfaTyped, PasskeyTyped
<1>2. ASSUME NEW p \in Proc, IssueTokenPair(p) PROVE TypeInv'
  <2>1. req[p] \in Request /\ TypeOK
    BY DEF TypeInv, TypeOK
  <2> QED
    BY <1>2, <2>1, ReplyTyped, GotoTyped DEF IssueTokenPair, Places, TypeInv, TypeOK, account, lockout
<1>3. ASSUME NEW p \in Proc, Fail(p) \/ \E t \in Token : Read(p, t) PROVE TypeInv'
  <2>1. ASSUME NEW t \in Token, Read(p, t) PROVE TypeInv'
    <3>1. ReadingOf(t) \in Request /\ Goto(p, "reading", ReadingOf(t))
      BY <2>1, ReadingTyped DEF Read, ReadingOf
    <3> QED
      BY <2>1, <3>1, GotoTyped DEF Read, Places, TypeInv, TypeOK, account, lockout
  <2> QED
    BY <1>3, <2>1, ReplyTyped DEF Fail, TypeInv, TypeOK, account
<1>4. ASSUME NEW t \in Token, Waste(t) PROVE TypeInv'
  BY <1>4 DEF Waste, Burn, TypeInv, TypeOK, account, lockout
<1>5. ASSUME NEW s \in {"active", "suspended"}, SetStatus(s) PROVE TypeInv'
  BY <1>5 DEF SetStatus, Row, TypeInv, TypeOK, lockout
<1>6. ASSUME NEW h \in {Redis} \cup Proc, WindowEnds(h) PROVE TypeInv'
  BY <1>6 DEF WindowEnds, TypeInv, TypeOK, account
<1>7. CASE NewCaptcha \/ WrongCaptcha \/ SetTenant \/ SetRedis \/ UNCHANGED vars
  BY <1>7 DEF NewCaptcha, WrongCaptcha, SetTenant, SetRedis, vars, TypeInv, TypeOK, account, lockout
<1> QED
  BY <1>1, <1>2, <1>3, <1>4, <1>5, <1>6, <1>7 DEF Next

LEMMA CountsStep == TypeInv /\ TypeInv' /\ CountsFollow /\ [Next]_vars => CountsFollow'
<1> SUFFICES ASSUME TypeInv, TypeInv', CountsFollow, [Next]_vars PROVE CountsFollow'
  OBVIOUS
<1>1. ASSUME NEW p \in Proc, Lands(p, Quiet) PROVE CountsFollow'
  BY <1>1 DEF Lands, Calm, Quiet, CountsFollow, At
<1>2. ASSUME NEW p \in Proc, NEW where \in Places \ {"counter"}, req'[p].at = where,
             \A q \in Proc \ {p} : req'[q] = req[q]
      PROVE  CountsFollow'
  BY <1>2 DEF Places, CountsFollow, At
<1>3. ASSUME NEW p \in Proc,
             \/ LoginGates(p) \/ WrongPassword(p) \/ SetupSecret(p) \/ MfaEnable(p)
             \/ (\E right \in BOOLEAN : EnableCompare(p, right))
             \/ \E c \in DOMAIN codes : RecoveryCode(p, c)
      PROVE  CountsFollow'
  <2>1. \/ Reply(p)
        \/ \E r : \E where \in Places \ {"counter"} : Goto(p, where, r)
    BY <1>3 DEF LoginGates, WrongPassword, SetupSecret, MfaEnable, EnableCompare, RecoveryCode, Places
  <2>2. \/ req'[p].at \in Places \ {"counter"} /\ \A q \in Proc \ {p} : req'[q] = req[q]
    BY <2>1 DEF Reply, Goto, Idle, Places, TypeInv, TypeOK, Request
  <2> QED
    BY <1>2, <2>2
<1>4. ASSUME NEW p \in Proc, NEW t \in Token, NEW n \in 0..MaxCount, PasskeyAssert(p, t, n) PROVE CountsFollow'
  <2> DEFINE r == [Idle EXCEPT !.via = "passkey", !.n = n, !.base = passkey]
  <2>0. r \in Request /\ r.via = "passkey" /\ r.n = n /\ r.base = passkey
    BY AssertTyped DEF TypeInv, TypeOK, Idle
  <2>1. Goto(p, "counter", r) /\ ~Regressed(passkey, n) /\ passkey \in 0..MaxCount
    BY <1>4 DEF PasskeyAssert, TypeInv, TypeOK
  <2> HIDE DEF r
  <2> QED
    BY <2>0, <2>1, GotoTyped DEF CountsFollow, At, Places, TypeInv
<1>5. ASSUME UNCHANGED req PROVE CountsFollow'
  BY <1>5 DEF CountsFollow, At
<1> QED
  BY <1>1, <1>3, <1>4, <1>5, QuietSteps, StillSteps DEF Next

-----------------------------------------------------------------------------
(* Confirmed secrets *)

\* A request that has compared a code holds a secret that was confirmed; it is still the
\* account's unless a setup or a disable came in between.  Who enrols has an account.
SecretsAreShown ==
  /\ EnabledMeansConfirmed
  /\ \A p \in Proc :
       /\ At(p, "enable") \/ At(p, "confirm") => row.status # "absent"
       /\ At(p, "confirm") => req[p].n \in confirmed /\ (~raced => row.secret = req[p].n)

\* What steps around the enrollment may do to the row.
Bystanding ==
  /\ UNCHANGED <<confirmed, raced>>
  /\ \/ /\ row'.secret = row.secret /\ row'.totp = row.totp
        /\ row.status # "absent" => row'.status # "absent"
     \/ row.status = "absent" /\ ~row'.totp

LEMMA BystandingKeeps ==
  ASSUME TypeInv, SecretsAreShown, Bystanding
  PROVE  /\ \A p \in Proc : Lands(p, Quiet) => SecretsAreShown'
         /\ \A p \in Proc, where \in Places \ {"enable", "confirm"}, r \in Request :
              Goto(p, where, r) => SecretsAreShown'
         /\ UNCHANGED req => SecretsAreShown'
<1>1. ASSUME NEW p \in Proc, Lands(p, Quiet) PROVE SecretsAreShown'
  <2>1. \A q \in Proc : req'[q].at \in {"enable", "confirm"} => req'[q] = req[q]
    BY <1>1 DEF Lands, Calm, Quiet
  <2> QED
    BY <2>1 DEF Bystanding, SecretsAreShown, EnabledMeansConfirmed, At
<1>2. ASSUME NEW p \in Proc, NEW where \in Places \ {"enable", "confirm"}, NEW r \in Request, Goto(p, where, r)
      PROVE  SecretsAreShown'
  <2>1. \A q \in Proc : req'[q].at \in {"enable", "confirm"} => req'[q] = req[q]
    BY <1>2, GotoTyped DEF TypeInv, Places
  <2> QED
    BY <2>1 DEF Bystanding, SecretsAreShown, EnabledMeansConfirmed, At
<1>3. ASSUME UNCHANGED req PROVE SecretsAreShown'
  BY <1>3 DEF Bystanding, SecretsAreShown, EnabledMeansConfirmed, At
<1> QED
  BY <1>1, <1>2, <1>3

LEMMA RowWrites ==
  ASSUME TypeInv, NEW b \in BOOLEAN, NEW s
  PROVE  /\ row' = [row EXCEPT !.must = b] \/ row' = [row EXCEPT !.verified = b]
              => row'.secret = row.secret /\ row'.totp = row.totp /\ row'.status = row.status
         /\ row' = [row EXCEPT !.status = s] => row'.secret = row.secret /\ row'.totp = row.totp /\ row'.status = s
  BY DEF TypeInv, TypeOK, Row

LEMMA SecretsStep ==
  TypeInv /\ TypeInv' /\ CountsFollow /\ SecretsAreShown /\ [Next]_vars => SecretsAreShown'
<1> SUFFICES ASSUME TypeInv, TypeInv', CountsFollow, SecretsAreShown, [Next]_vars PROVE SecretsAreShown'
  OBVIOUS
<1>1. ASSUME NEW p \in Proc, PasswordStep(p) PROVE SecretsAreShown'
  <2>1. Bystanding
    BY <1>1, RowWrites
       DEF Bystanding, account, mfaHistory, PasswordStep, LoginGates, WrongPassword, LoginRefused, RightPassword,
           RecordFailure, ClearLockout, Forgot, ChangePassword, ResetPassword
  <2>2. ASSUME LoginGates(p) \/ WrongPassword(p) PROVE SecretsAreShown'
    <3>1. /\ Idle \in Request
          /\ [req[p] EXCEPT !.n = GetInt(p)] \in Request
      BY Shapes
    <3> QED
      BY <2>1, <2>2, <3>1, BystandingKeeps DEF LoginGates, WrongPassword, Places
  <2> QED
    BY <1>1, <2>1, <2>2, QuietSteps, BystandingKeeps
<1>2. ASSUME NEW p \in Proc, AddressStep(p) PROVE SecretsAreShown'
  <2>1. Bystanding
    <3>1. CASE Register(p)
      <4>1. row.status = "absent" /\ row'.totp = FALSE /\ UNCHANGED <<confirmed, raced>>
        BY <3>1 DEF Register, Absent, mfaHistory
      <4> QED
        BY <4>1 DEF Bystanding
    <3>2. CASE LdapLogin(p)
      <4>1. /\ UNCHANGED <<confirmed, raced>>
            /\ row' = row \/ (row.status = "absent" /\ row'.totp = FALSE)
        BY <3>2 DEF LdapLogin, Absent, mfaHistory
      <4> QED
        BY <4>1 DEF Bystanding
    <3>3. CASE VerifyEmailRequest(p) \/ MagicRequest(p) \/ SmsRequest(p)
      BY <3>3 DEF VerifyEmailRequest, MagicRequest, SmsRequest, account, mfaHistory, Bystanding
    <3>4. ASSUME NEW t \in Token, VerifyEmail(p, t) \/ MagicConsume(p, t) \/ SmsVerify(p, t) PROVE Bystanding
      BY <3>4, RowWrites DEF VerifyEmail, MagicConsume, SmsVerify, Possession, mfaHistory, Bystanding
    <3> QED
      BY <1>2, <3>1, <3>2, <3>3, <3>4 DEF AddressStep
  <2> QED
    BY <1>2, <2>1, QuietSteps, BystandingKeeps
<1>3. ASSUME NEW p \in Proc, MfaStep(p) PROVE SecretsAreShown'
  <2>1. CASE SetupSecret(p)
    <3>1. PICK s \in 1..MaxSecret : /\ row' = WithSecret(row, s)
                                    /\ raced' = (raced \/ \E q \in Proc : At(q, "confirm"))
                                    /\ Goto(p, "codes", [req[p] EXCEPT !.n = s])
                                    /\ UNCHANGED confirmed
      BY <2>1 DEF SetupSecret
    <3>a. 1..MaxSecret \subseteq Nat
      BY CountsAssumption
    <3>2. [req[p] EXCEPT !.n = s] \in Request
      BY <3>a, Shapes
    <3>3. row'.totp = FALSE /\ row'.status = row.status
      BY <3>1 DEF TypeInv, TypeOK, Row, WithSecret
    <3>4. \A q \in Proc : req'[q].at \in {"enable", "confirm"} => req'[q] = req[q]
      BY <3>1, <3>2, GotoTyped DEF TypeInv, Places
    <3> QED
      BY <3>1, <3>3, <3>4 DEF SecretsAreShown, EnabledMeansConfirmed, At
  <2>2. CASE MfaDisable(p)
    <3>1. /\ row'.totp = FALSE /\ row'.status = row.status
          /\ raced' = (raced \/ \E q \in Proc : At(q, "confirm"))
          /\ Goto(p, "wipe", Idle) /\ UNCHANGED confirmed
      BY <2>2 DEF MfaDisable, TypeInv, TypeOK, Row
    <3>4. \A q \in Proc : req'[q].at \in {"enable", "confirm"} => req'[q] = req[q]
      BY <3>1, IdleTyped, GotoTyped DEF TypeInv, Places
    <3> QED
      BY <3>1, <3>4 DEF SecretsAreShown, EnabledMeansConfirmed, At
  <2>3. CASE EnableWrite(p)
    <3>1. At(p, "confirm") /\ row'.secret = row.secret /\ row'.status = row.status /\ UNCHANGED <<confirmed, raced>>
      BY <2>3 DEF EnableWrite, mfaHistory, TypeInv, TypeOK, Row
    <3>2. Reply(p) \/ Goto(p, "issue", [req[p] EXCEPT !.n = 0])
      BY <2>3 DEF EnableWrite
    <3>3. [req[p] EXCEPT !.n = 0] \in Request
      BY Shapes
    <3>4. Lands(p, Quiet)
      BY <3>2, <3>3, Landing DEF Calm, Quiet
    <3>5. \A q \in Proc : req'[q].at \in {"enable", "confirm"} => req'[q] = req[q]
      BY <3>4 DEF Lands, Calm, Quiet
    <3> QED
      BY <3>1, <3>5 DEF SecretsAreShown, EnabledMeansConfirmed, At
  <2>4. CASE MfaEnable(p)
    <3>1. row.status # "absent" /\ UNCHANGED <<row, confirmed, raced>>
      BY <2>4 DEF MfaEnable, account, mfaHistory
    <3>2. PICK r \in Request : Goto(p, "enable", r)
      <4>1. /\ [Idle EXCEPT !.via = "bearer"] \in Request
            /\ [Idle EXCEPT !.via = "wizard", !.row = Seen(row)] \in Request
        BY Shapes DEF Via
      <4> QED
        BY <2>4, <4>1 DEF MfaEnable
    <3>3. req'[p].at = "enable" /\ \A q \in Proc \ {p} : req'[q] = req[q]
      BY <3>2, GotoTyped DEF TypeInv, Places
    <3> QED
      BY <3>1, <3>3 DEF SecretsAreShown, EnabledMeansConfirmed, At
  <2>5. ASSUME NEW right \in BOOLEAN, EnableCompare(p, right) PROVE SecretsAreShown'
    <3>1. At(p, "enable") /\ UNCHANGED <<row, raced>>
      BY <2>5 DEF EnableCompare, account
    <3>2. CASE Reply(p) /\ UNCHANGED confirmed
      BY <3>1, <3>2, ReplyTyped DEF SecretsAreShown, EnabledMeansConfirmed, At, Idle, TypeInv
    <3>3. CASE Goto(p, "confirm", [req[p] EXCEPT !.n = row.secret]) /\ confirmed' = confirmed \cup {row.secret}
      <4>0. req[p] \in Request /\ row.secret \in Nat
        BY Shapes
      <4>1. [req[p] EXCEPT !.n = row.secret] \in Request /\ [req[p] EXCEPT !.n = row.secret].n = row.secret
        BY <4>0, SetN
      <4>2. req'[p].at = "confirm" /\ req'[p].n = row.secret /\ \A q \in Proc \ {p} : req'[q] = req[q]
        BY <3>3, <4>1, GotoTyped DEF TypeInv, Places
      <4> QED
        BY <3>1, <3>3, <4>2 DEF SecretsAreShown, EnabledMeansConfirmed, At
    <3> QED
      BY <2>5, <3>2, <3>3 DEF EnableCompare
  <2>6. CASE \/ MfaSetup(p) \/ SetupCodes(p) \/ DisableCodes(p) \/ TotpCode(p) \/ WrongCode(p) \/ BurnCode(p)
             \/ StepUpDone(p) \/ (\E c \in DOMAIN codes : RecoveryCode(p, c)) \/ \E t \in Token : MfaVerify(p, t)
    <3>1. Bystanding
      BY <2>6 DEF Bystanding, MfaSetup, SetupCodes, DisableCodes, TotpCode, WrongCode, BurnCode, StepUpDone,
                  RecoveryCode, MfaVerify, account, mfaHistory
    <3>2. ASSUME NEW c \in DOMAIN codes, RecoveryCode(p, c) PROVE SecretsAreShown'
      <4>1. [req[p] EXCEPT !.via = "recovery", !.n = c] \in Request
        BY Shapes DEF Via
      <4> QED
        BY <3>1, <3>2, <4>1, BystandingKeeps DEF RecoveryCode, Places
    <3>3. ASSUME Lands(p, Quiet) PROVE SecretsAreShown'
      BY <3>1, <3>3, BystandingKeeps
    <3> QED
      BY <1>3, <2>1, <2>4, <2>5, <3>2, <3>3, QuietSteps
  <2> QED
    BY <1>3, <2>1, <2>2, <2>3, <2>4, <2>5, <2>6 DEF MfaStep
<1>4. ASSUME NEW p \in Proc, PasskeyStep(p) PROVE SecretsAreShown'
  <2>1. Bystanding
    BY <1>4 DEF Bystanding, PasskeyStep, PasskeyOptions, PasskeyLogin, PasskeyDelete, PasskeyRegister, PasskeyAssert,
                account, mfaHistory
  <2>2. ASSUME NEW t \in Token, NEW n \in 0..MaxCount, PasskeyAssert(p, t, n) PROVE SecretsAreShown'
    <3>1. [Idle EXCEPT !.via = "passkey", !.n = n, !.base = passkey] \in Request
      BY AssertTyped DEF TypeInv, TypeOK
    <3> QED
      BY <2>1, <2>2, <3>1, BystandingKeeps DEF PasskeyAssert, Places
  <2> QED
    BY <1>4, <2>1, <2>2, QuietSteps, BystandingKeeps
<1>5. ASSUME NEW p \in Proc, IssueTokenPair(p) \/ Fail(p) \/ \E t \in Token : Read(p, t) PROVE SecretsAreShown'
  <2>1. Bystanding
    BY <1>5 DEF Bystanding, IssueTokenPair, Fail, Read, account, mfaHistory
  <2> QED
    BY <1>5, <2>1, QuietSteps, BystandingKeeps
<1>6. ASSUME NEW s \in {"active", "suspended"}, SetStatus(s) PROVE SecretsAreShown'
  BY <1>6, RowWrites, BystandingKeeps DEF SetStatus, mfaHistory, Bystanding
<1>7. CASE \/ NewCaptcha \/ WrongCaptcha \/ SetTenant \/ SetRedis \/ UNCHANGED vars
           \/ (\E t \in Token : Waste(t)) \/ \E h \in {Redis} \cup Proc : WindowEnds(h)
  BY <1>7, BystandingKeeps
     DEF NewCaptcha, WrongCaptcha, SetTenant, SetRedis, Waste, WindowEnds, account, mfaHistory, Bystanding, vars
<1> QED
  BY <1>1, <1>2, <1>3, <1>4, <1>5, <1>6, <1>7 DEF Next

-----------------------------------------------------------------------------
(* Recovery codes *)

\* A code whose use is recorded is used; a request about to record one names a code that is
\* there, and one about to write a batch has that batch to itself.
SpentAreUsed ==
  /\ \A c \in spent : c \in 1..MaxSecret /\ codes[c] = "used"
  /\ \A p \in Proc :
       /\ At(p, "burn") => req[p].n \in 1..MaxSecret /\ codes[req[p].n] # "none"
       /\ At(p, "codes") => req[p].n \in 1..MaxSecret /\ codes[req[p].n] = "none"
  /\ \A p, q \in Proc : At(p, "codes") /\ At(q, "codes") /\ req[p].n = req[q].n => p = q

\* What the steps that write no code may do.
LEMMA CodesKept ==
  ASSUME TypeInv, SpentAreUsed, UNCHANGED <<codes, spent>>
  PROVE  /\ \A p \in Proc : Lands(p, Quiet) => SpentAreUsed'
         /\ \A p \in Proc, where \in Places \ {"burn", "codes"}, r \in Request : Goto(p, where, r) => SpentAreUsed'
         /\ UNCHANGED req => SpentAreUsed'
<1>1. ASSUME \A q \in Proc : req'[q].at \in {"burn", "codes"} => req'[q] = req[q] PROVE SpentAreUsed'
  BY <1>1 DEF SpentAreUsed, At
<1>2. ASSUME NEW p \in Proc, Lands(p, Quiet) PROVE SpentAreUsed'
  BY <1>1, <1>2 DEF Lands, Calm, Quiet
<1>3. ASSUME NEW p \in Proc, NEW where \in Places \ {"burn", "codes"}, NEW r \in Request, Goto(p, where, r)
      PROVE  SpentAreUsed'
  BY <1>1, <1>3, GotoTyped DEF TypeInv, Places
<1> QED
  BY <1>1, <1>2, <1>3

LEMMA SpentStep ==
  TypeInv /\ TypeInv' /\ CountsFollow /\ SpentAreUsed /\ [Next]_vars => SpentAreUsed'
<1> SUFFICES ASSUME TypeInv, TypeInv', CountsFollow, SpentAreUsed, [Next]_vars PROVE SpentAreUsed'
  OBVIOUS
<1>0. codes \in [1..MaxSecret -> {"none", "unused", "used"}]
  BY DEF TypeInv, TypeOK
<1>1. ASSUME NEW p \in Proc, PasswordStep(p) PROVE SpentAreUsed'
  <2>1. UNCHANGED <<codes, spent>>
    BY <1>1 DEF account, mfaHistory, PasswordStep, LoginGates, WrongPassword, LoginRefused, RightPassword,
                RecordFailure, ClearLockout, Forgot, ChangePassword, ResetPassword
  <2>2. ASSUME LoginGates(p) \/ WrongPassword(p) PROVE SpentAreUsed'
    <3>1. Idle \in Request /\ [req[p] EXCEPT !.n = GetInt(p)] \in Request
      BY Shapes
    <3> QED
      BY <2>1, <2>2, <3>1, CodesKept DEF LoginGates, WrongPassword, Places
  <2> QED
    BY <1>1, <2>1, <2>2, QuietSteps, CodesKept
<1>2. ASSUME NEW p \in Proc, AddressStep(p) PROVE SpentAreUsed'
  <2>1. UNCHANGED <<codes, spent>>
    BY <1>2 DEF AddressStep, Register, VerifyEmailRequest, MagicRequest, SmsRequest, LdapLogin,
                VerifyEmail, MagicConsume, SmsVerify, Possession, account, mfaHistory
  <2> QED
    BY <1>2, <2>1, QuietSteps, CodesKept
<1>3. ASSUME NEW p \in Proc, MfaStep(p) PROVE SpentAreUsed'
  <2>1. CASE SetupSecret(p)
    <3>1. PICK s \in 1..MaxSecret : /\ codes[s] = "none" /\ \A q \in Proc : At(q, "codes") => req[q].n # s
                                    /\ Goto(p, "codes", [req[p] EXCEPT !.n = s])
                                    /\ UNCHANGED <<codes, spent>>
      BY <2>1 DEF SetupSecret
    <3>b. s \in Nat /\ TypeOK /\ "codes" \in Places
      BY CountsAssumption DEF TypeInv, Places
    <3>c. req[p] \in Request
      BY Shapes
    <3>a. s \in Nat /\ req[p] \in Request /\ TypeOK /\ "codes" \in Places
      BY <3>b, <3>c
    <3>2. [req[p] EXCEPT !.n = s] \in Request /\ [req[p] EXCEPT !.n = s].n = s
      BY <3>a, SetN
    <3>3. req'[p].at = "codes" /\ req'[p].n = s /\ \A q \in Proc \ {p} : req'[q] = req[q]
      BY <3>1, <3>2, <3>a, GotoTyped, ZenonT(60)
    <3> QED
      BY <3>1, <3>3 DEF SpentAreUsed, At
  <2>2. CASE SetupCodes(p)
    <3>1. /\ At(p, "codes") /\ codes' = [codes EXCEPT ![req[p].n] = "unused"] /\ UNCHANGED spent
          /\ Reply(p)
      BY <2>2 DEF SetupCodes, mfaHistory
    <3>2. req[p].n \in 1..MaxSecret /\ codes[req[p].n] = "none"
      BY <3>1 DEF SpentAreUsed
    <3>3. codes'[req[p].n] = "unused" /\ \A c \in 1..MaxSecret : c # req[p].n => codes'[c] = codes[c]
      BY <1>0, <3>1, <3>2
    <3>4. req'[p].at = "idle" /\ \A q \in Proc \ {p} : req'[q] = req[q]
      BY <3>1, ReplyTyped DEF TypeInv, Idle
    <3> QED
      BY <3>1, <3>2, <3>3, <3>4 DEF SpentAreUsed, At
  <2>3. CASE DisableCodes(p)
    <3>1. /\ UNCHANGED spent
          /\ \A c \in 1..MaxSecret : codes'[c] = IF codes[c] = "none" THEN "none" ELSE "used"
      BY <1>0, <2>3 DEF DisableCodes, mfaHistory
    <3>2. req'[p].at = "idle" /\ \A q \in Proc \ {p} : req'[q] = req[q]
      BY <2>3, ReplyTyped DEF DisableCodes, TypeInv, Idle
    <3> QED
      BY <3>1, <3>2 DEF SpentAreUsed, At
  <2>4. CASE BurnCode(p)
    <3>1. /\ At(p, "burn") /\ codes' = Burned(req[p].n) /\ spent' = spent \cup {req[p].n}
          /\ Goto(p, "second", [req[p] EXCEPT !.n = 0])
      BY <2>4 DEF BurnCode
    <3>2. req[p].n \in 1..MaxSecret /\ codes[req[p].n] # "none"
      BY <3>1 DEF SpentAreUsed
    <3>3. codes'[req[p].n] = "used" /\ \A c \in 1..MaxSecret : c # req[p].n => codes'[c] = codes[c]
      BY <1>0, <3>1, <3>2 DEF Burned
    <3>4. [req[p] EXCEPT !.n = 0] \in Request
      BY Shapes
    <3>5. req'[p].at = "second" /\ \A q \in Proc \ {p} : req'[q] = req[q]
      BY <3>1, <3>4, GotoTyped DEF TypeInv, Places
    <3> QED
      BY <3>1, <3>2, <3>3, <3>5 DEF SpentAreUsed, At
  <2>5. ASSUME NEW c \in DOMAIN codes, RecoveryCode(p, c) PROVE SpentAreUsed'
    <3>1. /\ codes[c] = "unused" /\ Goto(p, "burn", [req[p] EXCEPT !.via = "recovery", !.n = c])
          /\ UNCHANGED <<codes, spent>>
      BY <2>5 DEF RecoveryCode, account, mfaHistory
    <3>2. c \in 1..MaxSecret /\ c \in Nat
      BY <1>0, Shapes
    <3>a. req[p] \in Request
      BY Shapes
    <3>b. "recovery" \in Via /\ TypeOK /\ "burn" \in Places
      BY DEF Via, TypeInv, Places
    <3> DEFINE r == [req[p] EXCEPT !.via = "recovery", !.n = c]
    <3>e. c \in Nat /\ "recovery" \in Via
      BY <3>2, <3>b
    <3>f. r \in Request
      BY <3>a, <3>e, SetTwo
    <3>g. r.n = c
      BY <3>a DEF Request
    <3>3. r \in Request /\ r.n = c
      BY <3>f, <3>g
    <3>d. Goto(p, "burn", r)
      BY <3>1
    <3> HIDE DEF r
    <3>4. req'[p].at = "burn" /\ req'[p].n = c /\ \A q \in Proc \ {p} : req'[q] = req[q]
      BY <3>d, <3>3, <3>b, GotoTyped
    <3> QED
      BY <3>1, <3>2, <3>4 DEF SpentAreUsed, At
  <2>6. CASE \/ MfaSetup(p) \/ MfaEnable(p) \/ EnableWrite(p) \/ MfaDisable(p) \/ TotpCode(p) \/ WrongCode(p)
             \/ StepUpDone(p) \/ (\E right \in BOOLEAN : EnableCompare(p, right)) \/ \E t \in Token : MfaVerify(p, t)
    <3>1. UNCHANGED <<codes, spent>>
      BY <2>6 DEF MfaSetup, MfaEnable, EnableWrite, MfaDisable, TotpCode, WrongCode, StepUpDone, EnableCompare,
                  MfaVerify, account, mfaHistory
    <3>2. CASE MfaEnable(p) \/ \E right \in BOOLEAN : EnableCompare(p, right)
      <4>1. /\ [Idle EXCEPT !.via = "bearer"] \in Request
            /\ [Idle EXCEPT !.via = "wizard", !.row = Seen(row)] \in Request
            /\ [req[p] EXCEPT !.n = row.secret] \in Request
        BY Shapes DEF Via
      <4>2. Reply(p) \/ \E where \in Places \ {"burn", "codes"}, r \in Request : Goto(p, where, r)
        BY <3>2, <4>1 DEF MfaEnable, EnableCompare, Places
      <4> QED
        BY <3>1, <4>2, Landing, CodesKept
    <3> QED
      BY <1>3, <2>1, <2>5, <3>1, <3>2, QuietSteps, CodesKept
  <2> QED
    BY <1>3, <2>1, <2>2, <2>3, <2>4, <2>5, <2>6 DEF MfaStep
<1>4. ASSUME NEW p \in Proc, PasskeyStep(p) PROVE SpentAreUsed'
  <2>1. UNCHANGED <<codes, spent>>
    BY <1>4 DEF PasskeyStep, PasskeyOptions, PasskeyLogin, PasskeyDelete, PasskeyRegister, PasskeyAssert,
                account, mfaHistory
  <2>2. ASSUME NEW t \in Token, NEW n \in 0..MaxCount, PasskeyAssert(p, t, n) PROVE SpentAreUsed'
    <3>1. [Idle EXCEPT !.via = "passkey", !.n = n, !.base = passkey] \in Request
      BY AssertTyped DEF TypeInv, TypeOK
    <3> QED
      BY <2>1, <2>2, <3>1, CodesKept DEF PasskeyAssert, Places
  <2> QED
    BY <1>4, <2>1, <2>2, QuietSteps, CodesKept
<1>5. ASSUME NEW p \in Proc, IssueTokenPair(p) \/ Fail(p) \/ \E t \in Token : Read(p, t) PROVE SpentAreUsed'
  <2>1. UNCHANGED <<codes, spent>>
    BY <1>5 DEF IssueTokenPair, Fail, Read, account, mfaHistory
  <2> QED
    BY <1>5, <2>1, QuietSteps, CodesKept
<1>6. ASSUME UNCHANGED <<req, codes, mfaHistory>> PROVE SpentAreUsed'
  BY <1>6, CodesKept DEF mfaHistory
<1> QED
  BY <1>1, <1>2, <1>3, <1>4, <1>5, <1>6, StillSteps DEF Next

\* A request accepts a recovery code only while the code is unused.
LEMMA BurnsAreFresh ==
  ASSUME TypeInv, TypeInv', CountsFollow, SpentAreUsed, [Next]_vars, NEW p \in Proc,
         ~At(p, "burn"), req'[p].at = "burn"
  PROVE  req'[p].n \notin spent
<1>1. ASSUME NEW q \in Proc, Lands(q, Quiet) PROVE FALSE
  BY <1>1 DEF Lands, Calm, Quiet, At
<1>2. ASSUME NEW q \in Proc, Reply(q) \/ \E r : \E where \in Places \ {"burn"} : Goto(q, where, r) PROVE FALSE
  <2>1. req'[q].at # "burn" /\ \A x \in Proc \ {q} : req'[x] = req[x]
    BY <1>2 DEF Reply, Goto, Idle, Places, TypeInv, TypeOK, Request
  <2> QED
    BY <2>1 DEF At
<1>3. ASSUME NEW q \in Proc, LoginGates(q) \/ WrongPassword(q) \/ SetupSecret(q) \/ MfaEnable(q)
                             \/ (\E right \in BOOLEAN : EnableCompare(q, right))
                             \/ \E t \in Token, n \in 0..MaxCount : PasskeyAssert(q, t, n)
      PROVE  FALSE
  <2>1. Reply(q) \/ \E r : \E where \in Places \ {"burn"} : Goto(q, where, r)
    BY <1>3 DEF LoginGates, WrongPassword, SetupSecret, MfaEnable, EnableCompare, PasskeyAssert, Places
  <2> QED
    BY <1>2, <2>1
<1>4. ASSUME NEW q \in Proc, NEW c \in DOMAIN codes, RecoveryCode(q, c) PROVE req'[p].n \notin spent
  <2> DEFINE r == [req[q] EXCEPT !.via = "recovery", !.n = c]
  <2>1. codes[c] = "unused" /\ Goto(q, "burn", r)
    BY <1>4 DEF RecoveryCode
  <2>2. c \in Nat /\ req[q] \in Request
    BY Shapes
  <2>3. r \in Request /\ r.n = c
    BY <2>2 DEF Request, Via
  <2> HIDE DEF r
  <2>4. req'[q].n = c /\ \A x \in Proc \ {q} : req'[x] = req[x]
    BY <2>1, <2>3, GotoTyped DEF TypeInv, Places
  <2>5. p = q
    BY <2>4 DEF At
  <2> QED
    BY <2>1, <2>4, <2>5 DEF SpentAreUsed
<1>5. ASSUME UNCHANGED req PROVE FALSE
  BY <1>5 DEF At
<1> QED
  BY <1>1, <1>3, <1>4, <1>5, QuietSteps, StillSteps DEF Next

\* No other request moves than p, which has not just read a token.
Settles(p) ==
  /\ \A q \in Proc \ {p} : req'[q] = req[q]
  /\ req' = req \/ req'[p].at # "reading"

\* The same, and p holds no token afterwards.
Leaves(p) ==
  /\ \A q \in Proc \ {p} : req'[q] = req[q]
  /\ req'[p].at # "reading"

\* A token is honoured for a request that has just come, or that has read it.
LEMMA HoldersWait ==
  ASSUME NEW p, NEW t, NEW purpose,
         Consume(p, t, purpose) \/ \E next : Exchange(p, t, purpose, next)
  PROVE  At(p, "idle") \/ At(p, "reading")
  BY DEF Consume, Exchange, Held

LEMMA HoldersAreElsewhere ==
  \A p, t, purpose : Consume(p, t, purpose) \/ (\E next : Exchange(p, t, purpose, next))
                       => ~At(p, "strike") /\ ~At(p, "counter")
  BY HoldersWait DEF At

-----------------------------------------------------------------------------
(* The counter of a passkey *)

\* Only a passkey login writes it over an earlier one, and what it writes follows what it read.
LEMMA CounterStep ==
  ASSUME TypeInv, TypeInv', CountsFollow, [Next]_vars, NEW p \in Proc,
         At(p, "counter"), req'[p] # req[p], passkey' # passkey, passkey' # NoPasskey
  PROVE  passkey' > passkey \/ req[p].base # passkey
<1>1. ASSUME NEW q \in Proc, PasswordStep(q) \/ AddressStep(q) \/ MfaStep(q) \/ IssueTokenPair(q) \/ Fail(q)
                               \/ \E t \in Token : Read(q, t)
      PROVE  UNCHANGED passkey
  <2>1. CASE PasswordStep(q)
    BY <2>1 DEF account, PasswordStep, LoginGates, WrongPassword, LoginRefused, RightPassword,
                RecordFailure, ClearLockout, Forgot, ChangePassword, ResetPassword
  <2>2. CASE AddressStep(q)
    BY <2>2 DEF AddressStep, Register, VerifyEmailRequest, MagicRequest, SmsRequest, LdapLogin,
                VerifyEmail, MagicConsume, SmsVerify, Possession, account
  <2>3. CASE MfaStep(q)
    BY <2>3 DEF MfaStep, MfaSetup, SetupSecret, SetupCodes, MfaEnable, EnableWrite, MfaDisable, DisableCodes,
                TotpCode, WrongCode, BurnCode, StepUpDone, EnableCompare, RecoveryCode, MfaVerify, account
  <2>4. CASE IssueTokenPair(q) \/ Fail(q) \/ \E t \in Token : Read(q, t)
    BY <2>4 DEF IssueTokenPair, Fail, Read, account
  <2> QED
    BY <1>1, <2>1, <2>2, <2>3, <2>4
<1>2. ASSUME NEW q \in Proc, PasskeyStep(q), ~PasskeyLogin(q) PROVE FALSE
  <2>1. UNCHANGED passkey \/ passkey = NoPasskey \/ passkey' = NoPasskey
    BY <1>2 DEF PasskeyStep, PasskeyOptions, PasskeyDelete, PasskeyRegister, PasskeyAssert, account
  <2>2. passkey = NoPasskey /\ \E t \in Token : PasskeyRegister(q, t)
    BY <1>2, <2>1 DEF PasskeyStep, PasskeyOptions, PasskeyDelete, PasskeyAssert, account
  <2>3. Leaves(q) /\ ~At(q, "counter")
    BY <2>2, HoldersAreElsewhere, ReplyTyped DEF PasskeyRegister, Leaves, Idle, TypeInv
  <2> QED
    BY <2>3 DEF Leaves, At
<1>3. ASSUME NEW q \in Proc, PasskeyLogin(q) PROVE passkey' > passkey \/ req[p].base # passkey
  <2>1. Lands(q, Quiet) /\ At(q, "counter") /\ passkey' = req[q].n
    <3>1. PasskeyStep(q) /\ At(q, "counter") /\ passkey' = req[q].n
      BY <1>3 DEF PasskeyStep, PasskeyLogin
    <3>2. ~\E t \in Token, n \in 0..MaxCount : PasskeyAssert(q, t, n)
      BY <3>1, HoldersAreElsewhere DEF PasskeyAssert
    <3> QED
      BY <3>1, <3>2, QuietSteps
  <2>2. p = q
    BY <2>1 DEF Lands
  <2>3. req[p].n \in 0..MaxCount /\ req[p].base \in 0..MaxCount /\ ~Regressed(req[p].base, req[p].n)
    BY <2>1, <2>2 DEF CountsFollow
  <2> QED
    BY <2>1, <2>2, <2>3, CountsAssumption DEF Regressed
<1> QED
  BY <1>1, <1>2, <1>3, StillSteps DEF Next

-----------------------------------------------------------------------------
(* Lockout *)

Those(f, where) == {q \in Proc : f[q].at = where}

\* Where Redis always answers: every wrong password is in the counter or about to be, and
\* those compared or about to be are no more than the threshold allows.
FailuresAreCounted ==
  /\ guesses \in Int
  /\ ~site.outages => /\ up
                      /\ guesses <= fails[Redis] + Cardinality(Those(req, "strike"))
                      /\ guesses + Cardinality(Those(req, "password")) <= MaxFailures - 1 + Cardinality(Proc)

LEMMA ThoseCounted ==
  ASSUME IsFiniteSet(Proc), NEW f \in [Proc -> Request]
  PROVE  /\ \A where : Cardinality(Those(f, where)) \in Nat
         /\ Cardinality(Those(f, "strike")) + Cardinality(Those(f, "password")) <= Cardinality(Proc)
<1>1. \A where : IsFiniteSet(Those(f, where)) /\ Cardinality(Those(f, where)) \in Nat
  BY FS_Subset, FS_CardinalityType DEF Those
<1> DEFINE A == Those(f, "strike")
           B == Those(f, "password")
<1>2. A \cap B = {} /\ A \cup B \subseteq Proc
  BY DEF Those
<1>3. Cardinality(A \cup B) = Cardinality(A) + Cardinality(B) - Cardinality(A \cap B)
  BY <1>1, FS_Union
<1>4. Cardinality(A \cap B) = 0
  BY <1>2, FS_EmptySet
<1>5. Cardinality(A \cup B) <= Cardinality(Proc)
  BY <1>2, FS_Subset
<1>6. Cardinality(A) \in Nat /\ Cardinality(B) \in Nat /\ Cardinality(A \cup B) \in Nat /\ Cardinality(Proc) \in Nat
  BY <1>1, <1>2, FS_Subset, FS_CardinalityType
<1> QED
  BY <1>1, <1>3, <1>4, <1>5, <1>6

\* What the move of one request does to the number of requests in a place.
LEMMA MoveCounted ==
  ASSUME IsFiniteSet(Proc), NEW f \in [Proc -> Request], NEW g \in [Proc -> Request], NEW p \in Proc,
         \A q \in Proc \ {p} : g[q] = f[q], NEW where
  PROVE  Cardinality(Those(g, where)) = Cardinality(Those(f, where))
           + (IF g[p].at = where THEN 1 ELSE 0) - (IF f[p].at = where THEN 1 ELSE 0)
<1>1. \A h \in [Proc -> Request] : IsFiniteSet(Those(h, where)) /\ Cardinality(Those(h, where)) \in Nat
  BY FS_Subset, FS_CardinalityType DEF Those
<1>2. CASE g[p].at = where /\ f[p].at # where
  <2>1. Those(g, where) = Those(f, where) \cup {p} /\ p \notin Those(f, where)
    BY <1>2 DEF Those
  <2>2. Cardinality(Those(f, where) \cup {p}) = Cardinality(Those(f, where)) + 1
    BY <1>1, <2>1, FS_AddElement
  <2>3. Cardinality(Those(f, where)) \in Nat
    BY <1>1
  <2> QED
    BY <1>2, <2>1, <2>2, <2>3
<1>3. CASE g[p].at # where /\ f[p].at = where
  <2>1. Those(g, where) = Those(f, where) \ {p} /\ p \in Those(f, where)
    BY <1>3 DEF Those
  <2>2. Cardinality(Those(f, where) \ {p}) = Cardinality(Those(f, where)) - 1
    BY <1>1, <2>1, FS_RemoveElement
  <2>3. Cardinality(Those(f, where)) \in Nat
    BY <1>1
  <2> QED
    BY <1>3, <2>1, <2>2, <2>3
<1>4. CASE (g[p].at = where) <=> (f[p].at = where)
  <2>1. Those(g, where) = Those(f, where)
    BY <1>4 DEF Those
  <2> QED
    BY <1>1, <1>4, <2>1
<1> QED
  BY <1>2, <1>3, <1>4

\* Steps that leave the counters alone.
LEMMA CountersKept ==
  ASSUME IsFiniteSet(Proc), TypeInv, FailuresAreCounted, UNCHANGED <<site, fails, guesses, up>>
  PROVE  /\ \A p \in Proc : ~At(p, "strike") /\ Lands(p, Quiet) => FailuresAreCounted'
         /\ \A p \in Proc, where \in Places \ {"strike", "password"}, r \in Request :
              ~At(p, "strike") /\ Goto(p, where, r) => FailuresAreCounted'
         /\ UNCHANGED req => FailuresAreCounted'
<1>1. ASSUME NEW p \in Proc, ~At(p, "strike"), req' \in [Proc -> Request], \A q \in Proc \ {p} : req'[q] = req[q],
             req'[p].at \notin {"strike", "password"}
      PROVE  FailuresAreCounted'
  <2>0. req \in [Proc -> Request] /\ req[p].at # "strike"
    BY <1>1 DEF TypeInv, TypeOK, At
  <2>a. /\ Cardinality(Those(req, "strike")) \in Nat /\ Cardinality(Those(req, "password")) \in Nat
        /\ Cardinality(Those(req', "strike")) \in Nat /\ Cardinality(Those(req', "password")) \in Nat
    BY <1>1, <2>0, ThoseCounted
  <2>b. \A where : Cardinality(Those(req', where)) = Cardinality(Those(req, where))
           + (IF req'[p].at = where THEN 1 ELSE 0) - (IF req[p].at = where THEN 1 ELSE 0)
    BY <1>1, <2>0, MoveCounted
  <2>1. Cardinality(Those(req', "strike")) = Cardinality(Those(req, "strike"))
    BY <1>1, <2>0, <2>a, <2>b
  <2>2. Cardinality(Those(req', "password")) <= Cardinality(Those(req, "password"))
    BY <1>1, <2>0, <2>a, <2>b
  <2>3. /\ Cardinality(Those(req, "password")) \in Nat /\ Cardinality(Those(req', "password")) \in Nat
        /\ Cardinality(Proc) \in Nat /\ MaxFailures \in Nat
    BY <1>1, ThoseCounted, FS_CardinalityType, CountsAssumption DEF TypeInv, TypeOK
  <2> QED
    BY <2>1, <2>2, <2>3 DEF FailuresAreCounted
<1>2. ASSUME UNCHANGED req PROVE FailuresAreCounted'
  BY <1>2 DEF FailuresAreCounted
<1>3. ASSUME NEW p \in Proc, ~At(p, "strike"), Lands(p, Quiet) PROVE FailuresAreCounted'
  <2>1. CASE req' = req
    BY <1>2, <2>1
  <2>2. CASE req'[p].at \in Quiet
    BY <1>1, <1>3, <2>2 DEF Lands, Calm, Quiet
  <2> QED
    BY <1>3, <2>1, <2>2 DEF Lands
<1>4. ASSUME NEW p \in Proc, NEW where \in Places \ {"strike", "password"}, NEW r \in Request,
             ~At(p, "strike"), Goto(p, where, r)
      PROVE  FailuresAreCounted'
  BY <1>1, <1>4, GotoTyped DEF TypeInv, Places
<1> QED
  BY <1>2, <1>3, <1>4

LEMMA FailuresStep ==
  ASSUME IsFiniteSet(Proc)
  PROVE  TypeInv /\ TypeInv' /\ CountsFollow /\ FailuresAreCounted /\ [Next]_vars => FailuresAreCounted'
<1> SUFFICES ASSUME TypeInv, TypeInv', CountsFollow, FailuresAreCounted, [Next]_vars PROVE FailuresAreCounted'
  OBVIOUS
<1>0. /\ req \in [Proc -> Request] /\ req' \in [Proc -> Request]
      /\ fails[Redis] \in Nat /\ fails'[Redis] \in Nat
      /\ MaxFailures \in Nat /\ MaxFailures > 0 /\ Cardinality(Proc) \in Nat /\ guesses \in Int
  BY CountsAssumption, FS_CardinalityType DEF TypeInv, TypeOK, FailuresAreCounted
<1>a. /\ \A where : Cardinality(Those(req, where)) \in Nat /\ Cardinality(Those(req', where)) \in Nat
      /\ Cardinality(Those(req, "strike")) + Cardinality(Those(req, "password")) <= Cardinality(Proc)
      /\ Cardinality(Those(req', "strike")) + Cardinality(Those(req', "password")) <= Cardinality(Proc)
  BY <1>0, ThoseCounted
<1>1. ASSUME NEW p \in Proc, LoginGates(p) PROVE FailuresAreCounted'
  <2>1. ~IsLocked(p) /\ At(p, "idle") /\ Goto(p, "password", Idle) /\ UNCHANGED <<site, fails, guesses, up>>
    BY <1>1 DEF LoginGates, lockout
  <2>2. req'[p].at = "password" /\ \A q \in Proc \ {p} : req'[q] = req[q]
    BY <2>1, IdleTyped, GotoTyped DEF TypeInv, Places
  <2>3. /\ Cardinality(Those(req', "strike")) = Cardinality(Those(req, "strike"))
        /\ Cardinality(Those(req', "password")) = Cardinality(Those(req, "password")) + 1
    <3>1. req \in [Proc -> Request] /\ req' \in [Proc -> Request] /\ IsFiniteSet(Proc) /\ req[p].at = "idle"
      BY <1>0, <2>1 DEF At
    <3>2. \A where : Cardinality(Those(req', where)) = Cardinality(Those(req, where))
                       + (IF req'[p].at = where THEN 1 ELSE 0) - (IF req[p].at = where THEN 1 ELSE 0)
      BY <2>2, <3>1, MoveCounted
    <3>3. /\ Cardinality(Those(req', "strike")) = Cardinality(Those(req, "strike")) + 0 - 0
          /\ Cardinality(Those(req', "password")) = Cardinality(Those(req, "password")) + 1 - 0
      BY <2>2, <3>1, <3>2
    <3> QED
      BY <1>a, <3>3
  <2>4. up => fails[Redis] <= MaxFailures - 1
    BY <1>0, <2>1 DEF IsLocked, GetInt
  <2> QED
    BY <1>0, <1>a, <2>1, <2>3, <2>4 DEF FailuresAreCounted
<1>2. ASSUME NEW p \in Proc, WrongPassword(p) PROVE FailuresAreCounted'
  <2>1. /\ At(p, "password") /\ Goto(p, "strike", [req[p] EXCEPT !.n = GetInt(p)]) /\ guesses' = guesses + 1
        /\ UNCHANGED <<site, fails, up>>
    BY <1>2 DEF WrongPassword
  <2>2. [req[p] EXCEPT !.n = GetInt(p)] \in Request
    BY Shapes
  <2>3. req'[p].at = "strike" /\ \A q \in Proc \ {p} : req'[q] = req[q]
    BY <2>1, <2>2, GotoTyped DEF TypeInv, Places
  <2>4. /\ Cardinality(Those(req', "strike")) = Cardinality(Those(req, "strike")) + 1
        /\ Cardinality(Those(req', "password")) = Cardinality(Those(req, "password")) - 1
    <3>1. req[p].at = "password"
      BY <2>1 DEF At
    <3>2. Cardinality(Those(req', "strike")) = Cardinality(Those(req, "strike")) + 1 - 0
      BY <1>0, <2>3, <3>1, MoveCounted
    <3>3. Cardinality(Those(req', "password")) = Cardinality(Those(req, "password")) + 0 - 1
      BY <1>0, <2>3, <3>1, MoveCounted
    <3> QED
      BY <1>a, <3>2, <3>3
  <2> QED
    BY <1>0, <1>a, <2>1, <2>4 DEF FailuresAreCounted
<1>3. ASSUME NEW p \in Proc, RecordFailure(p) PROVE FailuresAreCounted'
  <2> DEFINE next == req[p].n + 1
  <2>1. /\ At(p, "strike") /\ fails' = [fails EXCEPT ![IF up THEN Redis ELSE p] = next]
        /\ guesses' = IF fails[Redis] >= next THEN guesses - (fails[Redis] + 1 - next) ELSE guesses
        /\ Reply(p) /\ UNCHANGED <<site, up>>
    BY <1>3 DEF RecordFailure
  <2>2. next \in Nat
    BY <1>0 DEF Request
  <2>3. req'[p].at = "idle" /\ \A q \in Proc \ {p} : req'[q] = req[q]
    BY <2>1, ReplyTyped DEF TypeInv, Idle
  <2>4. /\ Cardinality(Those(req', "strike")) = Cardinality(Those(req, "strike")) - 1
        /\ Cardinality(Those(req', "password")) = Cardinality(Those(req, "password"))
    <3>1. req[p].at = "strike"
      BY <2>1 DEF At
    <3>2. Cardinality(Those(req', "strike")) = Cardinality(Those(req, "strike")) + 0 - 1
      BY <1>0, <2>3, <3>1, MoveCounted
    <3>3. Cardinality(Those(req', "password")) = Cardinality(Those(req, "password")) + 0 - 0
      BY <1>0, <2>3, <3>1, MoveCounted
    <3> QED
      BY <1>a, <3>2, <3>3
  <2>5. up => fails'[Redis] = next
    BY <2>1 DEF TypeInv
  <2> HIDE DEF next
  <2>6. guesses' \in Int /\ guesses' <= guesses
    BY <1>0, <2>1, <2>2
  <2> QED
    BY <1>0, <1>a, <2>1, <2>2, <2>4, <2>5, <2>6 DEF FailuresAreCounted
<1>4. ASSUME NEW p \in Proc, ClearLockout(p) PROVE FailuresAreCounted'
  <2>1. /\ guesses' = 0 /\ Reply(p) /\ UNCHANGED <<site, up>>
    BY <1>4 DEF ClearLockout
  <2> QED
    BY <1>0, <1>a, <2>1 DEF FailuresAreCounted
<1>5. ASSUME NEW p \in Proc, Fail(p) PROVE FailuresAreCounted'
  <2>1. /\ Reply(p) /\ UNCHANGED <<site, up, fails>>
        /\ guesses' = IF At(p, "strike") THEN guesses - 1 ELSE guesses
    BY <1>5 DEF Fail
  <2>2. req'[p].at = "idle" /\ \A q \in Proc \ {p} : req'[q] = req[q]
    BY <2>1, ReplyTyped DEF TypeInv, Idle
  <2>3. /\ Cardinality(Those(req', "strike"))
             = Cardinality(Those(req, "strike")) - (IF At(p, "strike") THEN 1 ELSE 0)
        /\ Cardinality(Those(req', "password")) <= Cardinality(Those(req, "password"))
    <3>1. Cardinality(Those(req', "strike"))
            = Cardinality(Those(req, "strike")) + 0 - (IF req[p].at = "strike" THEN 1 ELSE 0)
      BY <1>0, <2>2, MoveCounted
    <3>2. Cardinality(Those(req', "password"))
            = Cardinality(Those(req, "password")) + 0 - (IF req[p].at = "password" THEN 1 ELSE 0)
      BY <1>0, <2>2, MoveCounted
    <3>3. /\ Cardinality(Those(req, "strike")) \in Nat /\ Cardinality(Those(req, "password")) \in Nat
      BY <1>a
    <3> QED
      BY <3>1, <3>2, <3>3 DEF At
  <2> QED
    BY <1>0, <1>a, <2>1, <2>3 DEF FailuresAreCounted
<1>6. ASSUME NEW h \in {Redis} \cup Proc, WindowEnds(h) PROVE FailuresAreCounted'
  <2>1. /\ fails' = [fails EXCEPT ![h] = 0] /\ guesses' = IF h = Redis THEN 0 ELSE guesses
        /\ UNCHANGED <<site, up, req>>
    BY <1>6 DEF WindowEnds
  <2>2. h # Redis => fails'[Redis] = fails[Redis]
    BY <2>1 DEF TypeInv
  <2> QED
    BY <1>0, <1>a, <2>1, <2>2 DEF FailuresAreCounted
<1>7. ASSUME SetRedis PROVE FailuresAreCounted'
  BY <1>7 DEF SetRedis, FailuresAreCounted, lockout
<1>8. ASSUME NEW p \in Proc, PasswordStep(p) PROVE FailuresAreCounted'
  <2>1. CASE LoginRefused(p) \/ RightPassword(p) \/ Forgot(p) \/ ChangePassword(p) \/ \E t \in Token : ResetPassword(p, t)
    <3>1. UNCHANGED <<site, fails, guesses, up>> /\ ~At(p, "strike")
      BY <2>1, HoldersAreElsewhere
         DEF LoginRefused, RightPassword, Forgot, ChangePassword, ResetPassword, lockout, At
    <3>2. ~LoginGates(p) /\ ~WrongPassword(p) => Lands(p, Quiet)
      BY <1>8, QuietSteps
    <3> QED
      BY <1>1, <1>2, <3>1, <3>2, CountersKept
  <2> QED
    BY <1>1, <1>2, <1>3, <1>4, <1>8, <2>1 DEF PasswordStep
<1>9. ASSUME NEW p \in Proc, AddressStep(p) PROVE FailuresAreCounted'
  <2>1. UNCHANGED <<site, fails, guesses, up>> /\ ~At(p, "strike")
    BY <1>9, HoldersAreElsewhere
       DEF AddressStep, Register, VerifyEmailRequest, MagicRequest, SmsRequest, LdapLogin,
                VerifyEmail, MagicConsume, SmsVerify, Possession, lockout, At
  <2> QED
    BY <1>9, <2>1, QuietSteps, CountersKept
<1>10. ASSUME NEW p \in Proc, MfaStep(p) PROVE FailuresAreCounted'
  <2>1. UNCHANGED <<site, fails, guesses, up>> /\ ~At(p, "strike")
    BY <1>10, HoldersAreElsewhere
       DEF MfaStep, MfaSetup, SetupSecret, SetupCodes, MfaEnable, EnableWrite, MfaDisable, DisableCodes,
                 TotpCode, WrongCode, BurnCode, StepUpDone, EnableCompare, RecoveryCode, MfaVerify, lockout, At
  <2>2. CASE SetupSecret(p) \/ MfaEnable(p) \/ (\E right \in BOOLEAN : EnableCompare(p, right))
             \/ \E c \in DOMAIN codes : RecoveryCode(p, c)
    <3>1. 1..MaxSecret \subseteq Nat /\ DOMAIN codes = 1..MaxSecret
      BY CountsAssumption DEF TypeInv, TypeOK
    <3>2. /\ [Idle EXCEPT !.via = "bearer"] \in Request
          /\ [Idle EXCEPT !.via = "wizard", !.row = Seen(row)] \in Request
          /\ [req[p] EXCEPT !.n = row.secret] \in Request
          /\ \A s \in 1..MaxSecret : [req[p] EXCEPT !.n = s] \in Request
          /\ \A c \in DOMAIN codes : [req[p] EXCEPT !.via = "recovery", !.n = c] \in Request
      BY <3>1, Shapes DEF Via
    <3>3. Reply(p) \/ \E where \in Places \ {"strike", "password"}, r \in Request : Goto(p, where, r)
      BY <2>2, <3>2 DEF SetupSecret, MfaEnable, EnableCompare, RecoveryCode, Places
    <3> QED
      BY <2>1, <3>3, Landing, CountersKept
  <2> QED
    BY <1>10, <2>1, <2>2, QuietSteps, CountersKept
<1>11. ASSUME NEW p \in Proc, PasskeyStep(p) PROVE FailuresAreCounted'
  <2>1. UNCHANGED <<site, fails, guesses, up>> /\ ~At(p, "strike")
    BY <1>11, HoldersAreElsewhere
       DEF PasskeyStep, PasskeyOptions, PasskeyLogin, PasskeyDelete, PasskeyRegister, PasskeyAssert, lockout, At
  <2>2. ASSUME NEW t \in Token, NEW n \in 0..MaxCount, PasskeyAssert(p, t, n) PROVE FailuresAreCounted'
    <3>1. [Idle EXCEPT !.via = "passkey", !.n = n, !.base = passkey] \in Request
      BY AssertTyped DEF TypeInv, TypeOK
    <3> QED
      BY <2>1, <2>2, <3>1, CountersKept DEF PasskeyAssert, Places
  <2> QED
    BY <1>11, <2>1, <2>2, QuietSteps, CountersKept
<1>12. ASSUME NEW p \in Proc, IssueTokenPair(p) \/ \E t \in Token : Read(p, t) PROVE FailuresAreCounted'
  <2>1. UNCHANGED <<site, fails, guesses, up>> /\ ~At(p, "strike")
    BY <1>12 DEF IssueTokenPair, Read, lockout, At
  <2> QED
    BY <1>12, <2>1, QuietSteps, CountersKept
<1>13. CASE \/ NewCaptcha \/ WrongCaptcha \/ SetTenant \/ UNCHANGED vars
            \/ (\E t \in Token : Waste(t)) \/ \E s \in {"active", "suspended"} : SetStatus(s)
  <2>1. UNCHANGED <<site, fails, guesses, up, req>>
    BY <1>13 DEF NewCaptcha, WrongCaptcha, SetTenant, SetStatus, Waste, lockout, vars
  <2> QED
    BY <2>1, CountersKept
<1> QED
  BY <1>5, <1>6, <1>7, <1>8, <1>9, <1>10, <1>11, <1>12, <1>13 DEF Next

-----------------------------------------------------------------------------
(* Flow tokens *)

\* The requests that have read token t and not deleted it yet.
Readers(f, t) == {q \in Proc : f[q].at = "reading" /\ f[q].got.token = t}

\* A token that has been honoured is gone; with GETDEL it was honoured once, and without it the
\* requests that had it honoured and those that still may are all different ones.
OpenedAreGone ==
  /\ opened \in [Token -> Nat]
  /\ \A t \in Token :
       opened[t] > 0 => /\ flow[t] = Gone
                        /\ opened[t] + Cardinality(Readers(req, t)) <= Cardinality(Proc)
                        /\ site.getdel => opened[t] = 1
  /\ \A p \in Proc :
       At(p, "reading") => /\ ~site.getdel
                           /\ req[p].got.token \in Token /\ flow[req[p].got.token] # Fresh

LEMMA FreshAndGone == Fresh # Gone /\ Fresh.purpose \notin Purpose /\ Gone.purpose \notin Purpose
<1>1. Fresh.purpose = "fresh" /\ Gone.purpose = "gone"
  BY DEF Fresh, Gone
<1> QED
  BY <1>1 DEF Purpose

LEMMA ReadersCounted ==
  ASSUME IsFiniteSet(Proc), NEW f, NEW t
  PROVE  /\ IsFiniteSet(Readers(f, t)) /\ Cardinality(Readers(f, t)) \in Nat
         /\ Cardinality(Readers(f, t)) <= Cardinality(Proc) /\ Cardinality(Proc) \in Nat
<1>1. Readers(f, t) \subseteq Proc
  BY DEF Readers
<1> QED
  BY <1>1, FS_Subset, FS_CardinalityType

\* A token stays gone, and stays issued.
Onward(t) == (flow[t] = Gone => flow'[t] = Gone) /\ (flow[t] # Fresh => flow'[t] # Fresh)

LEMMA LeavingTyped ==
  ASSUME TypeOK, NEW p \in Proc
  PROVE  /\ Reply(p) => Leaves(p)
         /\ \A r \in Request, where \in Places \ {"reading"} : Goto(p, where, r) => Leaves(p)
<1>1. Reply(p) => Leaves(p)
  BY ReplyTyped DEF Leaves, Idle
<1>2. ASSUME NEW r \in Request, NEW where \in Places \ {"reading"}, Goto(p, where, r) PROVE Leaves(p)
  BY <1>2, GotoTyped DEF Leaves
<1> QED
  BY <1>1, <1>2

LEMMA SettlingSteps ==
  ASSUME TypeInv, TypeInv', CountsFollow, NEW p \in Proc,
         PasswordStep(p) \/ AddressStep(p) \/ MfaStep(p) \/ PasskeyStep(p) \/ IssueTokenPair(p) \/ Fail(p)
  PROVE  Settles(p)
<1>1. CASE Lands(p, Calm)
  BY <1>1 DEF Lands, Calm, Settles
<1>2. ASSUME Reply(p) \/ \E r \in Request, where \in Places \ {"reading"} : Goto(p, where, r) PROVE Settles(p)
  BY <1>2, LeavingTyped DEF TypeInv, Leaves, Settles
<1>3. CASE LoginGates(p) \/ WrongPassword(p)
  <2>1. Idle \in Request /\ [req[p] EXCEPT !.n = GetInt(p)] \in Request
    BY Shapes
  <2> QED
    BY <1>2, <1>3, <2>1 DEF LoginGates, WrongPassword, Places
<1>4. CASE SetupSecret(p) \/ MfaEnable(p) \/ (\E right \in BOOLEAN : EnableCompare(p, right))
             \/ \E c \in DOMAIN codes : RecoveryCode(p, c)
  <2>1. 1..MaxSecret \subseteq Nat /\ DOMAIN codes = 1..MaxSecret
    BY CountsAssumption DEF TypeInv, TypeOK
  <2>2. /\ [Idle EXCEPT !.via = "bearer"] \in Request
        /\ [Idle EXCEPT !.via = "wizard", !.row = Seen(row)] \in Request
        /\ [req[p] EXCEPT !.n = row.secret] \in Request
        /\ \A s \in 1..MaxSecret : [req[p] EXCEPT !.n = s] \in Request
        /\ \A c \in DOMAIN codes : [req[p] EXCEPT !.via = "recovery", !.n = c] \in Request
    BY <2>1, Shapes DEF Via
  <2>3. Reply(p) \/ \E r \in Request, where \in Places \ {"reading"} : Goto(p, where, r)
    BY <1>4, <2>2 DEF SetupSecret, MfaEnable, EnableCompare, RecoveryCode, Places
  <2> QED
    BY <1>2, <2>3
<1>5. ASSUME NEW t \in Token, NEW n \in 0..MaxCount, PasskeyAssert(p, t, n) PROVE Settles(p)
  <2>1. [Idle EXCEPT !.via = "passkey", !.n = n, !.base = passkey] \in Request
    BY AssertTyped DEF TypeInv, TypeOK
  <2> QED
    BY <1>2, <1>5, <2>1 DEF PasskeyAssert, Places
<1> QED
  BY <1>1, <1>3, <1>4, <1>5, CalmSteps

\* What a step of a request does to the tokens.
Issues(p) == UNCHANGED opened /\ \E purpose \in Purpose, known \in BOOLEAN : Issue(p, purpose, known)
Opens(p) ==
  /\ \E t \in Token, purpose \in Purpose :
       Consume(p, t, purpose) \/ \E next \in Purpose : Exchange(p, t, purpose, next)
  /\ Leaves(p)

LEMMA TokenKinds ==
  ASSUME TypeInv, TypeInv', CountsFollow, NEW p \in Proc,
         PasswordStep(p) \/ AddressStep(p) \/ MfaStep(p) \/ PasskeyStep(p) \/ IssueTokenPair(p) \/ Fail(p)
  PROVE  UNCHANGED site /\ (UNCHANGED <<flow, opened>> \/ Issues(p) \/ Opens(p))
<1>0. TypeOK
  BY DEF TypeInv
<1>1. CASE PasswordStep(p)
  BY <1>0, <1>1, LeavingTyped, StepUpCases
     DEF PasswordStep, LoginGates, WrongPassword, LoginRefused, RightPassword, RecordFailure,
         ClearLockout, Forgot, ChangePassword, ResetPassword, Purpose, Issues, Opens
<1>2. CASE AddressStep(p)
  <2>1. ASSUME NEW t \in Token, NEW purpose \in Purpose, NEW via \in {"magic", "sms"},
               Possession(p, t, purpose, via)
        PROVE  UNCHANGED site /\ Opens(p)
    <3>1. Seen(row') \in Snapshot
      BY SeenTyped DEF TypeInv, TypeOK
    <3>2. [Idle EXCEPT !.via = via, !.row = Seen(row')] \in Request
      BY <3>1, Shapes DEF Via, FirstFactor
    <3>3. Leaves(p)
      BY <1>0, <2>1, <3>2, LeavingTyped DEF Possession, Places
    <3> QED
      BY <2>1, <3>3 DEF Possession, Opens, Purpose
  <2>2. CASE \E t \in Token : MagicConsume(p, t) \/ SmsVerify(p, t)
    BY <2>1, <2>2 DEF MagicConsume, SmsVerify, Purpose
  <2>3. CASE \E t \in Token : VerifyEmail(p, t)
    BY <1>0, <2>3, LeavingTyped DEF VerifyEmail, Opens, Purpose
  <2>4. CASE Register(p) \/ VerifyEmailRequest(p) \/ MagicRequest(p) \/ SmsRequest(p) \/ LdapLogin(p)
    BY <2>4, StepUpCases
       DEF Register, VerifyEmailRequest, MagicRequest, SmsRequest, LdapLogin, Issues, Purpose
  <2> QED
    BY <1>2, <2>2, <2>3, <2>4 DEF AddressStep
<1>3. CASE MfaStep(p)
  <2>1. /\ Idle \in Request
        /\ [Idle EXCEPT !.via = "wizard"] \in Request
        /\ [Idle EXCEPT !.via = "wizard", !.row = Seen(row)] \in Request
    BY Shapes DEF Via
  <2>2. CASE MfaSetup(p) \/ MfaEnable(p) \/ \E t \in Token : MfaVerify(p, t)
    BY <1>0, <2>1, <2>2, LeavingTyped DEF MfaSetup, MfaEnable, MfaVerify, Opens, Purpose, Places
  <2>3. CASE ~(MfaSetup(p) \/ MfaEnable(p) \/ \E t \in Token : MfaVerify(p, t))
    BY <1>3, <2>3
       DEF MfaStep, SetupSecret, SetupCodes, EnableWrite, MfaDisable, DisableCodes,
           TotpCode, WrongCode, BurnCode, StepUpDone, EnableCompare, RecoveryCode, Issues, Purpose
  <2> QED
    BY <2>2, <2>3
<1>4. CASE PasskeyStep(p)
  <2>1. ASSUME NEW t \in Token, NEW n \in 0..MaxCount, PasskeyAssert(p, t, n) PROVE UNCHANGED site /\ Opens(p)
    <3>1. [Idle EXCEPT !.via = "passkey", !.n = n, !.base = passkey] \in Request
      BY AssertTyped DEF TypeInv, TypeOK
    <3>2. Leaves(p)
      BY <1>0, <2>1, <3>1, LeavingTyped DEF PasskeyAssert, Places
    <3> QED
      BY <2>1, <3>2 DEF PasskeyAssert, Opens, Purpose
  <2>2. CASE \E t \in Token : PasskeyRegister(p, t)
    BY <1>0, <2>2, LeavingTyped DEF PasskeyRegister, Opens, Purpose
  <2>3. CASE PasskeyOptions(p) \/ PasskeyLogin(p) \/ PasskeyDelete(p)
    BY <2>3, StepUpCases DEF PasskeyOptions, PasskeyLogin, PasskeyDelete, Issues, Purpose
  <2> QED
    BY <1>4, <2>1, <2>2, <2>3 DEF PasskeyStep
<1>5. CASE IssueTokenPair(p) \/ Fail(p)
  BY <1>5 DEF IssueTokenPair, Fail
<1> QED
  BY <1>1, <1>2, <1>3, <1>4, <1>5

\* No token is opened, and no reader joins.
LEMMA TokensStay ==
  ASSUME IsFiniteSet(Proc), OpenedAreGone, UNCHANGED <<site, opened>>,
         \A q \in Proc : req'[q].at = "reading" => req'[q] = req[q],
         \A t \in Token : Onward(t)
  PROVE  OpenedAreGone'
<1>1. ASSUME NEW t \in Token, opened'[t] > 0
      PROVE  /\ flow'[t] = Gone /\ opened'[t] + Cardinality(Readers(req', t)) <= Cardinality(Proc)
             /\ site'.getdel => opened'[t] = 1
  <2>1. Readers(req', t) \subseteq Readers(req, t)
    BY DEF Readers
  <2>2. Cardinality(Readers(req', t)) <= Cardinality(Readers(req, t))
    BY <2>1, ReadersCounted, FS_Subset
  <2>3. /\ opened[t] > 0 /\ opened[t] \in Nat /\ opened'[t] = opened[t] /\ flow[t] = Gone
        /\ opened[t] + Cardinality(Readers(req, t)) <= Cardinality(Proc) /\ (site.getdel => opened[t] = 1)
    BY <1>1 DEF OpenedAreGone
  <2>4. /\ Cardinality(Readers(req, t)) \in Nat /\ Cardinality(Readers(req', t)) \in Nat
        /\ Cardinality(Proc) \in Nat
    BY ReadersCounted
  <2>5. opened'[t] + Cardinality(Readers(req', t)) <= Cardinality(Proc)
    BY <2>2, <2>3, <2>4
  <2> QED
    BY <2>3, <2>5 DEF Onward
<1>2. ASSUME NEW q \in Proc, req'[q].at = "reading"
      PROVE  ~site'.getdel /\ req'[q].got.token \in Token /\ flow'[req'[q].got.token] # Fresh
  <2>1. At(q, "reading") /\ req'[q] = req[q]
    BY <1>2 DEF At
  <2>2. ~site.getdel /\ req[q].got.token \in Token /\ flow[req[q].got.token] # Fresh
    BY <2>1 DEF OpenedAreGone
  <2> QED
    BY <2>1, <2>2 DEF Onward
<1>3. opened' \in [Token -> Nat]
  BY DEF OpenedAreGone
<1> QED
  BY <1>1, <1>2, <1>3 DEF OpenedAreGone, At

LEMMA IssuesStay ==
  ASSUME TypeOK, NEW p \in Proc, Issues(p), NEW t \in Token
  PROVE  Onward(t)
<1>1. PICK s \in Token, purpose \in Purpose, known \in BOOLEAN :
        /\ flow[s] = Fresh
        /\ flow' = [flow EXCEPT ![s] = [purpose |-> purpose, home |-> IF up THEN Redis ELSE p, known |-> known]]
  BY DEF Issues, Issue
<1>2. CASE t = s
  BY <1>1, <1>2, FreshAndGone DEF Onward
<1>3. CASE t # s
  BY <1>1, <1>3 DEF Onward, TypeOK
<1> QED
  BY <1>2, <1>3

\* What opening token t does to the tokens.
Opened(t) ==
  /\ opened' = [opened EXCEPT ![t] = @ + 1] /\ flow'[t] = Gone
  /\ \A s \in Token : Onward(s)

LEMMA OpensOne ==
  ASSUME TypeOK, OpenedAreGone, NEW p \in Proc, Opens(p)
  PROVE  \E t \in Token, purpose \in Purpose : Held(p, t, purpose) /\ Opened(t)
<1>1. PICK t \in Token, purpose \in Purpose :
        Consume(p, t, purpose) \/ \E next \in Purpose : Exchange(p, t, purpose, next)
  BY DEF Opens
<1>2. Held(p, t, purpose) /\ opened' = [opened EXCEPT ![t] = @ + 1]
  BY <1>1 DEF Consume, Exchange
<1>3. flow[t] # Fresh
  <2>1. CASE flow[t].purpose = purpose
    BY <2>1, FreshAndGone
  <2>2. CASE At(p, "reading") /\ req[p].got = [token |-> t, purpose |-> purpose]
    BY <2>2 DEF OpenedAreGone
  <2> QED
    BY <1>2, <2>1, <2>2 DEF Held
<1>4. CASE Consume(p, t, purpose)
  <2>1. flow' = [flow EXCEPT ![t] = Gone]
    BY <1>4 DEF Consume, Burn
  <2>2. flow'[t] = Gone /\ \A s \in Token : Onward(s)
    BY <2>1, FreshAndGone DEF TypeOK, Onward
  <2> QED
    BY <1>2, <2>2 DEF Opened
<1>5. ASSUME NEW next \in Purpose, Exchange(p, t, purpose, next) PROVE Opened(t)
  <2>1. PICK s \in Token :
          /\ flow[s] = Fresh
          /\ flow' = [flow EXCEPT ![t] = Gone,
                                  ![s] = [purpose |-> next, home |-> IF up THEN Redis ELSE p, known |-> TRUE]]
    BY <1>5 DEF Exchange
  <2>2. /\ s # t /\ flow'[t] = Gone /\ flow'[s].purpose = next
        /\ \A x \in Token \ {s, t} : flow'[x] = flow[x]
    BY <1>3, <2>1 DEF TypeOK
  <2>3. \A x \in Token : Onward(x)
    BY <2>1, <2>2, FreshAndGone DEF Onward
  <2> QED
    BY <1>2, <2>2, <2>3 DEF Opened
<1> QED
  BY <1>1, <1>2, <1>4, <1>5

LEMMA TokensOpen ==
  ASSUME IsFiniteSet(Proc), TypeOK, OpenedAreGone, UNCHANGED site, NEW p \in Proc, Opens(p)
  PROVE  OpenedAreGone'
<1>1. PICK t \in Token, purpose \in Purpose : Held(p, t, purpose) /\ Opened(t)
  BY OpensOne
<1>2. /\ \A q \in Proc \ {p} : req'[q] = req[q]
      /\ req'[p].at # "reading"
  BY DEF Opens, Leaves
<1>3. /\ \A s \in Token : Cardinality(Readers(req, s)) \in Nat /\ Cardinality(Readers(req', s)) \in Nat
      /\ \A s \in Token : opened[s] \in Nat
      /\ Cardinality(Proc) \in Nat
  BY ReadersCounted DEF OpenedAreGone
<1>4. /\ opened'[t] = opened[t] + 1 /\ \A s \in Token \ {t} : opened'[s] = opened[s]
      /\ opened' \in [Token -> Nat]
  BY <1>1 DEF Opened, OpenedAreGone
<1>5. opened'[t] + Cardinality(Readers(req', t)) <= Cardinality(Proc) /\ (site.getdel => opened'[t] = 1)
  <2>1. CASE At(p, "reading") /\ req[p].got = [token |-> t, purpose |-> purpose]
    <3>1. p \in Readers(req, t) /\ Readers(req', t) \subseteq Readers(req, t) \ {p}
      BY <1>2, <2>1 DEF Readers, At
    <3>2. /\ IsFiniteSet(Readers(req, t))
          /\ IsFiniteSet(Readers(req, t) \ {p})
          /\ Cardinality(Readers(req, t) \ {p}) = Cardinality(Readers(req, t)) - 1
      BY <3>1, ReadersCounted, FS_RemoveElement
    <3>3. Cardinality(Readers(req', t)) <= Cardinality(Readers(req, t)) - 1
      BY <3>1, <3>2, FS_Subset
    <3>4. Cardinality(Readers(req, t)) <= Cardinality(Proc)
      BY ReadersCounted
    <3>5. opened[t] > 0 => opened[t] + Cardinality(Readers(req, t)) <= Cardinality(Proc)
      BY DEF OpenedAreGone
    <3>6. ~site.getdel
      BY <2>1 DEF OpenedAreGone
    <3> QED
      BY <1>3, <1>4, <3>3, <3>4, <3>5, <3>6
  <2>2. CASE At(p, "idle") /\ flow[t].purpose = purpose
    <3>1. opened[t] = 0
      BY <1>3, <2>2, FreshAndGone DEF OpenedAreGone
    <3>2. Readers(req', t) \subseteq Proc \ {p}
      BY <1>2 DEF Readers
    <3>3. IsFiniteSet(Proc \ {p}) /\ Cardinality(Proc \ {p}) = Cardinality(Proc) - 1
      BY FS_RemoveElement
    <3>4. Cardinality(Readers(req', t)) <= Cardinality(Proc) - 1
      BY <3>2, <3>3, FS_Subset
    <3> QED
      BY <1>3, <1>4, <3>1, <3>4
  <2> QED
    BY <1>1, <2>1, <2>2 DEF Held
<1>6. ASSUME NEW s \in Token \ {t}, opened'[s] > 0
      PROVE  /\ flow'[s] = Gone /\ opened'[s] + Cardinality(Readers(req', s)) <= Cardinality(Proc)
             /\ site.getdel => opened'[s] = 1
  <2>1. Readers(req', s) \subseteq Readers(req, s)
    BY <1>2 DEF Readers
  <2>2. Cardinality(Readers(req', s)) <= Cardinality(Readers(req, s))
    BY <2>1, ReadersCounted, FS_Subset
  <2>3. /\ flow[s] = Gone /\ opened[s] + Cardinality(Readers(req, s)) <= Cardinality(Proc)
        /\ site.getdel => opened[s] = 1
    BY <1>4, <1>6 DEF OpenedAreGone
  <2>4. opened'[s] + Cardinality(Readers(req', s)) <= Cardinality(Proc)
    BY <1>3, <1>4, <2>2, <2>3
  <2> QED
    BY <1>1, <1>4, <2>3, <2>4 DEF Opened, Onward
<1>7. ASSUME NEW q \in Proc, req'[q].at = "reading"
      PROVE  ~site.getdel /\ req'[q].got.token \in Token /\ flow'[req'[q].got.token] # Fresh
  <2>1. req'[q] = req[q] /\ At(q, "reading")
    BY <1>2, <1>7 DEF At
  <2>2. ~site.getdel /\ req[q].got.token \in Token /\ flow[req[q].got.token] # Fresh
    BY <2>1 DEF OpenedAreGone
  <2> QED
    BY <1>1, <2>1, <2>2 DEF Opened, Onward
<1>8. flow'[t] = Gone
  BY <1>1 DEF Opened
<1> QED
  BY <1>4, <1>5, <1>6, <1>7, <1>8 DEF OpenedAreGone, At

LEMMA TokensRead ==
  ASSUME IsFiniteSet(Proc), TypeOK, OpenedAreGone, NEW p \in Proc, NEW t \in Token, Read(p, t)
  PROVE  OpenedAreGone'
<1>1. ReadingOf(t) \in Request /\ Goto(p, "reading", ReadingOf(t)) /\ flow[t].purpose \in Purpose
  BY ReadGoes DEF Read
<1>2. /\ req'[p].at = "reading" /\ req'[p].got.token = t
      /\ \A q \in Proc \ {p} : req'[q] = req[q]
  <2>1. /\ req'[p].at = "reading" /\ req'[p].got = ReadingOf(t).got
        /\ \A q \in Proc \ {p} : req'[q] = req[q]
    BY <1>1, GotoTyped DEF Places
  <2>2. ReadingOf(t).got.token = t
    <3>1. ReadingOf(t).got = [token |-> t, purpose |-> flow[t].purpose]
      BY ONLY <1>1, ReadingTyped
    <3> QED
      BY ONLY <3>1
  <2> QED
    BY <2>1, <2>2
<1>3. ~site.getdel /\ UNCHANGED <<site, flow, opened>> /\ flow[t] # Fresh /\ flow[t] # Gone
  BY <1>1, FreshAndGone DEF Read
<1>4. ASSUME NEW s \in Token, opened[s] > 0
      PROVE  opened[s] + Cardinality(Readers(req', s)) <= Cardinality(Proc)
  <2>1. s # t
    BY <1>3, <1>4 DEF OpenedAreGone
  <2>2. Readers(req', s) \subseteq Readers(req, s)
    BY <1>2, <2>1 DEF Readers
  <2>3. Cardinality(Readers(req', s)) <= Cardinality(Readers(req, s))
    BY <2>2, ReadersCounted, FS_Subset
  <2>4. opened[s] \in Nat /\ opened[s] + Cardinality(Readers(req, s)) <= Cardinality(Proc)
    BY <1>4 DEF OpenedAreGone
  <2>5. /\ Cardinality(Readers(req, s)) \in Nat /\ Cardinality(Readers(req', s)) \in Nat
        /\ Cardinality(Proc) \in Nat
    BY ReadersCounted
  <2> QED
    BY <2>3, <2>4, <2>5
<1>5. ASSUME NEW q \in Proc, req'[q].at = "reading"
      PROVE  req'[q].got.token \in Token /\ flow[req'[q].got.token] # Fresh
  <2>1. CASE q = p
    BY <1>2, <1>3, <2>1
  <2>2. CASE q # p
    BY <1>2, <1>5, <2>2 DEF OpenedAreGone, At
  <2> QED
    BY <2>1, <2>2
<1> QED
  BY <1>3, <1>4, <1>5 DEF OpenedAreGone, At

LEMMA TokensStep ==
  ASSUME IsFiniteSet(Proc)
  PROVE  TypeInv /\ TypeInv' /\ CountsFollow /\ OpenedAreGone /\ [Next]_vars => OpenedAreGone'
<1> SUFFICES ASSUME TypeInv, TypeInv', CountsFollow, OpenedAreGone, [Next]_vars PROVE OpenedAreGone'
  OBVIOUS
<1>0. TypeOK
  BY DEF TypeInv
<1>1. ASSUME NEW p \in Proc,
             PasswordStep(p) \/ AddressStep(p) \/ MfaStep(p) \/ PasskeyStep(p) \/ IssueTokenPair(p) \/ Fail(p)
      PROVE  OpenedAreGone'
  <2>1. Settles(p)
    BY <1>1, SettlingSteps
  <2>2. UNCHANGED site /\ (UNCHANGED <<flow, opened>> \/ Issues(p) \/ Opens(p))
    BY <1>1, TokenKinds
  <2>3. \A q \in Proc : req'[q].at = "reading" => req'[q] = req[q]
    BY <2>1 DEF Settles
  <2>4. CASE UNCHANGED <<flow, opened>>
    <3>1. \A t \in Token : Onward(t)
      BY <2>4 DEF Onward
    <3> QED
      BY <2>2, <2>3, <2>4, <3>1, TokensStay
  <2>5. CASE Issues(p)
    <3>1. (\A t \in Token : Onward(t)) /\ UNCHANGED opened
      BY <1>0, <2>5, IssuesStay DEF Issues
    <3> QED
      BY <2>2, <2>3, <3>1, TokensStay
  <2>6. CASE Opens(p)
    BY <1>0, <2>2, <2>6, TokensOpen
  <2> QED
    BY <2>2, <2>4, <2>5, <2>6
<1>2. ASSUME NEW p \in Proc, NEW t \in Token, Read(p, t) PROVE OpenedAreGone'
  BY <1>0, <1>2, TokensRead
<1>3. ASSUME NEW t \in Token, Waste(t) PROVE OpenedAreGone'
  <2>1. UNCHANGED <<site, opened, req>> /\ flow' = [flow EXCEPT ![t] = Gone]
    BY <1>3 DEF Waste, Burn
  <2>2. \A s \in Token : Onward(s)
    BY <1>0, <2>1, FreshAndGone DEF TypeOK, Onward
  <2> QED
    BY <2>1, <2>2, TokensStay
<1>4. CASE \/ NewCaptcha \/ WrongCaptcha \/ SetTenant \/ SetRedis \/ UNCHANGED vars
           \/ \E s \in {"active", "suspended"} : SetStatus(s)
           \/ \E h \in {Redis} \cup Proc : WindowEnds(h)
  <2>1. UNCHANGED <<site, opened, req, flow>>
    BY <1>4 DEF NewCaptcha, WrongCaptcha, SetTenant, SetRedis, SetStatus, WindowEnds, vars
  <2>2. \A s \in Token : Onward(s)
    BY <2>1 DEF Onward
  <2> QED
    BY <2>1, <2>2, TokensStay
<1> QED
  BY <1>1, <1>2, <1>3, <1>4 DEF Next

-----------------------------------------------------------------------------
(* Theorems *)

LEMMA Begins == Init => /\ TypeInv /\ CountsFollow /\ OpenedAreGone /\ GatesAreAhead
                        /\ SecretsAreShown /\ SpentAreUsed
<1> SUFFICES ASSUME Init
             PROVE  TypeInv /\ CountsFollow /\ OpenedAreGone /\ GatesAreAhead /\ SecretsAreShown /\ SpentAreUsed
  OBVIOUS
<1>1. /\ \A p \in Proc : req[p].at = "idle"
      /\ req = [p \in Proc |-> Idle] /\ session = NoSession /\ spent = {}
  BY DEF Init, Idle
<1>2. row \in Row /\ row.totp = FALSE
  <2>1. PICK s \in {"absent", "active"}, m \in BOOLEAN : row = [Absent EXCEPT !.status = s, !.must = m]
    BY DEF Init
  <2>2. \A r \in Row : [r EXCEPT !.status = s, !.must = m] \in Row /\ [r EXCEPT !.status = s, !.must = m].totp = r.totp
    BY DEF Row
  <2>3. Absent.totp = FALSE
    BY DEF Absent
  <2> QED
    BY <2>1, <2>2, <2>3, IdleTyped
<1>3. TypeInv
  <2>1. fails \in [{Redis} \cup Proc -> Nat] /\ req \in [Proc -> Request]
    BY <1>1, IdleTyped DEF Init
  <2>2. /\ codes \in [1..MaxSecret -> {"none", "unused", "used"}]
        /\ flow \in [Token -> {Fresh, Gone} \cup Record]
        /\ captcha \in BOOLEAN /\ passkey \in {NoPasskey} \cup 0..MaxCount
    BY DEF Init
  <2> QED
    BY <1>2, <2>1, <2>2 DEF TypeInv, TypeOK
<1>4. CountsFollow /\ SecretsAreShown /\ SpentAreUsed
  BY <1>1, <1>2 DEF CountsFollow, SecretsAreShown, SpentAreUsed, EnabledMeansConfirmed, At
<1>5. OpenedAreGone
  BY <1>1 DEF Init, OpenedAreGone, At
<1>6. GatesAreAhead
  BY <1>1 DEF GatesAreAhead, Passed, NoSession, FirstFactor, At
<1> QED
  BY <1>3, <1>4, <1>5, <1>6

LEMMA Typed == Spec => [](TypeInv /\ CountsFollow)
<1>1. TypeInv /\ CountsFollow /\ [Next]_vars => (TypeInv /\ CountsFollow)'
  BY TypeStep, CountsStep
<1> QED
  BY <1>1, Begins, PTL DEF Spec

\* However many requests, processes and tokens: a flow token is honoured at most once.
THEOREM TokensHold == ASSUME IsFiniteSet(Proc) PROVE Spec => []TokensOpenOnce
<1>1. (TypeInv /\ CountsFollow) /\ (TypeInv /\ CountsFollow)' /\ OpenedAreGone /\ [Next]_vars => OpenedAreGone'
  BY TokensStep
<1>2. OpenedAreGone => TokensOpenOnce
  <2> SUFFICES ASSUME OpenedAreGone, NEW t \in Token
               PROVE  opened[t] <= IF site.getdel THEN 1 ELSE Cardinality(Proc)
    BY DEF TokensOpenOnce
  <2>1. opened[t] \in Nat /\ Cardinality(Proc) \in Nat /\ Cardinality(Readers(req, t)) \in Nat
    BY ReadersCounted DEF OpenedAreGone
  <2>2. opened[t] > 0 => /\ opened[t] + Cardinality(Readers(req, t)) <= Cardinality(Proc)
                         /\ site.getdel => opened[t] = 1
    BY DEF OpenedAreGone
  <2> QED
    BY <2>1, <2>2
<1> QED
  BY <1>1, <1>2, Begins, Typed, PTL DEF Spec

\* In every deployment: no session passes a gate that applies to it, and an enabled second
\* factor is one whose code the user has shown.
THEOREM GatesAreHeld == Spec => []GatesHold
<1>1. (TypeInv /\ CountsFollow) /\ (TypeInv /\ CountsFollow)' /\ GatesAreAhead /\ SecretsAreShown /\ [Next]_vars
        => GatesAreAhead' /\ SecretsAreShown'
  BY GatesStep, SecretsStep
<1>2. (TypeInv /\ CountsFollow) /\ GatesAreAhead /\ SecretsAreShown => GatesHold
  BY DEF TypeInv, GatesAreAhead, Passed, SecretsAreShown, GatesHold, NoGateIsSkipped, EnrollHit, VerifiedRequired,
         HaveForcedChange, HaveEnrollment, HaveVerified
<1> QED
  BY <1>1, <1>2, Begins, Typed, PTL DEF Spec

\* With any number of requests at a time: where Redis answers, the wrong passwords compared
\* exceed the threshold by less than the requests being served.
THEOREM GuessesAreBounded == ASSUME IsFiniteSet(Proc) PROVE Spec => []GuessesAreCounted
<1>1. Init => FailuresAreCounted
  <2> SUFFICES ASSUME Init PROVE FailuresAreCounted
    OBVIOUS
  <2>1. req \in [Proc -> Request] /\ guesses = 0 /\ fails[Redis] = 0 /\ up
    BY IdleTyped DEF Init
  <2>2. Those(req, "password") = {}
    BY DEF Init, Idle, Those
  <2>3. Cardinality(Those(req, "password")) = 0
    BY <2>2, FS_EmptySet
  <2>4. Cardinality(Those(req, "strike")) \in Nat /\ Cardinality(Proc) \in Nat /\ MaxFailures \in Nat /\ MaxFailures > 0
    BY <2>1, ThoseCounted, FS_CardinalityType, CountsAssumption
  <2> QED
    BY <2>1, <2>3, <2>4 DEF FailuresAreCounted
<1>2. (TypeInv /\ CountsFollow) /\ (TypeInv /\ CountsFollow)' /\ FailuresAreCounted /\ [Next]_vars
        => FailuresAreCounted'
  BY FailuresStep
<1>3. (TypeInv /\ CountsFollow) /\ FailuresAreCounted => GuessesAreCounted
  <2> SUFFICES ASSUME TypeInv, FailuresAreCounted PROVE GuessesAreCounted
    OBVIOUS
  <2>1. Cardinality(Those(req, "password")) \in Nat /\ Cardinality(Proc) \in Nat
    BY ThoseCounted, FS_CardinalityType DEF TypeInv, TypeOK
  <2> QED
    BY <2>1, CountsAssumption DEF FailuresAreCounted, GuessesAreCounted
<1> QED
  BY <1>1, <1>2, <1>3, Typed, PTL DEF Spec

\* A recovery code is not accepted once its use is recorded; the counter of a passkey falls
\* only where another sign-in overlapped.
THEOREM FactorsAreUsedUp == Spec => FactorsAreSpent
<1>1. (TypeInv /\ CountsFollow) /\ (TypeInv /\ CountsFollow)' /\ SpentAreUsed /\ [Next]_vars => SpentAreUsed'
  BY SpentStep
<1>2. (TypeInv /\ CountsFollow) /\ (TypeInv /\ CountsFollow)' /\ SpentAreUsed /\ [Next]_vars
        => [\A p \in Proc : ~At(p, "burn") /\ req'[p].at = "burn" => req'[p].n \notin spent]_vars
  BY BurnsAreFresh
<1>3. (TypeInv /\ CountsFollow) /\ (TypeInv /\ CountsFollow)' /\ [Next]_vars
        => [\A p \in Proc : At(p, "counter") /\ req'[p] # req[p] /\ passkey' # passkey /\ passkey' # NoPasskey
              => passkey' > passkey \/ req[p].base # passkey]_vars
  BY CounterStep
<1>4. Spec => RecoveryCodeOnce
  BY <1>1, <1>2, Begins, Typed, PTL DEF Spec, RecoveryCodeOnce
<1>5. Spec => CounterRises
  BY <1>3, Typed, PTL DEF Spec, CounterRises
<1> QED
  BY <1>4, <1>5 DEF FactorsAreSpent

-----------------------------------------------------------------------------
(* The provider *)

Decision == {"login", "grant", "consent", "deny"}
Redemption == {"consume", "save", "revoke"}

StoredRow ==
  [kind : Provider!Kinds, grant : {0} \cup RowId, account : Subject \cup {Nil},
   consumed : BOOLEAN, expired : BOOLEAN, gone : BOOLEAN,
   prompt : {Nil, "login", "consent"}, result : {Nil, "login", "consent", "deny"}]

Serve ==
  [at : {"idle"} \cup Decision \cup Redemption, row : {0} \cup RowId, by : Subject \cup {Nil},
   grant : {0} \cup RowId, todo : SUBSET Provider!TokenKinds]

ProviderShapes ==
  /\ task \in Tasks /\ registered \in BOOLEAN /\ reach \in BOOLEAN
  /\ table \in [RowId -> StoredRow \cup {Provider!Unused}]
  /\ serving \in [Proc -> Serve]
  /\ redeemed \in [RowId -> Nat]
  /\ hits \in [{0} \cup Proc -> 0..(Limit + 1)] /\ passed \in Nat

IsToken(x) == table[x].kind \in Provider!TokenKinds
IsGrant(x) == x \in RowId /\ table[x].kind = "Grant"
Asking(x) == table[x].kind = "Interaction"
Agreed(x) == Asking(x) /\ table[x].result = "consent"

\* What a row says of its user and its grant.
RowAgrees(x) ==
  /\ Asking(x) /\ table[x].prompt # "login" => table[x].account # Nil
  /\ Agreed(x) => table[x].prompt # "login"
  /\ Agreed(x) \/ IsToken(x) => IsGrant(table[x].grant)
  /\ Agreed(x) \/ table[x].kind = "AuthorizationCode" => table[table[x].grant].account = table[x].account

RowsAgree == \A x \in RowId : RowAgrees(x)

\* What a request is about.
RequestAgrees(p) ==
  /\ serving[p].at \in Decision =>
       /\ serving[p].row \in RowId /\ Asking(serving[p].row) /\ serving[p].by \in Subject
       /\ serving[p].at = "login" => table[serving[p].row].prompt = "login"
       /\ serving[p].at \in {"grant", "consent"} =>
            table[serving[p].row].prompt # "login" /\ table[serving[p].row].account = serving[p].by
  /\ serving[p].at = "consent" =>
       IsGrant(serving[p].grant) /\ table[serving[p].grant].account = serving[p].by
  /\ serving[p].at \in Redemption =>
       /\ serving[p].row \in RowId /\ IsToken(serving[p].row)
       /\ table[serving[p].row].grant = serving[p].grant

RequestsAgree == \A p \in Proc : RequestAgrees(p)

\* A grant brings one code: until then, one request or one interaction has it.
Consents(p) == serving[p].at = "consent"
Open(x) == Agreed(x) /\ ~table[x].gone

OneCodeEach ==
  /\ \A p \in Proc, x \in RowId : Consents(p) /\ (IsToken(x) \/ Open(x)) => table[x].grant # serving[p].grant
  /\ \A p, q \in Proc : Consents(p) /\ Consents(q) /\ serving[q].grant = serving[p].grant => q = p
  /\ \A x, y \in RowId : Open(x) /\ (IsToken(y) \/ Open(y)) /\ table[y].grant = table[x].grant => y = x

\* What has been redeemed cannot be redeemed by a request that comes later.
Spent(x) == table[x].consumed \/ table[x].gone

RedeemedAreSpent ==
  /\ \A x \in RowId \ rushed :
       /\ redeemed[x] <= 1
       /\ redeemed[x] = 1 => IsToken(x) /\ Spent(x)
  /\ \A p \in Proc : serving[p].at \in Redemption /\ serving[p].row \notin rushed =>
       /\ serving[p].at \in {"consume", "save"} => redeemed[serving[p].row] = 0
       /\ serving[p].at = "save" => Spent(serving[p].row)
       /\ \A q \in Proc : serving[q].at \in Redemption /\ serving[q].row = serving[p].row => q = p

\* What a revocation has passed is gone, but for the late.
Wiped(k, g) == \A x \in RowId : table[x].kind = k /\ ~table[x].gone /\ table[x].grant = g => x \in late

RevokedAreGone ==
  /\ \A p \in Proc : serving[p].at = "revoke" =>
       \A k \in Provider!TokenKinds \ serving[p].todo : Wiped(k, serving[p].grant)
  /\ \A g \in over :
       /\ IsGrant(g) /\ table[g].gone
       /\ \A k \in Provider!TokenKinds : Wiped(k, g)
       /\ \E x \in RowId : IsToken(x) /\ table[x].grant = g

WaitingAreOpen == \A x \in waiting : x \in RowId /\ Asking(x) /\ ~table[x].gone /\ ~table[x].expired

\* Requests let through, each with the counter it was counted by.
Slots == {s \in ({0} \cup Proc) \X (1..Limit) : s[2] <= hits[s[1]]}
PassedAreCounted == passed <= Cardinality(Slots)

ProviderInv ==
  /\ ProviderShapes /\ RowsAgree /\ RequestsAgree /\ OneCodeEach /\ RedeemedAreSpent /\ RevokedAreGone
  /\ WaitingAreOpen /\ PassedAreCounted

-----------------------------------------------------------------------------
(* What the updates of the table do to its rows *)

\* A row that only wears out.
Worn(r, s) ==
  /\ s.kind = r.kind
  /\ r.kind # "none" =>
       /\ s.grant = r.grant /\ s.account = r.account /\ s.prompt = r.prompt /\ s.result = r.result
       /\ r.gone => s.gone
       /\ r.consumed => s.consumed

Tables == [RowId -> StoredRow \cup {Provider!Unused}]

LEMMA UnusedIsNone == Provider!Unused.kind = "none" /\ Provider!Unused \notin StoredRow /\ \A r \in StoredRow : r.kind # "none"
<1>1. Provider!Unused.kind = "none"
  BY DEF Provider!Unused
<1>2. \A r \in StoredRow : r.kind # "none"
  BY DEF StoredRow, Provider!Kinds, Provider!TokenKinds
<1> QED
  BY <1>1, <1>2

LEMMA MarkGone ==
  ASSUME NEW r \in StoredRow
  PROVE  LET s == [r EXCEPT !.gone = TRUE] IN s \in StoredRow /\ Worn(r, s) /\ s.gone /\ s.expired = r.expired
  BY DEF StoredRow, Worn

LEMMA MarkExpired ==
  ASSUME NEW r \in StoredRow
  PROVE  LET s == [r EXCEPT !.expired = TRUE] IN s \in StoredRow /\ Worn(r, s)
  BY DEF StoredRow, Worn

LEMMA MarkConsumed ==
  ASSUME NEW r \in StoredRow
  PROVE  LET s == [r EXCEPT !.consumed = TRUE] IN s \in StoredRow /\ Worn(r, s) /\ s.consumed /\ s.expired = r.expired /\ s.gone = r.gone
  BY DEF StoredRow, Worn

LEMMA WornItself == ASSUME NEW r PROVE Worn(r, r)
  BY DEF Worn

\* Deletion: what is meant is gone, the rest is as it was.
LEMMA DeletedWears ==
  ASSUME table \in Tables, NEW X
  PROVE  /\ Provider!Deleted(X) \in Tables
         /\ \A x \in RowId :
              /\ Worn(table[x], Provider!Deleted(X)[x])
              /\ x \notin X => Provider!Deleted(X)[x] = table[x]
              /\ x \in X /\ table[x].kind # "none" => Provider!Deleted(X)[x].gone
<1>1. ASSUME NEW x \in RowId
      PROVE  LET s == IF x \in X /\ Provider!Stored(x) THEN [table[x] EXCEPT !.gone = TRUE] ELSE table[x]
             IN /\ s \in StoredRow \cup {Provider!Unused} /\ Worn(table[x], s)
                /\ x \notin X => s = table[x]
                /\ x \in X /\ table[x].kind # "none" => s.gone
  <2>1. table[x] \in StoredRow \/ table[x] = Provider!Unused
    BY DEF Tables
  <2>2. CASE x \in X /\ Provider!Stored(x)
    <3>1. table[x] \in StoredRow
      BY <2>1, <2>2, UnusedIsNone DEF Provider!Stored
    <3> QED
      BY <2>2, <3>1, MarkGone
  <2>3. CASE ~(x \in X /\ Provider!Stored(x))
    <3>1. x \in X /\ table[x].kind # "none" => table[x].gone
      BY <2>3 DEF Provider!Stored
    <3> QED
      BY <2>1, <2>3, <3>1, WornItself
  <2> QED
    BY <2>2, <2>3
<1> QED
  BY <1>1 DEF Provider!Deleted, Tables

LEMMA FindWears ==
  ASSUME table \in Tables, NEW x \in RowId
  PROVE  /\ Provider!AfterFind(x) \in Tables
         /\ \A y \in RowId :
              /\ Worn(table[y], Provider!AfterFind(x)[y])
              /\ ~table[y].expired \/ table[y].kind = "none" => Provider!AfterFind(x)[y] = table[y]
<1>1. CASE Provider!Stored(x) /\ table[x].expired
  BY <1>1, DeletedWears DEF Provider!AfterFind, Provider!Stored
<1>2. CASE ~(Provider!Stored(x) /\ table[x].expired)
  BY <1>2, WornItself DEF Provider!AfterFind
<1> QED
  BY <1>1, <1>2

LEMMA ConsumedWears ==
  ASSUME table \in Tables, NEW x \in RowId, table[x].kind # "none"
  PROVE  /\ Provider!Consumed(x) \in Tables
         /\ \A y \in RowId :
              /\ Worn(table[y], Provider!Consumed(x)[y])
              /\ y # x => Provider!Consumed(x)[y] = table[y]
         /\ Provider!Consumed(x)[x].consumed \/ Provider!Consumed(x)[x].gone
<1>0. table[x] \in StoredRow
  BY UnusedIsNone DEF Tables
<1> DEFINE s == [table[x] EXCEPT !.consumed = TRUE]
<1>s. s \in StoredRow /\ Worn(table[x], s) /\ s.consumed
  BY <1>0, MarkConsumed
<1>1. CASE Provider!Stored(x)
  <2>1. Provider!Consumed(x) = [table EXCEPT ![x] = s]
    BY <1>1 DEF Provider!Consumed
  <2> HIDE DEF s
  <2>2. \A y \in RowId : [table EXCEPT ![x] = s][y] = IF y = x THEN s ELSE table[y]
    BY DEF Tables
  <2>3. [table EXCEPT ![x] = s] \in Tables
    BY <1>s DEF Tables
  <2> QED
    BY <1>s, <2>1, <2>2, <2>3, WornItself
<1>2. CASE ~Provider!Stored(x)
  BY <1>2, WornItself DEF Provider!Consumed, Provider!Stored
<1> QED
  BY <1>1, <1>2

LEMMA ExpireWears ==
  ASSUME table \in Tables, NEW x \in RowId, Provider!Readable(x),
         table' = [table EXCEPT ![x].expired = TRUE]
  PROVE  /\ table' \in Tables
         /\ \A y \in RowId : Worn(table[y], table'[y]) /\ (y # x => table'[y] = table[y])
<1>0. table[x] \in StoredRow
  BY UnusedIsNone DEF Tables, Provider!Readable, Provider!Stored
<1> DEFINE s == [table[x] EXCEPT !.expired = TRUE]
<1>s. s \in StoredRow /\ Worn(table[x], s)
  BY <1>0, MarkExpired
<1>1. table' = [table EXCEPT ![x] = s]
  OBVIOUS
<1> HIDE DEF s
<1>2. \A y \in RowId : [table EXCEPT ![x] = s][y] = IF y = x THEN s ELSE table[y]
  BY DEF Tables
<1>3. [table EXCEPT ![x] = s] \in Tables
  BY <1>s DEF Tables
<1> QED
  BY <1>s, <1>1, <1>2, <1>3, WornItself

LEMMA PromptSet ==
  ASSUME NEW r \in StoredRow, NEW v \in {"login", "consent"}
  PROVE  LET s == [r EXCEPT !.prompt = v] IN
           /\ s \in StoredRow /\ s.prompt = v /\ s.kind = r.kind /\ s.grant = r.grant /\ s.account = r.account
           /\ s.result = r.result /\ s.consumed = r.consumed /\ s.expired = r.expired /\ s.gone = r.gone
  BY DEF StoredRow

LEMMA RowSet ==
  ASSUME NEW t \in Tables, NEW x \in RowId, NEW r \in StoredRow
  PROVE  [t EXCEPT ![x] = r] \in Tables /\ \A y \in RowId : [t EXCEPT ![x] = r][y] = IF y = x THEN r ELSE t[y]
  BY DEF Tables

LEMMA FreshAreNone == \A x \in Provider!Fresh : x \in RowId /\ table[x].kind = "none"
  BY DEF Provider!Fresh

\* The interaction that a decision leaves behind.
LEMMA Answers ==
  ASSUME NEW r \in StoredRow, NEW j \in Serve, j.at \in {"login", "consent", "deny"}
  PROVE  LET s == Provider!Answered(r, j) IN
           /\ s \in StoredRow /\ s.kind = r.kind /\ s.prompt = r.prompt /\ s.consumed = r.consumed
           /\ s.result = j.at /\ s.gone = FALSE /\ s.expired = FALSE
           /\ s.account = IF j.at = "login" THEN j.by ELSE r.account
           /\ s.grant = IF j.at = "consent" THEN j.grant ELSE r.grant
<1> DEFINE v == j.at
           a == IF j.at = "login" THEN j.by ELSE r.account
           g == IF j.at = "consent" THEN j.grant ELSE r.grant
<1>0. v \in {"login", "consent", "deny"} /\ a \in Subject \cup {Nil} /\ g \in {0} \cup RowId
  BY DEF Serve, StoredRow
<1> HIDE DEF v, a, g
<1> DEFINE k1 == [r EXCEPT !.result = v]
<1>1. /\ k1 \in StoredRow /\ k1.kind = r.kind /\ k1.prompt = r.prompt /\ k1.consumed = r.consumed /\ k1.result = v
  BY <1>0 DEF StoredRow
<1> HIDE DEF k1
<1> DEFINE k2 == [k1 EXCEPT !.gone = FALSE]
<1>2. /\ k2 \in StoredRow /\ k2.kind = k1.kind /\ k2.prompt = k1.prompt /\ k2.consumed = k1.consumed /\ k2.result = k1.result
      /\ k2.gone = FALSE
  BY <1>1 DEF StoredRow
<1> HIDE DEF k2
<1> DEFINE k3 == [k2 EXCEPT !.expired = FALSE]
<1>3. /\ k3 \in StoredRow /\ k3.kind = k2.kind /\ k3.prompt = k2.prompt /\ k3.consumed = k2.consumed /\ k3.result = k2.result
      /\ k3.gone = k2.gone /\ k3.expired = FALSE
  BY <1>2 DEF StoredRow
<1> HIDE DEF k3
<1> DEFINE k4 == [k3 EXCEPT !.account = a]
<1>4. /\ k4 \in StoredRow /\ k4.kind = k3.kind /\ k4.prompt = k3.prompt /\ k4.consumed = k3.consumed /\ k4.result = k3.result
      /\ k4.gone = k3.gone /\ k4.expired = k3.expired /\ k4.account = a
  BY <1>0, <1>3 DEF StoredRow
<1> HIDE DEF k4
<1> DEFINE k5 == [k4 EXCEPT !.grant = g]
<1>5. /\ k5 \in StoredRow /\ k5.kind = k4.kind /\ k5.prompt = k4.prompt /\ k5.consumed = k4.consumed /\ k5.result = k4.result
      /\ k5.gone = k4.gone /\ k5.expired = k4.expired /\ k5.account = k4.account /\ k5.grant = g
  BY <1>0, <1>4 DEF StoredRow
<1> HIDE DEF k5
<1>6. Provider!Answered(r, j) = k5
  BY DEF Provider!Answered, Provider!GrantColumn, v, a, g, k1, k2, k3, k4, k5
<1>7. LET s == k5 IN
        /\ s \in StoredRow /\ s.kind = r.kind /\ s.prompt = r.prompt /\ s.consumed = r.consumed
        /\ s.result = v /\ s.gone = FALSE /\ s.expired = FALSE /\ s.account = a /\ s.grant = g
  BY <1>1, <1>2, <1>3, <1>4, <1>5
<1> QED
  BY <1>6, <1>7 DEF v, a, g

-----------------------------------------------------------------------------
(* What the steps do *)

\* A row is added; the others may wear out.
Adds(x) ==
  /\ x \in RowId /\ table[x].kind = "none" /\ table' \in Tables /\ table'[x] \in StoredRow
  /\ \A y \in RowId \ {x} : Worn(table[y], table'[y])

Wears == table' \in Tables /\ \A y \in RowId : Worn(table[y], table'[y])

\* One request moves on.
Moves(p, s) == serving' \in [Proc -> Serve] /\ serving'[p] = s /\ \A q \in Proc \ {p} : serving'[q] = serving[q]

IdleRequest == Provider!Idle

LEMMA IdleServe == IdleRequest \in Serve /\ IdleRequest.at = "idle" /\ IdleRequest.row = 0
  BY DEF IdleRequest, Provider!Idle, Serve

LEMMA MoveSet ==
  ASSUME serving \in [Proc -> Serve], NEW p \in Proc, NEW s \in Serve, serving' = [serving EXCEPT ![p] = s]
  PROVE  Moves(p, s)
  BY DEF Moves

LEMMA AtSet ==
  ASSUME NEW s \in Serve, NEW w \in Decision \cup Redemption
  PROVE  LET t == [s EXCEPT !.at = w] IN
           t \in Serve /\ t.at = w /\ t.row = s.row /\ t.by = s.by /\ t.grant = s.grant /\ t.todo = s.todo
  BY DEF Serve

LEMMA AuthRequestDoes ==
  ASSUME ProviderShapes, NEW a \in Subject \cup {Nil}, Provider!AuthRequest(a)
  PROVE  /\ \E x \in RowId :
              /\ Adds(x) /\ (\A y \in RowId \ {x} : table'[y] = table[y])
              /\ table'[x].kind = "Interaction" /\ table'[x].account = a /\ table'[x].result = Nil
              /\ table'[x].prompt = IF a = Nil THEN "login" ELSE "consent"
              /\ ~table'[x].gone /\ ~table'[x].expired /\ waiting' = waiting \cup {x}
         /\ UNCHANGED <<task, serving, registered, redeemed, rushed, over, late, hits, reach, passed>>
<1>1. PICK x \in Provider!Fresh, g \in {0} \cup RowId :
        /\ table' = [table EXCEPT ![x] = [Provider!Row("Interaction", g, a) EXCEPT !.prompt = IF a = Nil THEN "login" ELSE "consent"]]
        /\ waiting' = waiting \cup {x}
  BY DEF Provider!AuthRequest, Provider!GrantColumn
<1> DEFINE v == IF a = Nil THEN "login" ELSE "consent"
           r == Provider!Row("Interaction", g, a)
           s == [r EXCEPT !.prompt = v]
<1>2. /\ r \in StoredRow /\ r.kind = "Interaction" /\ r.account = a /\ r.result = Nil /\ r.expired = FALSE /\ r.gone = FALSE
  BY DEF StoredRow, Provider!Kinds, Provider!Row
<1>3. v \in {"login", "consent"}
  OBVIOUS
<1> HIDE DEF r, v
<1>4. s \in StoredRow /\ s.prompt = v /\ s.kind = "Interaction" /\ s.account = a /\ s.result = Nil /\ s.expired = FALSE /\ s.gone = FALSE
  BY <1>2, <1>3, PromptSet, ZenonT(60)
<1>5. table' = [table EXCEPT ![x] = s]
  BY <1>1 DEF r, v
<1> HIDE DEF s
<1>6. x \in RowId /\ table[x].kind = "none" /\ table \in Tables
  BY FreshAreNone DEF ProviderShapes, Tables
<1>7. table' \in Tables /\ \A y \in RowId : table'[y] = IF y = x THEN s ELSE table[y]
  <2>1. [table EXCEPT ![x] = s] \in Tables /\ \A y \in RowId : [table EXCEPT ![x] = s][y] = IF y = x THEN s ELSE table[y]
    BY <1>4, <1>6, RowSet
  <2> QED
    BY <1>5, <2>1
<1>8. Adds(x)
  BY <1>4, <1>6, <1>7, WornItself DEF Adds
<1>9. UNCHANGED <<task, serving, registered, redeemed, rushed, over, late, hits, reach, passed>>
  BY DEF Provider!AuthRequest, Provider!guards
<1> QED
  BY <1>1, <1>4, <1>6, <1>7, <1>8, <1>9 DEF v

\* A request begins with a decision, or with a code or refresh token.
Chosen(d, x, u) == [Provider!Idle EXCEPT !.at = d, !.row = x, !.by = u]
Begun(w, x, g) == [Provider!Idle EXCEPT !.at = w, !.row = x, !.grant = g, !.todo = Provider!TokenKinds]
Consenting(s, x) == [s EXCEPT !.at = "consent", !.grant = x]

LEMMA ChosenServes ==
  ASSUME NEW d \in Decision, NEW x \in RowId, NEW u \in Subject
  PROVE  LET s == Chosen(d, x, u) IN s \in Serve /\ s.at = d /\ s.row = x /\ s.by = u
<1> DEFINE i == Provider!Idle
<1>0. i \in Serve
  BY IdleServe DEF IdleRequest
<1> HIDE DEF i
<1> DEFINE k1 == [i EXCEPT !.at = d]
<1>1. k1 \in Serve /\ k1.at = d
  BY <1>0 DEF Serve
<1> HIDE DEF k1
<1> DEFINE k2 == [k1 EXCEPT !.row = x]
<1>2. k2 \in Serve /\ k2.at = d /\ k2.row = x
  BY <1>1 DEF Serve
<1> HIDE DEF k2
<1> DEFINE k3 == [k2 EXCEPT !.by = u]
<1>3. k3 \in Serve /\ k3.at = d /\ k3.row = x /\ k3.by = u
  BY <1>2 DEF Serve
<1> HIDE DEF k3
<1>4. Chosen(d, x, u) = k3
  BY DEF Chosen, i, k1, k2, k3
<1> QED
  BY <1>3, <1>4

LEMMA BegunServes ==
  ASSUME NEW w \in Redemption, NEW x \in RowId, NEW g \in RowId
  PROVE  LET s == Begun(w, x, g) IN s \in Serve /\ s.at = w /\ s.row = x /\ s.grant = g /\ s.todo = Provider!TokenKinds
<1> DEFINE i == Provider!Idle
<1>0. i \in Serve
  BY IdleServe DEF IdleRequest
<1> HIDE DEF i
<1> DEFINE k1 == [i EXCEPT !.at = w]
<1>1. k1 \in Serve /\ k1.at = w
  BY <1>0 DEF Serve
<1> HIDE DEF k1
<1> DEFINE k2 == [k1 EXCEPT !.row = x]
<1>2. k2 \in Serve /\ k2.at = w /\ k2.row = x
  BY <1>1 DEF Serve
<1> HIDE DEF k2
<1> DEFINE k3 == [k2 EXCEPT !.grant = g]
<1>3. k3 \in Serve /\ k3.at = w /\ k3.row = x /\ k3.grant = g
  BY <1>2 DEF Serve
<1> HIDE DEF k3
<1> DEFINE k4 == [k3 EXCEPT !.todo = Provider!TokenKinds]
<1>4. k4 \in Serve /\ k4.at = w /\ k4.row = x /\ k4.grant = g /\ k4.todo = Provider!TokenKinds
  BY <1>3 DEF Serve
<1> HIDE DEF k4
<1>5. Begun(w, x, g) = k4
  BY DEF Begun, i, k1, k2, k3, k4
<1> QED
  BY <1>4, <1>5

LEMMA ConsentingServes ==
  ASSUME NEW s \in Serve, NEW x \in RowId
  PROVE  LET t == Consenting(s, x) IN t \in Serve /\ t.at = "consent" /\ t.row = s.row /\ t.by = s.by /\ t.grant = x
<1> DEFINE k1 == [s EXCEPT !.at = "consent"]
<1>1. k1 \in Serve /\ k1.at = "consent" /\ k1.row = s.row /\ k1.by = s.by
  BY DEF Serve, Decision
<1> HIDE DEF k1
<1> DEFINE k2 == [k1 EXCEPT !.grant = x]
<1>2. k2 \in Serve /\ k2.at = k1.at /\ k2.row = k1.row /\ k2.by = k1.by /\ k2.grant = x
  BY <1>1 DEF Serve
<1> HIDE DEF k2
<1>3. Consenting(s, x) = k2
  BY DEF Consenting, k1, k2
<1> QED
  BY <1>1, <1>2, <1>3

LEMMA DecideDoes ==
  ASSUME ProviderShapes, NEW p \in Proc, NEW x \in RowId, NEW u \in Subject, Provider!Decide(p, x, u)
  PROVE  /\ Wears /\ (\A y \in RowId : ~table[y].expired \/ table[y].kind = "none" => table'[y] = table[y])
         /\ serving[p].at = "idle" /\ Asking(x)
         /\ \/ serving' = serving
            \/ \E s \in Serve :
                 /\ Moves(p, s) /\ s.row = x /\ s.by = u /\ s.at \in {"deny", "login", "grant"}
                 /\ table[x].account \in {Nil, u}
                 /\ s.at = "login" => table[x].prompt = "login"
                 /\ s.at = "grant" => table[x].prompt # "login"
         /\ UNCHANGED <<task, registered, waiting, redeemed, rushed, over, late, hits, reach, passed>>
<1>1. /\ serving[p].at = "idle" /\ Asking(x) /\ table' = Provider!AfterFind(x)
      /\ UNCHANGED <<task, registered, waiting, redeemed, rushed, over, late, hits, reach, passed>>
  BY DEF Provider!Decide, Provider!At, Asking, Provider!guards, Provider!histories
<1>2. table \in Tables /\ serving \in [Proc -> Serve]
  BY DEF ProviderShapes, Tables
<1>3. Wears /\ (\A y \in RowId : ~table[y].expired \/ table[y].kind = "none" => table'[y] = table[y])
  BY <1>1, <1>2, FindWears DEF Wears
<1>4. ASSUME serving' # serving
      PROVE  \E s \in Serve :
                 /\ Moves(p, s) /\ s.row = x /\ s.by = u /\ s.at \in {"deny", "login", "grant"}
                 /\ table[x].account \in {Nil, u}
                 /\ s.at = "login" => table[x].prompt = "login"
                 /\ s.at = "grant" => table[x].prompt # "login"
  <2>1. Provider!Readable(x) /\ Provider!May(x, u)
    BY <1>4 DEF Provider!Decide
  <2>2. PICK d \in {"deny", IF table[x].prompt = "login" THEN "login" ELSE "grant"} :
          serving' = [serving EXCEPT ![p] = Chosen(d, x, u)]
    BY <2>1 DEF Provider!Decide, Chosen
  <2>3. /\ d \in {"deny", "login", "grant"} /\ d \in Decision
        /\ d = "login" => table[x].prompt = "login"
        /\ d = "grant" => table[x].prompt # "login"
    BY DEF Decision
  <2> DEFINE s == Chosen(d, x, u)
  <2>4. s \in Serve /\ s.at = d /\ s.row = x /\ s.by = u
    BY <2>3, ChosenServes
  <2>5. serving' = [serving EXCEPT ![p] = s]
    BY <2>2
  <2> HIDE DEF s
  <2>6. Moves(p, s)
    BY <1>2, <2>4, <2>5, MoveSet
  <2> QED
    BY <2>1, <2>3, <2>4, <2>6 DEF Provider!May
<1> QED
  BY <1>1, <1>3, <1>4

LEMMA SaveGrantDoes ==
  ASSUME ProviderShapes, RequestsAgree, NEW p \in Proc, Provider!SaveGrant(p)
  PROVE  /\ serving[p].at = "grant"
         /\ \E x \in RowId, s \in Serve :
              /\ Adds(x) /\ (\A y \in RowId \ {x} : table'[y] = table[y])
              /\ table'[x].kind = "Grant" /\ table'[x].account = serving[p].by /\ ~table'[x].gone
              /\ Moves(p, s) /\ s.at = "consent" /\ s.row = serving[p].row /\ s.by = serving[p].by /\ s.grant = x
         /\ UNCHANGED <<task, registered, waiting, redeemed, rushed, over, late, hits, reach, passed>>
<1>1. PICK x \in Provider!Fresh :
        /\ table' = [table EXCEPT ![x] = Provider!Row("Grant", 0, serving[p].by)]
        /\ serving' = [serving EXCEPT ![p].at = "consent", ![p].grant = x]
  BY DEF Provider!SaveGrant
<1>2. /\ serving[p].at = "grant"
      /\ UNCHANGED <<task, registered, waiting, redeemed, rushed, over, late, hits, reach, passed>>
  BY DEF Provider!SaveGrant, Provider!At, Provider!guards, Provider!histories
<1>3. /\ x \in RowId /\ table[x].kind = "none" /\ table \in Tables /\ serving \in [Proc -> Serve]
      /\ serving[p].by \in Subject \cup {Nil}
  BY FreshAreNone DEF ProviderShapes, Tables, Serve
<1> DEFINE r == Provider!Row("Grant", 0, serving[p].by)
<1>4. r \in StoredRow /\ r.kind = "Grant" /\ r.account = serving[p].by /\ r.gone = FALSE
  BY <1>3 DEF StoredRow, Provider!Kinds, Provider!Row
<1>5. table' = [table EXCEPT ![x] = r]
  BY <1>1
<1> HIDE DEF r
<1>6. table' \in Tables /\ \A y \in RowId : table'[y] = IF y = x THEN r ELSE table[y]
  <2>1. [table EXCEPT ![x] = r] \in Tables /\ \A y \in RowId : [table EXCEPT ![x] = r][y] = IF y = x THEN r ELSE table[y]
    BY <1>3, <1>4, RowSet
  <2> QED
    BY <1>5, <2>1
<1> DEFINE s == Consenting(serving[p], x)
<1>7. s \in Serve /\ s.at = "consent" /\ s.row = serving[p].row /\ s.by = serving[p].by /\ s.grant = x
  BY <1>3, ConsentingServes
<1>8. serving' = [serving EXCEPT ![p] = s]
  BY <1>1, <1>3 DEF Consenting
<1> HIDE DEF s
<1>9. Moves(p, s)
  BY <1>3, <1>7, <1>8, MoveSet
<1>10. Adds(x)
  BY <1>3, <1>4, <1>6, WornItself DEF Adds
<1> QED
  BY <1>2, <1>3, <1>4, <1>6, <1>7, <1>9, <1>10

LEMMA FinishDoes ==
  ASSUME ProviderShapes, RequestsAgree, NEW p \in Proc, Provider!Finish(p)
  PROVE  /\ serving[p].at \in {"login", "consent", "deny"} /\ table' \in Tables
         /\ \A y \in RowId \ {serving[p].row} : table'[y] = table[y]
         /\ LET r == table[serving[p].row]
                s == table'[serving[p].row]
            IN /\ s \in StoredRow /\ s.kind = r.kind /\ s.prompt = r.prompt /\ s.consumed = r.consumed
               /\ s.result = serving[p].at /\ s.gone = FALSE /\ s.expired = FALSE
               /\ s.account = IF serving[p].at = "login" THEN serving[p].by ELSE r.account
               /\ s.grant = IF serving[p].at = "consent" THEN serving[p].grant ELSE r.grant
         /\ Moves(p, IdleRequest) /\ waiting' = waiting \ {serving[p].row}
         /\ UNCHANGED <<task, registered, redeemed, rushed, over, late, hits, reach, passed>>
<1> DEFINE x == serving[p].row
           s == Provider!Answered(table[x], serving[p])
<1>1. /\ serving[p].at \in {"login", "consent", "deny"}
      /\ serving' = [serving EXCEPT ![p] = IdleRequest] /\ waiting' = waiting \ {x}
      /\ UNCHANGED <<task, registered, redeemed, rushed, over, late, hits, reach, passed>>
  BY DEF Provider!Finish, Provider!guards, Provider!Reply, IdleRequest
<1>2. table' = [table EXCEPT ![x] = s]
  BY DEF Provider!Finish
<1>3. table \in Tables /\ serving \in [Proc -> Serve] /\ serving[p] \in Serve
  BY DEF ProviderShapes, Tables
<1>4. x \in RowId /\ table[x] \in StoredRow
  <2>1. x \in RowId /\ Asking(x)
    BY <1>1 DEF RequestsAgree, RequestAgrees, Decision
  <2> QED
    BY <1>3, <2>1, UnusedIsNone DEF Tables, Asking
<1>6. /\ s \in StoredRow /\ s.kind = table[x].kind /\ s.prompt = table[x].prompt /\ s.consumed = table[x].consumed
      /\ s.result = serving[p].at /\ s.gone = FALSE /\ s.expired = FALSE
      /\ s.account = IF serving[p].at = "login" THEN serving[p].by ELSE table[x].account
      /\ s.grant = IF serving[p].at = "consent" THEN serving[p].grant ELSE table[x].grant
  BY <1>1, <1>3, <1>4, Answers
<1> HIDE DEF s
<1>7. table' \in Tables /\ \A y \in RowId : table'[y] = IF y = x THEN s ELSE table[y]
  <2>1. [table EXCEPT ![x] = s] \in Tables /\ \A y \in RowId : [table EXCEPT ![x] = s][y] = IF y = x THEN s ELSE table[y]
    BY <1>3, <1>4, <1>6, RowSet
  <2> QED
    BY <1>2, <2>1
<1>8. Moves(p, IdleRequest)
  BY <1>1, <1>3, IdleServe, MoveSet
<1> QED
  BY <1>1, <1>4, <1>6, <1>7, <1>8

LEMMA ResumeDoes ==
  ASSUME ProviderShapes, NEW x \in RowId, Provider!Resume(x)
  PROVE  /\ ~table[x].gone /\ table[x].kind = "Interaction" /\ waiting' = waiting \ {x}
         /\ \A y \in RowId \ {x} : table[y].kind # "none" => table'[y] = table[y]
         /\ \/ Wears /\ \A y \in RowId \ {x} : table'[y] = table[y]
            \/ \E y \in RowId \ {x} :
                 /\ Agreed(x) /\ Adds(y) /\ table'[x].gone
                 /\ \A z \in RowId \ {x, y} : table'[z] = table[z]
                 /\ table'[y].kind = "AuthorizationCode" /\ table'[y].grant = table[x].grant
                 /\ table'[y].account = table[x].account /\ ~table'[y].consumed
         /\ UNCHANGED <<task, serving, registered, redeemed, rushed, over, late, hits, reach, passed>>
<1>1. /\ Provider!Readable(x) /\ table[x].kind = "Interaction" /\ waiting' = waiting \ {x}
      /\ UNCHANGED <<task, serving, registered, redeemed, rushed, over, late, hits, reach, passed>>
  BY DEF Provider!Resume, Provider!guards
<1>2. /\ ~table[x].gone /\ table \in Tables /\ table[x] \in StoredRow
  <2>1. table \in Tables /\ ~table[x].gone
    BY <1>1 DEF ProviderShapes, Tables, Provider!Readable, Provider!Stored
  <2> QED
    BY <1>1, <2>1, UnusedIsNone DEF Tables
<1> DEFINE t == Provider!Deleted({x})
<1>3. /\ t \in Tables /\ \A y \in RowId : Worn(table[y], t[y]) /\ (y # x => t[y] = table[y])
      /\ t[x].gone
  BY <1>1, <1>2, DeletedWears
<1>4. CASE table[x].result # "consent"
  <2>1. table' = t
    BY <1>4 DEF Provider!Resume
  <2> HIDE DEF t
  <2> QED
    BY <1>1, <1>2, <1>3, <2>1 DEF Wears
<1>5. CASE table[x].result = "consent"
  <2> DEFINE r == Provider!Row("AuthorizationCode", table[x].grant, table[x].account)
  <2>1. PICK y \in Provider!Fresh : table' = [t EXCEPT ![y] = r]
    BY <1>5 DEF Provider!Resume, Provider!GrantColumn
  <2>2. /\ r \in StoredRow /\ r.kind = "AuthorizationCode" /\ r.grant = table[x].grant /\ r.account = table[x].account
        /\ r.consumed = FALSE
    BY <1>2 DEF StoredRow, Provider!Kinds, Provider!TokenKinds, Provider!Row
  <2> HIDE DEF t, r
  <2>3. y \in RowId /\ table[y].kind = "none" /\ y # x
    BY <1>1, FreshAreNone
  <2>4. table' \in Tables /\ \A z \in RowId : table'[z] = IF z = y THEN r ELSE t[z]
    <3>1. [t EXCEPT ![y] = r] \in Tables /\ \A z \in RowId : [t EXCEPT ![y] = r][z] = IF z = y THEN r ELSE t[z]
      BY <1>3, <2>2, <2>3, RowSet
    <3> QED
      BY <2>1, <3>1
  <2>5. Adds(y)
    BY <1>3, <2>2, <2>3, <2>4 DEF Adds
  <2> QED
    BY <1>1, <1>2, <1>3, <1>5, <2>2, <2>3, <2>4, <2>5 DEF Agreed, Asking
<1> QED
  BY <1>4, <1>5

LEMMA RedeemDoes ==
  ASSUME ProviderShapes, RowsAgree, NEW p \in Proc, NEW x \in RowId, Provider!Redeem(p, x)
  PROVE  /\ Wears /\ (\A y \in RowId : ~table[y].expired \/ table[y].kind = "none" => table'[y] = table[y])
         /\ serving[p].at = "idle" /\ IsToken(x)
         /\ \/ serving' = serving
            \/ \E s \in Serve :
                 /\ Moves(p, s) /\ s.row = x /\ s.grant = table[x].grant /\ s.todo = Provider!TokenKinds
                 /\ ~table[x].gone
                 /\ s.at = IF table[x].consumed THEN "revoke" ELSE "consume"
         /\ rushed' = IF \E q \in Proc : serving[q].row = x THEN rushed \cup {x} ELSE rushed
         /\ UNCHANGED <<task, registered, waiting, redeemed, over, late, hits, reach, passed>>
<1>1. /\ serving[p].at = "idle" /\ IsToken(x) /\ table' = Provider!AfterFind(x)
      /\ rushed' = IF \E q \in Proc : serving[q].row = x THEN rushed \cup {x} ELSE rushed
      /\ UNCHANGED <<task, registered, waiting, redeemed, over, late, hits, reach, passed>>
  BY DEF Provider!Redeem, Provider!At, IsToken, Provider!guards
<1>2. table \in Tables /\ serving \in [Proc -> Serve]
  BY DEF ProviderShapes, Tables
<1>3. Wears /\ (\A y \in RowId : ~table[y].expired \/ table[y].kind = "none" => table'[y] = table[y])
  BY <1>1, <1>2, FindWears DEF Wears
<1>4. ASSUME serving' # serving
      PROVE  \E s \in Serve :
                 /\ Moves(p, s) /\ s.row = x /\ s.grant = table[x].grant /\ s.todo = Provider!TokenKinds
                 /\ ~table[x].gone
                 /\ s.at = IF table[x].consumed THEN "revoke" ELSE "consume"
  <2>1. Provider!Readable(x)
    BY <1>4 DEF Provider!Redeem
  <2> DEFINE w == IF table[x].consumed THEN "revoke" ELSE "consume"
             s == Begun(w, x, table[x].grant)
  <2>2. serving' = [serving EXCEPT ![p] = s]
    BY <1>4 DEF Provider!Redeem, Begun
  <2>3. w \in Redemption /\ table[x].grant \in RowId
    BY <1>1 DEF RowsAgree, RowAgrees, IsGrant, Redemption
  <2> HIDE DEF w
  <2>4. s \in Serve /\ s.at = w /\ s.row = x /\ s.grant = table[x].grant /\ s.todo = Provider!TokenKinds
    BY <2>3, BegunServes
  <2> HIDE DEF s
  <2>5. Moves(p, s)
    BY <1>2, <2>2, <2>4, MoveSet
  <2>6. ~table[x].gone
    BY <2>1 DEF Provider!Readable, Provider!Stored
  <2> QED
    BY <2>4, <2>5, <2>6 DEF w
<1> QED
  BY <1>1, <1>3, <1>4

LEMMA ConsumeDoes ==
  ASSUME ProviderShapes, RequestsAgree, NEW p \in Proc, Provider!Consume(p)
  PROVE  /\ serving[p].at = "consume" /\ Wears
         /\ \A y \in RowId : y # serving[p].row => table'[y] = table[y]
         /\ table'[serving[p].row].consumed \/ table'[serving[p].row].gone
         /\ \E s \in Serve : Moves(p, s) /\ s.at = "save" /\ s.row = serving[p].row /\ s.grant = serving[p].grant
         /\ UNCHANGED <<task, registered, waiting, redeemed, rushed, over, late, hits, reach, passed>>
<1>1. /\ serving[p].at = "consume" /\ table' = Provider!Consumed(serving[p].row)
      /\ serving' = [serving EXCEPT ![p].at = "save"]
      /\ UNCHANGED <<task, registered, waiting, redeemed, rushed, over, late, hits, reach, passed>>
  BY DEF Provider!Consume, Provider!At, Provider!Goto, Provider!guards, Provider!histories
<1>2. table \in Tables /\ serving \in [Proc -> Serve] /\ serving[p] \in Serve
  BY DEF ProviderShapes, Tables
<1>3. serving[p].row \in RowId /\ table[serving[p].row].kind # "none"
  BY <1>1 DEF RequestsAgree, RequestAgrees, Redemption, IsToken, Provider!TokenKinds
<1>4. /\ Wears /\ (\A y \in RowId : y # serving[p].row => table'[y] = table[y])
      /\ table'[serving[p].row].consumed \/ table'[serving[p].row].gone
  BY <1>1, <1>2, <1>3, ConsumedWears DEF Wears
<1> DEFINE s == [serving[p] EXCEPT !.at = "save"]
<1>5. s \in Serve /\ s.at = "save" /\ s.row = serving[p].row /\ s.grant = serving[p].grant
  BY <1>2, AtSet DEF Redemption
<1>6. serving' = [serving EXCEPT ![p] = s]
  BY <1>1
<1> HIDE DEF s
<1>7. Moves(p, s)
  BY <1>2, <1>5, <1>6, MoveSet
<1> QED
  BY <1>1, <1>4, <1>5, <1>7

LEMMA SaveTokensDoes ==
  ASSUME ProviderShapes, RequestsAgree, NEW p \in Proc, Provider!SaveTokens(p)
  PROVE  /\ serving[p].at = "save" /\ Moves(p, IdleRequest)
         /\ redeemed' = [redeemed EXCEPT ![serving[p].row] = @ + 1]
         /\ \E y \in RowId :
              /\ Adds(y) /\ (\A z \in RowId \ {y} : table'[z] = table[z])
              /\ table'[y].kind = "RefreshToken" /\ table'[y].grant = serving[p].grant /\ ~table'[y].consumed
              /\ late' = IF ~Provider!Stored(serving[p].grant)
                             \/ \E q \in Proc : serving[q].at = "revoke" /\ serving[q].grant = serving[p].grant
                         THEN late \cup {y} ELSE late
         /\ UNCHANGED <<task, registered, waiting, rushed, over, hits, reach, passed>>
<1>1. /\ serving[p].at = "save" /\ serving' = [serving EXCEPT ![p] = IdleRequest]
      /\ redeemed' = [redeemed EXCEPT ![serving[p].row] = @ + 1]
      /\ UNCHANGED <<task, registered, waiting, rushed, over, hits, reach, passed>>
  BY DEF Provider!SaveTokens, Provider!At, Provider!Reply, Provider!guards, IdleRequest
<1>2. table \in Tables /\ serving \in [Proc -> Serve] /\ serving[p] \in Serve
  BY DEF ProviderShapes, Tables
<1> DEFINE r == Provider!Row("RefreshToken", serving[p].grant, table[serving[p].row].account)
<1>3. PICK y \in Provider!Fresh :
        /\ table' = [table EXCEPT ![y] = r]
        /\ late' = IF ~Provider!Stored(serving[p].grant)
                       \/ \E q \in Proc : serving[q].at = "revoke" /\ serving[q].grant = serving[p].grant
                   THEN late \cup {y} ELSE late
  BY DEF Provider!SaveTokens, Provider!GrantColumn, Provider!At
<1>4. table[serving[p].row].account \in Subject \cup {Nil} /\ serving[p].grant \in {0} \cup RowId
  <2>1. serving[p].row \in RowId /\ IsToken(serving[p].row)
    BY <1>1 DEF RequestsAgree, RequestAgrees, Redemption
  <2>2. table[serving[p].row] \in StoredRow
    BY <1>2, <2>1, UnusedIsNone DEF Tables, IsToken, Provider!TokenKinds
  <2> QED
    BY <1>2, <2>2 DEF StoredRow, Serve
<1>5. r \in StoredRow /\ r.kind = "RefreshToken" /\ r.grant = serving[p].grant /\ r.consumed = FALSE
  BY <1>4 DEF StoredRow, Provider!Kinds, Provider!TokenKinds, Provider!Row
<1> HIDE DEF r
<1>6. y \in RowId /\ table[y].kind = "none"
  BY FreshAreNone
<1>7. table' \in Tables /\ \A z \in RowId : table'[z] = IF z = y THEN r ELSE table[z]
  <2>1. [table EXCEPT ![y] = r] \in Tables /\ \A z \in RowId : [table EXCEPT ![y] = r][z] = IF z = y THEN r ELSE table[z]
    BY <1>2, <1>5, <1>6, RowSet
  <2> QED
    BY <1>3, <2>1
<1>8. Adds(y)
  BY <1>5, <1>6, <1>7, WornItself DEF Adds
<1>9. Moves(p, IdleRequest)
  BY <1>1, <1>2, IdleServe, MoveSet
<1> QED
  BY <1>1, <1>3, <1>5, <1>6, <1>7, <1>8, <1>9

LEMMA RevokeDoes ==
  ASSUME ProviderShapes, NEW p \in Proc, Provider!RevokeByGrantId(p)
  PROVE  /\ serving[p].at = "revoke"
         /\ \E k \in Provider!TokenKinds, s \in Serve :
              /\ Wears
              /\ \A y \in RowId : ~(table[y].kind = k /\ table[y].grant = serving[p].grant) => table'[y] = table[y]
              /\ \A y \in RowId : table[y].kind = k /\ table[y].grant = serving[p].grant => table'[y].gone
              /\ Moves(p, s) /\ s.at = "revoke" /\ s.row = serving[p].row /\ s.grant = serving[p].grant
              /\ s.todo = serving[p].todo \ {k}
         /\ UNCHANGED <<task, registered, waiting, redeemed, rushed, over, late, hits, reach, passed>>
<1>1. PICK k \in serving[p].todo :
        /\ table' = Provider!Deleted(Provider!OfGrant(k, serving[p].grant))
        /\ serving' = [serving EXCEPT ![p].todo = @ \ {k}]
  BY DEF Provider!RevokeByGrantId
<1>2. /\ serving[p].at = "revoke"
      /\ UNCHANGED <<task, registered, waiting, redeemed, rushed, over, late, hits, reach, passed>>
  BY DEF Provider!RevokeByGrantId, Provider!At, Provider!guards, Provider!histories
<1>3. table \in Tables /\ serving \in [Proc -> Serve] /\ serving[p] \in Serve
  BY DEF ProviderShapes, Tables
<1>4. k \in Provider!TokenKinds /\ k # "none"
  BY <1>1, <1>3 DEF Serve, Provider!TokenKinds
<1> DEFINE X == Provider!OfGrant(k, serving[p].grant)
<1>5. X = {x \in RowId : Provider!Stored(x) /\ table[x].kind = k /\ table[x].grant = serving[p].grant}
  BY DEF Provider!OfGrant
<1>6. \A y \in RowId : table[y].kind = k /\ table[y].grant = serving[p].grant => y \in X \/ table[y].gone
  BY <1>4, <1>5 DEF Provider!Stored
<1>7. \A y \in X : y \in RowId /\ table[y].kind = k /\ table[y].grant = serving[p].grant
  BY <1>5
<1> HIDE DEF X
<1>8. /\ table' \in Tables
      /\ \A y \in RowId : Worn(table[y], table'[y]) /\ (y \notin X => table'[y] = table[y])
           /\ (y \in X /\ table[y].kind # "none" => table'[y].gone)
  BY <1>1, <1>3, DeletedWears DEF X
<1>9. \A y \in RowId : table[y].kind = k /\ table[y].grant = serving[p].grant => table'[y].gone
  BY <1>4, <1>6, <1>8 DEF Worn
<1> DEFINE s == [serving[p] EXCEPT !.todo = serving[p].todo \ {k}]
<1>10. s \in Serve /\ s.at = "revoke" /\ s.row = serving[p].row /\ s.grant = serving[p].grant /\ s.todo = serving[p].todo \ {k}
  BY <1>2, <1>3 DEF Serve
<1>11. serving' = [serving EXCEPT ![p] = s]
  BY <1>1
<1> HIDE DEF s
<1>12. Moves(p, s)
  BY <1>3, <1>10, <1>11, MoveSet
<1> QED
  BY <1>2, <1>4, <1>7, <1>8, <1>9, <1>10, <1>12 DEF Wears

LEMMA DestroyDoes ==
  ASSUME ProviderShapes, NEW p \in Proc, Provider!DestroyGrant(p)
  PROVE  /\ serving[p].at = "revoke" /\ serving[p].todo = {} /\ Moves(p, IdleRequest) /\ Wears
         /\ \A y \in RowId : y # serving[p].grant => table'[y] = table[y]
         /\ serving[p].grant \in RowId /\ table[serving[p].grant].kind # "none" => table'[serving[p].grant].gone
         /\ over' = over \cup {serving[p].grant}
         /\ UNCHANGED <<task, registered, waiting, redeemed, rushed, late, hits, reach, passed>>
<1>1. /\ serving[p].at = "revoke" /\ serving[p].todo = {} /\ table' = Provider!Deleted({serving[p].grant})
      /\ serving' = [serving EXCEPT ![p] = IdleRequest] /\ over' = over \cup {serving[p].grant}
      /\ UNCHANGED <<task, registered, waiting, redeemed, rushed, late, hits, reach, passed>>
  BY DEF Provider!DestroyGrant, Provider!At, Provider!Reply, Provider!guards, IdleRequest
<1>2. table \in Tables /\ serving \in [Proc -> Serve]
  BY DEF ProviderShapes, Tables
<1>3. Moves(p, IdleRequest)
  BY <1>1, <1>2, IdleServe, MoveSet
<1>4. /\ Wears /\ (\A y \in RowId : y # serving[p].grant => table'[y] = table[y])
      /\ serving[p].grant \in RowId /\ table[serving[p].grant].kind # "none" => table'[serving[p].grant].gone
  BY <1>1, <1>2, DeletedWears DEF Wears
<1> QED
  BY <1>1, <1>3, <1>4

LEMMA ExpiryDoes ==
  ASSUME ProviderShapes, (\E x \in RowId : Provider!Expire(x)) \/ Provider!SweepExpired
  PROVE  /\ Wears /\ waiting' \subseteq waiting
         /\ \A y \in waiting' : y \in RowId /\ ~table[y].expired => table'[y] = table[y]
         /\ UNCHANGED <<task, serving, registered, redeemed, rushed, over, late, hits, reach, passed>>
<1>0. table \in Tables
  BY DEF ProviderShapes, Tables
<1>1. ASSUME NEW x \in RowId, Provider!Expire(x)
      PROVE  /\ Wears /\ waiting' = waiting \ {x} /\ \A y \in RowId : y # x => table'[y] = table[y]
             /\ UNCHANGED <<task, serving, registered, redeemed, rushed, over, late, hits, reach, passed>>
  <2>1. /\ Provider!Readable(x) /\ table' = [table EXCEPT ![x].expired = TRUE] /\ waiting' = waiting \ {x}
        /\ UNCHANGED <<task, serving, registered, redeemed, rushed, over, late, hits, reach, passed>>
    BY <1>1 DEF Provider!Expire, Provider!guards
  <2> QED
    BY <1>0, <2>1, ExpireWears DEF Wears
<1>2. CASE Provider!SweepExpired
  <2> DEFINE X == {x \in RowId : Provider!Stored(x) /\ table[x].expired}
  <2>1. /\ table' = Provider!Deleted(X)
        /\ UNCHANGED <<task, serving, registered, waiting, redeemed, rushed, over, late, hits, reach, passed>>
    BY <1>2 DEF Provider!SweepExpired, Provider!guards, Provider!histories
  <2>2. \A y \in X : table[y].expired
    OBVIOUS
  <2> HIDE DEF X
  <2>3. table' \in Tables /\ \A y \in RowId : Worn(table[y], table'[y]) /\ (y \notin X => table'[y] = table[y])
    BY <1>0, <2>1, DeletedWears
  <2> QED
    BY <2>1, <2>2, <2>3 DEF Wears
<1> QED
  BY <1>1, <1>2

LEMMA QuietDoes ==
  ASSUME ProviderShapes,
         \/ Provider!RemoveClient \/ Provider!NextMinute \/ Provider!SwitchRedis
         \/ \E p \in Proc : Provider!FailRequest(p) \/ Provider!Count(p)
  PROVE  /\ serving' = serving \/ \E p \in Proc : Moves(p, IdleRequest)
         /\ UNCHANGED <<task, table, waiting, redeemed, rushed, over, late>>
<1>1. ASSUME NEW p \in Proc, Provider!FailRequest(p)
      PROVE  Moves(p, IdleRequest) /\ UNCHANGED <<task, table, waiting, redeemed, rushed, over, late>>
  BY <1>1, IdleServe, MoveSet DEF ProviderShapes, Provider!FailRequest, Provider!Reply, Provider!histories, IdleRequest
<1>2. ASSUME NEW p \in Proc, Provider!Count(p)
      PROVE  UNCHANGED <<serving, task, table, waiting, redeemed, rushed, over, late>>
  BY <1>2 DEF Provider!Count, Provider!histories
<1>3. CASE Provider!RemoveClient \/ Provider!NextMinute \/ Provider!SwitchRedis
  BY <1>3 DEF Provider!RemoveClient, Provider!NextMinute, Provider!SwitchRedis, Provider!histories
<1> QED
  BY <1>1, <1>2, <1>3

-----------------------------------------------------------------------------
(* Rows agree *)

LEMMA RowsWear == ASSUME RowsAgree, Wears PROVE RowsAgree'
  BY DEF RowsAgree, RowAgrees, Wears, Worn, Asking, Agreed, IsToken, IsGrant, Provider!TokenKinds

\* The rows there were still agree when a row is added, or an interaction answered.
LEMMA RowsStay ==
  ASSUME RowsAgree, NEW x \in RowId,
         \A y \in RowId \ {x} : Worn(table[y], table'[y]),
         table[x].kind = "none" \/ Asking(x), table[x].kind # "none" => Asking(x)',
         RowAgrees(x)'
  PROVE  RowsAgree'
<1> SUFFICES ASSUME NEW y \in RowId \ {x} PROVE RowAgrees(y)'
  BY DEF RowsAgree
<1>1. RowAgrees(y) /\ Worn(table[y], table'[y])
  BY DEF RowsAgree
<1>2. IsGrant(table[y].grant) =>
        /\ table'[table[y].grant].kind = "Grant" /\ table'[table[y].grant].account = table[table[y].grant].account
  BY DEF IsGrant, Worn, Asking
<1> QED
  BY <1>1, <1>2 DEF RowAgrees, Worn, Asking, Agreed, IsToken, IsGrant, Provider!TokenKinds

LEMMA RequestsWear ==
  ASSUME RequestsAgree, Wears, NEW q \in Proc, serving'[q] = serving[q]
  PROVE  RequestAgrees(q)'
<1>1. RequestAgrees(q)
  BY DEF RequestsAgree
<1> QED
  BY <1>1 DEF RequestAgrees, Wears, Worn, Asking, Agreed, IsToken, IsGrant, Provider!TokenKinds

LEMMA IdleAgrees == ASSUME NEW q \in Proc, serving'[q] = IdleRequest PROVE RequestAgrees(q)'
  BY IdleServe DEF RequestAgrees, Decision, Redemption

LEMMA RequestsStay ==
  ASSUME RequestsAgree, NEW x \in RowId,
         \A y \in RowId \ {x} : Worn(table[y], table'[y]),
         table[x].kind = "none", NEW q \in Proc, serving'[q] = serving[q]
  PROVE  RequestAgrees(q)'
<1>1. RequestAgrees(q)
  BY DEF RequestsAgree
<1> QED
  BY <1>1 DEF RequestAgrees, Worn, Asking, Agreed, IsToken, IsGrant, Provider!TokenKinds

LEMMA AuthRequestAgrees ==
  ASSUME ProviderShapes, RowsAgree, RequestsAgree, NEW a \in Subject \cup {Nil}, Provider!AuthRequest(a)
  PROVE  RowsAgree' /\ RequestsAgree'
<1>1. PICK x \in RowId :
        /\ Adds(x) /\ table'[x].kind = "Interaction" /\ table'[x].account = a /\ table'[x].result = Nil
        /\ table'[x].prompt = IF a = Nil THEN "login" ELSE "consent"
  BY AuthRequestDoes
<1>2. serving' = serving
  BY AuthRequestDoes
<1>3. RowAgrees(x)'
  BY <1>1, ProviderAssumption DEF RowAgrees, Asking, Agreed, IsToken, Provider!TokenKinds
<1> QED
  BY <1>1, <1>2, <1>3, RowsStay, RequestsStay DEF Adds, RequestsAgree

LEMMA DecideAgrees ==
  ASSUME ProviderShapes, RowsAgree, RequestsAgree, NEW p \in Proc, NEW x \in RowId, NEW u \in Subject,
         Provider!Decide(p, x, u)
  PROVE  RowsAgree' /\ RequestsAgree'
<1>1. Wears /\ Asking(x)
  BY DecideDoes
<1>2. RowsAgree'
  BY <1>1, RowsWear
<1>3. CASE serving' = serving
  BY <1>1, <1>2, <1>3, RequestsWear DEF RequestsAgree
<1>4. ASSUME NEW s \in Serve, Moves(p, s), s.row = x, s.by = u, s.at \in {"deny", "login", "grant"},
             table[x].account \in {Nil, u}, s.at = "login" => table[x].prompt = "login",
             s.at = "grant" => table[x].prompt # "login"
      PROVE  RequestsAgree'
  <2>1. RowAgrees(x) /\ Worn(table[x], table'[x])
    BY <1>1 DEF RowsAgree, Wears
  <2>2. RequestAgrees(p)'
    BY <1>1, <1>4, <2>1 DEF RequestAgrees, RowAgrees, Moves, Worn, Asking, Redemption
  <2> QED
    BY <1>1, <1>4, <2>2, RequestsWear DEF Moves, RequestsAgree
<1> QED
  BY <1>2, <1>3, <1>4, DecideDoes

LEMMA SaveGrantAgrees ==
  ASSUME ProviderShapes, RowsAgree, RequestsAgree, NEW p \in Proc, Provider!SaveGrant(p)
  PROVE  RowsAgree' /\ RequestsAgree'
<1>1. PICK x \in RowId, s \in Serve :
        /\ Adds(x) /\ table'[x].kind = "Grant" /\ table'[x].account = serving[p].by
        /\ Moves(p, s) /\ s.at = "consent" /\ s.row = serving[p].row /\ s.by = serving[p].by /\ s.grant = x
  BY SaveGrantDoes
<1>2. RowAgrees(x)'
  BY <1>1 DEF RowAgrees, Asking, Agreed, IsToken, Provider!TokenKinds
<1>3. serving[p].at = "grant" /\ RequestAgrees(p)
  BY SaveGrantDoes DEF RequestsAgree
<1>4. RequestAgrees(p)'
  BY <1>1, <1>3 DEF RequestAgrees, Adds, Moves, Worn, Asking, IsGrant, Decision, Redemption
<1> QED
  BY <1>1, <1>2, <1>4, RowsStay, RequestsStay DEF Adds, Moves, RequestsAgree

LEMMA FinishAgrees ==
  ASSUME ProviderShapes, RowsAgree, RequestsAgree, NEW p \in Proc, Provider!Finish(p)
  PROVE  RowsAgree' /\ RequestsAgree'
<1>0. PICK x : x = serving[p].row
  OBVIOUS
<1>1. /\ serving[p].at \in {"login", "consent", "deny"} /\ Moves(p, IdleRequest)
      /\ \A y \in RowId \ {x} : table'[y] = table[y]
      /\ table'[x].kind = table[x].kind /\ table'[x].prompt = table[x].prompt
      /\ table'[x].result = serving[p].at
      /\ table'[x].account = IF serving[p].at = "login" THEN serving[p].by ELSE table[x].account
      /\ table'[x].grant = IF serving[p].at = "consent" THEN serving[p].grant ELSE table[x].grant
  BY <1>0, FinishDoes
<1>2. RequestAgrees(p) /\ x \in RowId /\ Asking(x) /\ RowAgrees(x)
  BY <1>0, <1>1 DEF RequestsAgree, RequestAgrees, RowsAgree, Decision
<1>3. RowAgrees(x)'
  <2>1. Asking(x)' /\ ~IsToken(x)' /\ table'[x].kind # "AuthorizationCode"
    BY <1>1, <1>2 DEF Asking, IsToken, Provider!TokenKinds
  <2>2. table'[x].prompt # "login" => table'[x].account # Nil
    BY <1>0, <1>1, <1>2, ProviderAssumption DEF RowAgrees, RequestAgrees, Decision
  <2>3. Agreed(x)' => /\ serving[p].at = "consent" /\ table'[x].prompt # "login" /\ table'[x].grant = serving[p].grant
                      /\ table'[x].account = serving[p].by
    BY <1>0, <1>1, <1>2 DEF Agreed, RequestAgrees, Decision
  <2>4. serving[p].at = "consent" => /\ IsGrant(serving[p].grant) /\ table[serving[p].grant].account = serving[p].by
                                     /\ serving[p].grant # x
    BY <1>2 DEF RequestAgrees, IsGrant, Asking
  <2>5. serving[p].at = "consent" => serving[p].grant \in RowId /\ table'[serving[p].grant].kind = "Grant" /\ table'[serving[p].grant].account = serving[p].by
    BY <1>1, <2>4 DEF IsGrant
  <2> QED
    BY <2>1, <2>2, <2>3, <2>5 DEF RowAgrees, IsGrant
<1>4. RowsAgree'
  <2>1. \A y \in RowId \ {x} : Worn(table[y], table'[y])
    BY <1>1, WornItself
  <2>2. Asking(x)'
    BY <1>1, <1>2 DEF Asking
  <2> QED
    BY <1>2, <1>3, <2>1, <2>2, RowsStay
<1>5. ASSUME NEW q \in Proc \ {p} PROVE RequestAgrees(q)'
  <2>1. RequestAgrees(q) /\ serving'[q] = serving[q]
    BY <1>1 DEF RequestsAgree, Moves
  <2>2. \A y \in RowId : table'[y].kind = table[y].kind /\ table'[y].prompt = table[y].prompt
    BY <1>1
  <2>3. \A y \in RowId : Asking(y) /\ table[y].prompt # "login" => table'[y].account = table[y].account
    BY <1>0, <1>1, <1>2 DEF RequestAgrees, Decision
  <2>4. \A y \in RowId : ~Asking(y) => table'[y] = table[y]
    BY <1>1, <1>2
  <2> QED
    BY <2>1, <2>2, <2>3, <2>4 DEF RequestAgrees, Asking, IsToken, IsGrant, Provider!TokenKinds, Decision
<1>6. RequestAgrees(p)'
  BY <1>1, IdleAgrees DEF Moves
<1> QED
  BY <1>4, <1>5, <1>6 DEF RequestsAgree

LEMMA ResumeAgrees ==
  ASSUME ProviderShapes, RowsAgree, RequestsAgree, NEW x \in RowId, Provider!Resume(x)
  PROVE  RowsAgree' /\ RequestsAgree'
<1>1. serving' = serving
  BY ResumeDoes
<1>2. CASE Wears
  BY <1>1, <1>2, RowsWear, RequestsWear DEF RequestsAgree
<1>3. ASSUME NEW y \in RowId \ {x}, Agreed(x), Adds(y), table'[y].kind = "AuthorizationCode",
             table'[y].grant = table[x].grant, table'[y].account = table[x].account
      PROVE  RowsAgree' /\ RequestsAgree'
  <2>1. /\ IsGrant(table[x].grant) /\ table[table[x].grant].account = table[x].account
    BY <1>3 DEF RowsAgree, RowAgrees
  <2>2. table[x].grant \in RowId /\ table'[table[x].grant].kind = "Grant" /\ table'[table[x].grant].account = table[x].account
    BY <1>3, <2>1 DEF IsGrant, Adds, Worn
  <2>3. RowAgrees(y)'
    BY <1>3, <2>2 DEF RowAgrees, Asking, Agreed, IsGrant
  <2> QED
    BY <1>1, <1>3, <2>3, RowsStay, RequestsStay DEF Adds, RequestsAgree
<1> QED
  BY <1>2, <1>3, ResumeDoes

LEMMA RedeemAgrees ==
  ASSUME ProviderShapes, RowsAgree, RequestsAgree, NEW p \in Proc, NEW x \in RowId, Provider!Redeem(p, x)
  PROVE  RowsAgree' /\ RequestsAgree'
<1>1. Wears /\ IsToken(x)
  BY RedeemDoes
<1>2. RowsAgree'
  BY <1>1, RowsWear
<1>3. CASE serving' = serving
  BY <1>1, <1>2, <1>3, RequestsWear DEF RequestsAgree
<1>4. ASSUME NEW s \in Serve, Moves(p, s), s.row = x, s.grant = table[x].grant, s.at \in {"consume", "revoke"}
      PROVE  RequestsAgree'
  <2>1. Worn(table[x], table'[x])
    BY <1>1 DEF Wears
  <2>2. RequestAgrees(p)'
    BY <1>1, <1>4, <2>1 DEF RequestAgrees, Moves, Worn, IsToken, Provider!TokenKinds, Decision
  <2> QED
    BY <1>1, <1>4, <2>2, RequestsWear DEF Moves, RequestsAgree
<1> QED
  BY <1>2, <1>3, <1>4, RedeemDoes

\* A request that goes on with its row and its grant.
LEMMA RedemptionAgrees ==
  ASSUME RowsAgree, RequestsAgree, Wears, NEW p \in Proc, NEW s \in Serve, Moves(p, s),
         serving[p].at \in Redemption, s.at \in Redemption, s.row = serving[p].row, s.grant = serving[p].grant
  PROVE  RowsAgree' /\ RequestsAgree'
<1>1. RequestAgrees(p)
  BY DEF RequestsAgree
<1>2. RequestAgrees(p)'
  BY <1>1 DEF RequestAgrees, Moves, Wears, Worn, IsToken, Provider!TokenKinds, Decision, Redemption
<1> QED
  BY <1>2, RowsWear, RequestsWear DEF Moves, RequestsAgree

LEMMA SaveTokensAgrees ==
  ASSUME ProviderShapes, RowsAgree, RequestsAgree, NEW p \in Proc, Provider!SaveTokens(p)
  PROVE  RowsAgree' /\ RequestsAgree'
<1>1. PICK y \in RowId : Adds(y) /\ table'[y].kind = "RefreshToken" /\ table'[y].grant = serving[p].grant
  BY SaveTokensDoes
<1>2. serving[p].at = "save" /\ Moves(p, IdleRequest)
  BY SaveTokensDoes
<1>3. IsGrant(serving[p].grant)
  BY <1>2 DEF RequestsAgree, RequestAgrees, RowsAgree, RowAgrees, Redemption
<1>4. serving[p].grant \in RowId /\ table'[serving[p].grant].kind = "Grant"
  BY <1>1, <1>3 DEF IsGrant, Adds, Worn
<1>5. RowAgrees(y)'
  BY <1>1, <1>4 DEF RowAgrees, Asking, Agreed, IsGrant
<1> QED
  BY <1>1, <1>2, <1>5, RowsStay, RequestsStay, IdleAgrees DEF Adds, Moves, RequestsAgree

\* Rows wear out, requests end.
Quits == \A q \in Proc : serving'[q] = serving[q] \/ serving'[q] = IdleRequest

LEMMA QuitAgrees == ASSUME RowsAgree, RequestsAgree, Wears, Quits PROVE RowsAgree' /\ RequestsAgree'
  BY RowsWear, RequestsWear, IdleAgrees DEF Quits, RequestsAgree

-----------------------------------------------------------------------------
(* One code for each grant *)

\* No request comes to consent.
Reticent == \A q \in Proc : Consents(q)' => Consents(q) /\ serving'[q].grant = serving[q].grant

LEMMA CodesWear == ASSUME OneCodeEach, Wears, Reticent PROVE OneCodeEach'
<1>1. \A x \in RowId : (IsToken(x)' => IsToken(x)) /\ (Open(x)' => Open(x)) /\ (IsToken(x)' \/ Open(x)' => table'[x].grant = table[x].grant)
  BY DEF Wears, Worn, IsToken, Open, Agreed, Asking, Provider!TokenKinds
<1> QED
  BY <1>1 DEF OneCodeEach, Reticent

\* A row is added that is no code, refresh token or answered interaction.
LEMMA CodesStay ==
  ASSUME OneCodeEach, NEW x \in RowId, Adds(x), ~IsToken(x)', ~Open(x)'
  PROVE  /\ Reticent => OneCodeEach'
         /\ \A y \in RowId : /\ IsToken(y)' => IsToken(y) /\ y # x
                             /\ Open(y)' => Open(y) /\ y # x
                             /\ IsToken(y)' \/ Open(y)' => table'[y].grant = table[y].grant
<1>1. \A y \in RowId : /\ IsToken(y)' => IsToken(y) /\ y # x
                       /\ Open(y)' => Open(y) /\ y # x
                       /\ IsToken(y)' \/ Open(y)' => table'[y].grant = table[y].grant
  BY DEF Adds, Worn, IsToken, Open, Agreed, Asking, Provider!TokenKinds
<1> QED
  BY <1>1 DEF OneCodeEach, Reticent

LEMMA OneRequestMoves ==
  ASSUME NEW p \in Proc, NEW s \in Serve, Moves(p, s), s.at # "consent"
  PROVE  Reticent
  BY DEF Moves, Reticent, Consents

LEMMA IdleMoves == ASSUME NEW p \in Proc, Moves(p, IdleRequest) PROVE Reticent /\ Quits
  BY IdleServe, OneRequestMoves DEF Quits, Moves

LEMMA AuthRequestCodes ==
  ASSUME ProviderShapes, OneCodeEach, NEW a \in Subject \cup {Nil}, Provider!AuthRequest(a)
  PROVE  OneCodeEach'
<1>1. PICK x \in RowId : Adds(x) /\ table'[x].kind = "Interaction" /\ table'[x].result = Nil
  BY AuthRequestDoes
<1>2. Reticent
  BY AuthRequestDoes DEF Reticent, Consents
<1>3. ~IsToken(x)' /\ ~Open(x)'
  BY <1>1, ProviderAssumption DEF IsToken, Open, Agreed, Provider!TokenKinds
<1> QED
  BY <1>1, <1>2, <1>3, CodesStay

LEMMA SaveGrantCodes ==
  ASSUME ProviderShapes, RowsAgree, RequestsAgree, OneCodeEach, NEW p \in Proc, Provider!SaveGrant(p)
  PROVE  OneCodeEach'
<1>1. PICK x \in RowId, s \in Serve :
        Adds(x) /\ table'[x].kind = "Grant" /\ Moves(p, s) /\ s.at = "consent" /\ s.grant = x
  BY SaveGrantDoes
<1>2. ~IsToken(x)' /\ ~Open(x)'
  BY <1>1 DEF IsToken, Open, Agreed, Asking, Provider!TokenKinds
<1>3. \A y \in RowId : /\ IsToken(y)' => IsToken(y) /\ y # x
                       /\ Open(y)' => Open(y) /\ y # x
                       /\ IsToken(y)' \/ Open(y)' => table'[y].grant = table[y].grant
  BY <1>1, <1>2, CodesStay
<1>4. table[x].kind = "none"
  BY <1>1 DEF Adds
<1>5. \A y \in RowId : IsToken(y) \/ Open(y) => table[y].grant # x
  BY <1>4 DEF RowsAgree, RowAgrees, IsGrant, Open
<1>6. \A q \in Proc : Consents(q) => serving[q].grant # x
  BY <1>4 DEF RequestsAgree, RequestAgrees, IsGrant, Consents
<1>7. \A q \in Proc \ {p} : serving'[q] = serving[q]
  BY <1>1 DEF Moves
<1>8. serving'[p].grant = x
  BY <1>1 DEF Moves
<1>9. \A q \in Proc \ {p} : Consents(q)' => Consents(q)
  BY <1>7 DEF Consents
<1>10. \A q \in Proc, y \in RowId : Consents(q)' /\ (IsToken(y)' \/ Open(y)') => table'[y].grant # serving'[q].grant
  <2> SUFFICES ASSUME NEW q \in Proc, NEW y \in RowId, Consents(q)', IsToken(y)' \/ Open(y)'
               PROVE  table'[y].grant # serving'[q].grant
    OBVIOUS
  <2>1. (IsToken(y) \/ Open(y)) /\ table'[y].grant = table[y].grant
    BY <1>3
  <2>2. CASE q = p
    BY <1>5, <1>8, <2>1, <2>2
  <2>3. CASE q # p
    BY <1>7, <1>9, <2>1, <2>3 DEF OneCodeEach
  <2> QED
    BY <2>2, <2>3
<1>11. \A q, r \in Proc : Consents(q)' /\ Consents(r)' /\ serving'[r].grant = serving'[q].grant => r = q
  BY <1>6, <1>7, <1>8, <1>9 DEF OneCodeEach
<1>12. \A y, z \in RowId : Open(y)' /\ (IsToken(z)' \/ Open(z)') /\ table'[z].grant = table'[y].grant => z = y
  <2> SUFFICES ASSUME NEW y \in RowId, NEW z \in RowId, Open(y)', IsToken(z)' \/ Open(z)', table'[z].grant = table'[y].grant
               PROVE  z = y
    OBVIOUS
  <2>1. /\ Open(y) /\ table'[y].grant = table[y].grant
        /\ IsToken(z) \/ Open(z)
        /\ table'[z].grant = table[z].grant
    BY <1>3
  <2> QED
    BY <2>1 DEF OneCodeEach
<1> QED
  BY <1>10, <1>11, <1>12 DEF OneCodeEach

LEMMA FinishCodes ==
  ASSUME ProviderShapes, RequestsAgree, OneCodeEach, NEW p \in Proc, Provider!Finish(p)
  PROVE  OneCodeEach'
<1>0. PICK x : x = serving[p].row
  OBVIOUS
<1>1. /\ serving[p].at \in {"login", "consent", "deny"} /\ Moves(p, IdleRequest)
      /\ \A y \in RowId \ {x} : table'[y] = table[y]
      /\ table'[x].kind = table[x].kind /\ table'[x].result = serving[p].at
      /\ table'[x].grant = IF serving[p].at = "consent" THEN serving[p].grant ELSE table[x].grant
  BY <1>0, FinishDoes
<1>2. x \in RowId /\ Asking(x)
  BY <1>0, <1>1 DEF RequestsAgree, RequestAgrees, Decision
<1>3. ~IsToken(x)'
  BY <1>1, <1>2 DEF Asking, IsToken, Provider!TokenKinds
<1>4. \A y \in RowId \ {x} : (IsToken(y)' <=> IsToken(y)) /\ (Open(y)' <=> Open(y)) /\ table'[y].grant = table[y].grant
  BY <1>1 DEF IsToken, Open, Agreed, Asking
<1>5. Open(x)' => Consents(p) /\ table'[x].grant = serving[p].grant
  BY <1>1 DEF Open, Agreed, Consents
<1>6. Reticent /\ ~Consents(p)'
  BY <1>1, IdleMoves, IdleServe DEF Moves, Consents
<1>7. \A q \in Proc, y \in RowId : Consents(q)' /\ (IsToken(y)' \/ Open(y)') => table'[y].grant # serving'[q].grant
  BY <1>3, <1>4, <1>5, <1>6 DEF OneCodeEach, Reticent
<1>8. \A y, z \in RowId : Open(y)' /\ (IsToken(z)' \/ Open(z)') /\ table'[z].grant = table'[y].grant => z = y
  BY <1>3, <1>4, <1>5 DEF OneCodeEach
<1> QED
  BY <1>6, <1>7, <1>8 DEF OneCodeEach, Reticent

LEMMA ResumeCodes ==
  ASSUME ProviderShapes, OneCodeEach, NEW x \in RowId, Provider!Resume(x)
  PROVE  OneCodeEach'
<1>1. Reticent
  BY ResumeDoes DEF Reticent, Consents
<1>2. CASE Wears
  BY <1>1, <1>2, CodesWear
<1>3. ASSUME NEW y \in RowId \ {x}, Agreed(x), Adds(y), table'[x].gone, table'[y].kind = "AuthorizationCode",
             table'[y].grant = table[x].grant, ~table[x].gone
      PROVE  OneCodeEach'
  <2>1. Open(x) /\ ~Open(x)' /\ ~Open(y)'
    BY <1>3 DEF Open, Agreed, Asking
  <2>2. \A z \in RowId \ {y} : /\ IsToken(z)' => IsToken(z)
                               /\ Open(z)' => Open(z) /\ z # x
                               /\ IsToken(z)' \/ Open(z)' => table'[z].grant = table[z].grant
    BY <1>3, <2>1 DEF Adds, Worn, IsToken, Open, Agreed, Asking, Provider!TokenKinds
  <2>3. \A q \in Proc, z \in RowId : Consents(q)' /\ (IsToken(z)' \/ Open(z)') => table'[z].grant # serving'[q].grant
    <3>1. \A q \in Proc : Consents(q)' => table'[y].grant # serving'[q].grant
      BY <1>1, <1>3, <2>1 DEF OneCodeEach, Reticent
    <3> QED
      BY <1>1, <2>2, <3>1 DEF OneCodeEach, Reticent
  <2>4. \A u, z \in RowId : Open(u)' /\ (IsToken(z)' \/ Open(z)') /\ table'[z].grant = table'[u].grant => z = u
    <3>1. \A u \in RowId : Open(u)' => u # y /\ table'[u].grant # table'[y].grant
      BY <1>3, <2>1, <2>2 DEF OneCodeEach
    <3> QED
      BY <2>2, <3>1 DEF OneCodeEach
  <2> QED
    BY <1>1, <2>3, <2>4 DEF OneCodeEach, Reticent
<1> QED
  BY <1>2, <1>3, ResumeDoes

LEMMA SaveTokensCodes ==
  ASSUME ProviderShapes, RequestsAgree, OneCodeEach, NEW p \in Proc, Provider!SaveTokens(p)
  PROVE  OneCodeEach'
<1>1. PICK y \in RowId : Adds(y) /\ table'[y].kind = "RefreshToken" /\ table'[y].grant = serving[p].grant
  BY SaveTokensDoes
<1>2. serving[p].at = "save" /\ Reticent
  BY SaveTokensDoes, IdleMoves
<1>3. PICK x \in RowId : IsToken(x) /\ table[x].grant = serving[p].grant
  BY <1>2 DEF RequestsAgree, RequestAgrees, Redemption
<1>4. ~Open(y)' /\ ~Open(x)
  BY <1>1, <1>3 DEF Open, Agreed, Asking, IsToken, Provider!TokenKinds
<1>5. \A z \in RowId \ {y} : /\ IsToken(z)' => IsToken(z)
                             /\ Open(z)' => Open(z)
                             /\ IsToken(z)' \/ Open(z)' => table'[z].grant = table[z].grant
  BY <1>1 DEF Adds, Worn, IsToken, Open, Agreed, Asking, Provider!TokenKinds
<1>6. \A q \in Proc : Consents(q)' => table'[y].grant # serving'[q].grant
  BY <1>1, <1>2, <1>3 DEF OneCodeEach, Reticent
<1>7. \A z \in RowId : Open(z)' => z # y /\ table'[z].grant # table'[y].grant
  BY <1>1, <1>3, <1>4, <1>5 DEF OneCodeEach
<1>8. \A q \in Proc, z \in RowId : Consents(q)' /\ (IsToken(z)' \/ Open(z)') => table'[z].grant # serving'[q].grant
  BY <1>2, <1>5, <1>6 DEF OneCodeEach, Reticent
<1>9. \A u, z \in RowId : Open(u)' /\ (IsToken(z)' \/ Open(z)') /\ table'[z].grant = table'[u].grant => z = u
  BY <1>5, <1>7 DEF OneCodeEach
<1> QED
  BY <1>2, <1>8, <1>9 DEF OneCodeEach, Reticent

-----------------------------------------------------------------------------
(* What is redeemed is spent *)

\* Whatever happens to interactions, the other rows only wear out.
Lasting == \A x \in RowId : table[x].kind # "none" /\ ~Asking(x) => Worn(table[x], table'[x])

LEMMA WearsLast == Wears => Lasting
  BY DEF Wears, Lasting

LEMMA AddsLast == ASSUME NEW x \in RowId, Adds(x) PROVE Lasting
  BY DEF Adds, Lasting

LEMMA FinishLasts == ASSUME ProviderShapes, RequestsAgree, NEW p \in Proc, Provider!Finish(p) PROVE Lasting
<1>1. serving[p].at \in Decision /\ \A y \in RowId \ {serving[p].row} : table'[y] = table[y]
  BY FinishDoes DEF Decision
<1>2. Asking(serving[p].row)
  BY <1>1 DEF RequestsAgree, RequestAgrees
<1> QED
  BY <1>1, <1>2, WornItself DEF Lasting

LEMMA TokensLast ==
  ASSUME Lasting
  PROVE  \A x \in RowId : IsToken(x) =>
           /\ IsToken(x)' /\ (Spent(x) => Spent(x)')
           /\ table'[x].kind = table[x].kind /\ table'[x].grant = table[x].grant
           /\ table[x].gone => table'[x].gone
  BY DEF Lasting, Worn, IsToken, Asking, Spent, Provider!TokenKinds

\* No request comes to a redemption, or further with one.
Idles == \A q \in Proc : serving'[q].at \in Redemption => serving'[q] = serving[q]

LEMMA SpentStays ==
  ASSUME RequestsAgree, RedeemedAreSpent, Idles, UNCHANGED redeemed, rushed \subseteq rushed', Lasting
  PROVE  RedeemedAreSpent'
<1>0. \A x \in RowId : IsToken(x) => IsToken(x)' /\ (Spent(x) => Spent(x)')
  BY TokensLast
<1>1. \A q \in Proc : serving'[q].at \in Redemption =>
        serving'[q] = serving[q] /\ serving[q].row \in RowId /\ IsToken(serving[q].row)
  BY DEF Idles, RequestsAgree, RequestAgrees
<1>2. \A x \in RowId \ rushed' : redeemed'[x] <= 1 /\ (redeemed'[x] = 1 => IsToken(x)' /\ Spent(x)')
  BY <1>0 DEF RedeemedAreSpent
<1>3. ASSUME NEW p \in Proc, serving'[p].at \in Redemption, serving'[p].row \notin rushed'
      PROVE  /\ serving'[p].at \in {"consume", "save"} => redeemed'[serving'[p].row] = 0
             /\ serving'[p].at = "save" => Spent(serving[p].row)'
             /\ \A q \in Proc : serving'[q].at \in Redemption /\ serving'[q].row = serving'[p].row => q = p
  <2>1. serving'[p] = serving[p] /\ serving[p].row \in RowId /\ IsToken(serving[p].row) /\ serving[p].row \notin rushed
    BY <1>1, <1>3
  <2>2. /\ serving[p].at \in {"consume", "save"} => redeemed[serving[p].row] = 0
        /\ serving[p].at = "save" => Spent(serving[p].row)
        /\ \A q \in Proc : serving[q].at \in Redemption /\ serving[q].row = serving[p].row => q = p
    BY <1>3, <2>1 DEF RedeemedAreSpent
  <2>3. PICK x \in RowId : x = serving[p].row /\ x = serving'[p].row
    BY <2>1
  <2>4. serving'[p].at = "save" => Spent(x)'
    BY <1>0, <2>1, <2>2, <2>3
  <2>5. Spent(x)' <=> Spent(serving[p].row)'
    BY <2>3 DEF Spent
  <2> QED
    BY <1>1, <2>1, <2>2, <2>4, <2>5
<1> QED
  BY <1>2, <1>3 DEF RedeemedAreSpent, Spent

\* A request of another kind, or none, is what one comes to.
LEMMA OthersIdle ==
  ASSUME NEW p \in Proc, NEW s \in Serve, Moves(p, s), s.at \notin Redemption
  PROVE  Idles
  BY DEF Moves, Idles

LEMMA QuitsIdle == ASSUME Quits PROVE Idles /\ Reticent
  BY IdleServe DEF Quits, Idles, Reticent, Consents, Redemption

LEMMA RedeemSpends ==
  ASSUME ProviderShapes, RowsAgree, RequestsAgree, RedeemedAreSpent, NEW p \in Proc, NEW x \in RowId, Provider!Redeem(p, x)
  PROVE  RedeemedAreSpent'
<1>1. /\ Wears /\ serving[p].at = "idle" /\ IsToken(x) /\ UNCHANGED redeemed
      /\ rushed' = IF \E q \in Proc : serving[q].row = x THEN rushed \cup {x} ELSE rushed
  BY RedeemDoes
<1>2. rushed \subseteq rushed' /\ Lasting
  BY <1>1, WearsLast
<1>3. CASE serving' = serving
  BY <1>1, <1>2, <1>3, SpentStays DEF Idles
<1>4. ASSUME NEW s \in Serve, Moves(p, s), s.row = x, ~table[x].gone,
             s.at = IF table[x].consumed THEN "revoke" ELSE "consume"
      PROVE  RedeemedAreSpent'
  <2>1. \A y \in RowId : IsToken(y) => IsToken(y)' /\ (Spent(y) => Spent(y)')
    BY <1>2, TokensLast
  <2>2. \A y \in RowId \ rushed' : redeemed'[y] <= 1 /\ (redeemed'[y] = 1 => IsToken(y)' /\ Spent(y)')
    BY <1>1, <1>2, <2>1 DEF RedeemedAreSpent
  <2>3. x \notin rushed' => \A q \in Proc : serving[q].row # x
    BY <1>1
  <2>4. \A q \in Proc \ {p} : serving'[q] = serving[q]
    BY <1>4 DEF Moves
  <2>5. serving'[p] = s
    BY <1>4 DEF Moves
  <2>6. s.at = "consume" /\ x \notin rushed' => redeemed'[x] = 0
    <3>1. s.at = "consume" => ~Spent(x)
      BY <1>4 DEF Spent
    <3>2. x \notin rushed => Spent(x) \/ (redeemed[x] # 1 /\ redeemed[x] <= 1)
      BY DEF RedeemedAreSpent
    <3>3. redeemed[x] \in Nat
      BY DEF ProviderShapes
    <3> QED
      BY <1>1, <1>2, <3>1, <3>2, <3>3
  <2>7. ASSUME NEW q \in Proc, serving'[q].at \in Redemption, serving'[q].row \notin rushed', q # p
        PROVE  /\ serving'[q].at \in {"consume", "save"} => redeemed'[serving'[q].row] = 0
               /\ serving'[q].at = "save" => Spent(serving[q].row)'
               /\ \A r \in Proc : serving'[r].at \in Redemption /\ serving'[r].row = serving'[q].row => r = q
    <3>1. serving'[q] = serving[q] /\ serving[q].row \notin rushed
      BY <1>2, <2>4, <2>7
    <3>2. serving[q].row \in RowId /\ IsToken(serving[q].row)
      BY <2>7, <3>1 DEF RequestsAgree, RequestAgrees
    <3>3. /\ serving[q].at \in {"consume", "save"} => redeemed[serving[q].row] = 0
          /\ serving[q].at = "save" => Spent(serving[q].row)
          /\ \A r \in Proc : serving[r].at \in Redemption /\ serving[r].row = serving[q].row => r = q
      BY <2>7, <3>1 DEF RedeemedAreSpent
    <3>4. PICK y \in RowId : y = serving[q].row /\ y = serving'[q].row
      BY <3>1, <3>2
    <3>5. serving'[q].at = "save" => Spent(y)'
      BY <2>1, <3>1, <3>2, <3>3, <3>4
    <3>6. Spent(y)' <=> Spent(serving[q].row)'
      BY <3>4 DEF Spent
    <3>7. serving'[q].row # x
      BY <2>3, <2>7, <3>1
    <3>8. \A r \in Proc : serving'[r].at \in Redemption /\ serving'[r].row = serving'[q].row => r = q
      BY <1>4, <2>4, <2>5, <3>1, <3>3, <3>7
    <3> QED
      BY <1>1, <3>1, <3>3, <3>5, <3>6, <3>8
  <2>8. x \notin rushed' => \A r \in Proc : serving'[r].row = x => r = p
    BY <2>3, <2>4
  <2>9. s.at # "save" /\ serving'[p].row = x
    BY <1>4, <2>5
  <2> QED
    BY <2>2, <2>5, <2>6, <2>7, <2>8, <2>9 DEF RedeemedAreSpent, Spent
<1> QED
  BY <1>3, <1>4, RedeemDoes

\* One redemption goes on; what it has marked is spent.
LEMMA SpentGoesOn ==
  ASSUME RequestsAgree, RedeemedAreSpent, Lasting, UNCHANGED <<redeemed, rushed>>,
         NEW p \in Proc, NEW s \in Serve, Moves(p, s), serving[p].at \in Redemption,
         s.row = serving[p].row, s.at \in {"save", "revoke"}, s.at = "revoke" => serving[p].at = "revoke",
         s.at = "save" => serving[p].at = "consume" /\ (table'[s.row].consumed \/ table'[s.row].gone)
  PROVE  RedeemedAreSpent'
<1>1. \A x \in RowId : IsToken(x) => IsToken(x)' /\ (Spent(x) => Spent(x)')
  BY TokensLast
<1>2. \A x \in RowId \ rushed' : redeemed'[x] <= 1 /\ (redeemed'[x] = 1 => IsToken(x)' /\ Spent(x)')
  BY <1>1 DEF RedeemedAreSpent
<1>3. \A q \in Proc \ {p} : serving'[q] = serving[q]
  BY DEF Moves
<1>4. serving'[p] = s
  BY DEF Moves
<1>5. \A q \in Proc : serving'[q].row = serving[q].row /\ (serving'[q].at \in Redemption => serving[q].at \in Redemption)
  BY <1>3, <1>4
<1>6. ASSUME NEW q \in Proc, serving'[q].at \in Redemption, serving'[q].row \notin rushed'
      PROVE  /\ serving'[q].at \in {"consume", "save"} => redeemed'[serving'[q].row] = 0
             /\ serving'[q].at = "save" => Spent(serving[q].row)'
             /\ \A r \in Proc : serving'[r].at \in Redemption /\ serving'[r].row = serving'[q].row => r = q
  <2>1. /\ serving[q].at \in {"consume", "save"} => redeemed[serving[q].row] = 0
        /\ serving[q].at = "save" => Spent(serving[q].row)
        /\ \A r \in Proc : serving[r].at \in Redemption /\ serving[r].row = serving[q].row => r = q
    BY <1>5, <1>6 DEF RedeemedAreSpent
  <2>2. serving[q].row \in RowId /\ IsToken(serving[q].row)
    BY <1>5, <1>6 DEF RequestsAgree, RequestAgrees
  <2>3. PICK x \in RowId : x = serving[q].row /\ x = serving'[q].row
    BY <1>5, <2>2
  <2>4. serving'[q].at = "save" => Spent(x)'
    <3>1. CASE q = p
      BY <1>4, <2>3, <3>1 DEF Spent
    <3>2. CASE q # p
      BY <1>1, <1>3, <2>1, <2>2, <2>3, <3>2
    <3> QED
      BY <3>1, <3>2
  <2>5. Spent(x)' <=> Spent(serving[q].row)'
    BY <2>3 DEF Spent
  <2>6. serving'[q].at \in {"consume", "save"} => serving[q].at \in {"consume", "save"}
    BY <1>3, <1>4
  <2> QED
    BY <1>5, <2>1, <2>4, <2>5, <2>6
<1> QED
  BY <1>2, <1>6 DEF RedeemedAreSpent, Spent

LEMMA SaveTokensSpends ==
  ASSUME ProviderShapes, RequestsAgree, RedeemedAreSpent, NEW p \in Proc, Provider!SaveTokens(p)
  PROVE  RedeemedAreSpent'
<1>1. /\ serving[p].at = "save" /\ Moves(p, IdleRequest) /\ rushed' = rushed
      /\ redeemed' = [redeemed EXCEPT ![serving[p].row] = @ + 1]
  BY SaveTokensDoes
<1>2. Lasting
  BY SaveTokensDoes, AddsLast
<1>3. Idles
  BY <1>1, IdleMoves, QuitsIdle
<1>4. PICK x \in RowId : x = serving[p].row /\ IsToken(x)
  BY <1>1 DEF RequestsAgree, RequestAgrees, Redemption
<1>5. redeemed \in [RowId -> Nat] /\ redeemed' = [redeemed EXCEPT ![x] = redeemed[x] + 1]
  BY <1>1, <1>4 DEF ProviderShapes
<1>6. redeemed'[x] = redeemed[x] + 1 /\ \A y \in RowId \ {x} : redeemed'[y] = redeemed[y]
  BY <1>5
<1>7. \A y \in RowId : IsToken(y) => IsToken(y)' /\ (Spent(y) => Spent(y)')
  BY <1>2, TokensLast
<1>8. x \notin rushed => redeemed[x] = 0 /\ Spent(x)
  BY <1>1, <1>4 DEF RedeemedAreSpent, Redemption
<1>9. \A y \in RowId \ rushed' : redeemed'[y] <= 1 /\ (redeemed'[y] = 1 => IsToken(y)' /\ Spent(y)')
  <2> SUFFICES ASSUME NEW y \in RowId \ rushed' PROVE redeemed'[y] <= 1 /\ (redeemed'[y] = 1 => IsToken(y)' /\ Spent(y)')
    OBVIOUS
  <2>1. CASE y = x
    BY <1>1, <1>4, <1>6, <1>7, <1>8, <2>1
  <2>2. CASE y # x
    BY <1>1, <1>6, <1>7, <2>2 DEF RedeemedAreSpent
  <2> QED
    BY <2>1, <2>2
<1>10. ASSUME NEW q \in Proc, serving'[q].at \in Redemption, serving'[q].row \notin rushed'
      PROVE  /\ serving'[q].at \in {"consume", "save"} => redeemed'[serving'[q].row] = 0
             /\ serving'[q].at = "save" => Spent(serving[q].row)'
             /\ \A r \in Proc : serving'[r].at \in Redemption /\ serving'[r].row = serving'[q].row => r = q
  <2>1. serving'[q] = serving[q]
    BY <1>3, <1>10 DEF Idles
  <2>2. /\ serving[q].at \in {"consume", "save"} => redeemed[serving[q].row] = 0
        /\ serving[q].at = "save" => Spent(serving[q].row)
        /\ \A r \in Proc : serving[r].at \in Redemption /\ serving[r].row = serving[q].row => r = q
    BY <1>1, <1>10, <2>1 DEF RedeemedAreSpent
  <2>3. serving[q].row \in RowId /\ IsToken(serving[q].row)
    BY <1>10, <2>1 DEF RequestsAgree, RequestAgrees
  <2>4. q # p
    BY <1>1, <1>10, IdleServe DEF Moves, Redemption
  <2>5. serving[q].row # x
    <3>1. serving[p].at \in Redemption
      BY <1>1 DEF Redemption
    <3> QED
      BY <1>4, <2>2, <2>4, <3>1
  <2>6. PICK y \in RowId : y = serving[q].row /\ y = serving'[q].row
    BY <2>1, <2>3
  <2>7. serving'[q].at = "save" => Spent(y)'
    BY <1>7, <2>1, <2>2, <2>3, <2>6
  <2>8. Spent(y)' <=> Spent(serving[q].row)'
    BY <2>6 DEF Spent
  <2>9. \A r \in Proc : serving'[r].at \in Redemption => serving'[r] = serving[r]
    BY <1>3 DEF Idles
  <2> QED
    BY <1>6, <2>1, <2>2, <2>5, <2>6, <2>7, <2>8, <2>9
<1> QED
  BY <1>9, <1>10 DEF RedeemedAreSpent, Spent

-----------------------------------------------------------------------------
(* What is revoked is gone *)

\* Codes and refresh tokens that appear are late, or of another grant.
Newcomer(g) == \E x \in RowId : IsToken(x)' /\ ~IsToken(x) /\ table'[x].grant = g /\ x \notin late'

LEMMA WipedStays ==
  ASSUME Lasting, late \subseteq late', NEW k \in Provider!TokenKinds, NEW g, ~Newcomer(g), Wiped(k, g)
  PROVE  Wiped(k, g)'
<1> SUFFICES ASSUME NEW x \in RowId, table'[x].kind = k, ~table'[x].gone, table'[x].grant = g PROVE x \in late'
  BY DEF Wiped
<1>1. IsToken(x)'
  BY DEF IsToken
<1>2. CASE IsToken(x)
  BY <1>2, TokensLast DEF Wiped
<1>3. CASE ~IsToken(x)
  BY <1>1, <1>3 DEF Newcomer
<1> QED
  BY <1>2, <1>3

LEMMA OverStays ==
  ASSUME Lasting, late \subseteq late', RevokedAreGone, NEW g \in over, ~Newcomer(g)
  PROVE  /\ IsGrant(g)' /\ table'[g].gone
         /\ \A k \in Provider!TokenKinds : Wiped(k, g)'
         /\ \E x \in RowId : IsToken(x)' /\ table'[x].grant = g
<1>1. /\ IsGrant(g) /\ table[g].gone /\ \A k \in Provider!TokenKinds : Wiped(k, g)
  BY DEF RevokedAreGone
<1>2. PICK x \in RowId : IsToken(x) /\ table[x].grant = g
  BY DEF RevokedAreGone
<1>3. IsGrant(g)' /\ table'[g].gone
  BY <1>1 DEF Lasting, Worn, IsGrant, Asking
<1>4. IsToken(x)' /\ table'[x].grant = g
  BY <1>2, TokensLast
<1> QED
  BY <1>1, <1>3, <1>4, WipedStays

LEMMA RevokedStays ==
  ASSUME Lasting, late \subseteq late', RevokedAreGone, UNCHANGED over,
         \A q \in Proc : serving'[q].at = "revoke" =>
           (serving'[q] = serving[q] \/ serving'[q].todo = Provider!TokenKinds) /\ ~Newcomer(serving'[q].grant),
         \A g \in over : ~Newcomer(g)
  PROVE  RevokedAreGone'
<1>1. ASSUME NEW q \in Proc, serving'[q].at = "revoke", NEW k \in Provider!TokenKinds \ serving'[q].todo, NEW g, g = serving'[q].grant
      PROVE  Wiped(k, g)'
  <2>1. serving'[q] = serving[q]
    BY <1>1
  <2>2. Wiped(k, g)
    BY <1>1, <2>1 DEF RevokedAreGone
  <2> QED
    BY <1>1, <2>2, WipedStays
<1>2. \A q \in Proc : serving'[q].at = "revoke" => \A k \in Provider!TokenKinds \ serving'[q].todo : Wiped(k, serving[q].grant)'
  BY <1>1 DEF Wiped
<1> QED
  BY <1>2, OverStays DEF RevokedAreGone

LEMMA NoNewcomers == ASSUME Wears, NEW g PROVE ~Newcomer(g)
  BY DEF Wears, Worn, Newcomer, IsToken

LEMMA WearsRevokes ==
  ASSUME RevokedAreGone, Wears, UNCHANGED <<over, late>>,
         \A q \in Proc : serving'[q].at = "revoke" => serving'[q] = serving[q] \/ serving'[q].todo = Provider!TokenKinds
  PROVE  RevokedAreGone'
  BY NoNewcomers, WearsLast, RevokedStays

LEMMA AuthRequestRevokes ==
  ASSUME ProviderShapes, RevokedAreGone, NEW a \in Subject \cup {Nil}, Provider!AuthRequest(a)
  PROVE  RevokedAreGone'
<1>1. PICK x \in RowId : Adds(x) /\ table'[x].kind = "Interaction"
  BY AuthRequestDoes
<1>2. UNCHANGED <<serving, over, late>>
  BY AuthRequestDoes
<1>3. \A g : ~Newcomer(g)
  BY <1>1 DEF Newcomer, Adds, Worn, IsToken, Provider!TokenKinds
<1> QED
  BY <1>1, <1>2, <1>3, AddsLast, RevokedStays

LEMMA SaveGrantRevokes ==
  ASSUME ProviderShapes, RequestsAgree, RevokedAreGone, NEW p \in Proc, Provider!SaveGrant(p)
  PROVE  RevokedAreGone'
<1>1. PICK x \in RowId, s \in Serve : Adds(x) /\ table'[x].kind = "Grant" /\ Moves(p, s) /\ s.at = "consent"
  BY SaveGrantDoes
<1>2. UNCHANGED <<over, late>>
  BY SaveGrantDoes
<1>3. \A g : ~Newcomer(g)
  BY <1>1 DEF Newcomer, Adds, Worn, IsToken, Provider!TokenKinds
<1>4. \A q \in Proc : serving'[q].at = "revoke" => serving'[q] = serving[q]
  BY <1>1 DEF Moves
<1> QED
  BY <1>1, <1>2, <1>3, <1>4, AddsLast, RevokedStays

LEMMA FinishRevokes ==
  ASSUME ProviderShapes, RequestsAgree, RevokedAreGone, NEW p \in Proc, Provider!Finish(p)
  PROVE  RevokedAreGone'
<1>0. PICK x : x = serving[p].row
  OBVIOUS
<1>1. /\ serving[p].at \in {"login", "consent", "deny"} /\ Moves(p, IdleRequest)
      /\ \A y \in RowId \ {x} : table'[y] = table[y]
      /\ table'[x].kind = table[x].kind /\ UNCHANGED <<over, late>>
  BY <1>0, FinishDoes
<1>2. \A g : ~Newcomer(g)
  BY <1>1 DEF Newcomer, IsToken
<1>3. \A q \in Proc : serving'[q].at = "revoke" => serving'[q] = serving[q]
  BY <1>1, IdleServe DEF Moves
<1> QED
  BY <1>1, <1>2, <1>3, FinishLasts, RevokedStays

LEMMA ResumeRevokes ==
  ASSUME ProviderShapes, RequestsAgree, OneCodeEach, RevokedAreGone, NEW x \in RowId, Provider!Resume(x)
  PROVE  RevokedAreGone'
<1>1. UNCHANGED <<serving, over, late>> /\ ~table[x].gone
  BY ResumeDoes
<1>2. CASE Wears
  BY <1>1, <1>2, WearsRevokes
<1>3. ASSUME NEW y \in RowId \ {x}, Agreed(x), Adds(y), table'[y].grant = table[x].grant
      PROVE  RevokedAreGone'
  <2>1. Open(x) /\ ~IsToken(x)
    BY <1>1, <1>3 DEF Open, Agreed, Asking, IsToken, Provider!TokenKinds
  <2>2. \A z \in RowId : IsToken(z) => table[z].grant # table[x].grant
    BY <2>1 DEF OneCodeEach
  <2>3. \A g : Newcomer(g) => g = table[x].grant
    BY <1>3 DEF Newcomer, Adds, Worn, IsToken
  <2>4. \A g \in over : ~Newcomer(g)
    BY <2>2, <2>3 DEF RevokedAreGone
  <2>5. \A q \in Proc : serving[q].at = "revoke" => ~Newcomer(serving[q].grant)
    BY <2>2, <2>3 DEF RequestsAgree, RequestAgrees, Redemption
  <2> QED
    BY <1>1, <1>3, <2>4, <2>5, AddsLast, RevokedStays
<1> QED
  BY <1>2, <1>3, ResumeDoes

LEMMA SaveTokensRevokes ==
  ASSUME ProviderShapes, RequestsAgree, RevokedAreGone, NEW p \in Proc, Provider!SaveTokens(p)
  PROVE  RevokedAreGone'
<1>1. PICK y \in RowId :
        /\ Adds(y) /\ table'[y].grant = serving[p].grant
        /\ late' = IF ~Provider!Stored(serving[p].grant)
                       \/ \E q \in Proc : serving[q].at = "revoke" /\ serving[q].grant = serving[p].grant
                   THEN late \cup {y} ELSE late
  BY SaveTokensDoes
<1>2. Moves(p, IdleRequest) /\ over' = over
  BY SaveTokensDoes
<1>3. \A q \in Proc : serving'[q].at = "revoke" => serving'[q] = serving[q]
  BY <1>2, IdleServe DEF Moves
<1>4. \A g : Newcomer(g) => g = serving[p].grant /\ y \notin late'
  BY <1>1 DEF Newcomer, Adds, Worn, IsToken
<1>5. \A q \in Proc : serving'[q].at = "revoke" => ~Newcomer(serving'[q].grant)
  BY <1>1, <1>3, <1>4
<1>6. \A g \in over : ~Newcomer(g)
  <2>1. serving[p].grant \in over => ~Provider!Stored(serving[p].grant)
    BY DEF RevokedAreGone, Provider!Stored
  <2> QED
    BY <1>1, <1>4, <2>1
<1>7. late \subseteq late' /\ Lasting
  BY <1>1, AddsLast
<1> QED
  BY <1>2, <1>3, <1>5, <1>6, <1>7, RevokedStays

LEMMA RevokeRevokes ==
  ASSUME ProviderShapes, RequestsAgree, RevokedAreGone, NEW p \in Proc, Provider!RevokeByGrantId(p)
  PROVE  RevokedAreGone'
<1>1. serving[p].at = "revoke" /\ UNCHANGED <<over, late>>
  BY RevokeDoes
<1>2. PICK k \in Provider!TokenKinds, s \in Serve :
        /\ Wears
        /\ \A y \in RowId : table[y].kind = k /\ table[y].grant = serving[p].grant => table'[y].gone
        /\ Moves(p, s) /\ s.at = "revoke" /\ s.grant = serving[p].grant /\ s.todo = serving[p].todo \ {k}
  BY RevokeDoes
<1>3. Lasting /\ \A g : ~Newcomer(g)
  BY <1>2, WearsLast, NoNewcomers
<1>4. PICK g : g = serving[p].grant
  OBVIOUS
<1>5. Wiped(k, g)'
  BY <1>2, <1>4 DEF Wiped, Wears, Worn, Provider!TokenKinds
<1>6. \A j \in Provider!TokenKinds \ serving[p].todo : Wiped(j, g)
  BY <1>1, <1>4 DEF RevokedAreGone
<1>7. \A j \in Provider!TokenKinds \ s.todo : Wiped(j, g)'
  BY <1>1, <1>2, <1>3, <1>5, <1>6, WipedStays
<1>8. ASSUME NEW q \in Proc, serving'[q].at = "revoke", NEW j \in Provider!TokenKinds \ serving'[q].todo, NEW h, h = serving'[q].grant
      PROVE  Wiped(j, h)'
  <2>1. CASE q = p
    BY <1>2, <1>4, <1>7, <1>8, <2>1 DEF Moves
  <2>2. CASE q # p
    <3>1. serving'[q] = serving[q]
      BY <1>2, <2>2 DEF Moves
    <3>2. Wiped(j, h)
      BY <1>8, <3>1 DEF RevokedAreGone
    <3> QED
      BY <1>1, <1>3, <3>2, WipedStays
  <2> QED
    BY <2>1, <2>2
<1>9. \A q \in Proc : serving'[q].at = "revoke" => \A j \in Provider!TokenKinds \ serving'[q].todo : Wiped(j, serving[q].grant)'
  BY <1>8 DEF Wiped
<1> QED
  BY <1>1, <1>3, <1>9, OverStays DEF RevokedAreGone

LEMMA DestroyRevokes ==
  ASSUME ProviderShapes, RowsAgree, RequestsAgree, RevokedAreGone, NEW p \in Proc, Provider!DestroyGrant(p)
  PROVE  RevokedAreGone'
<1>0. PICK g : g = serving[p].grant
  OBVIOUS
<1>1. /\ serving[p].at = "revoke" /\ serving[p].todo = {} /\ Moves(p, IdleRequest) /\ Wears /\ late' = late
      /\ g \in RowId /\ table[g].kind # "none" => table'[g].gone
      /\ over' = over \cup {g}
  BY <1>0, DestroyDoes
<1>2. Lasting /\ \A h : ~Newcomer(h)
  BY <1>1, WearsLast, NoNewcomers
<1>3. PICK x \in RowId : IsToken(x) /\ table[x].grant = g
  BY <1>0, <1>1 DEF RequestsAgree, RequestAgrees, Redemption
<1>4. IsGrant(g) /\ table'[g].gone
  BY <1>1, <1>3 DEF RowsAgree, RowAgrees, IsGrant
<1>5. IsGrant(g)'
  BY <1>1, <1>4 DEF IsGrant, Wears, Worn
<1>6. IsToken(x)' /\ table'[x].grant = g
  BY <1>2, <1>3, TokensLast
<1>7. \A k \in Provider!TokenKinds : Wiped(k, g)
  BY <1>0, <1>1 DEF RevokedAreGone
<1>8. \A k \in Provider!TokenKinds : Wiped(k, g)'
  BY <1>1, <1>2, <1>7, WipedStays
<1>9. ASSUME NEW q \in Proc, serving'[q].at = "revoke", NEW k \in Provider!TokenKinds \ serving'[q].todo, NEW h, h = serving'[q].grant
      PROVE  Wiped(k, h)'
  <2>1. serving'[q] = serving[q]
    BY <1>1, <1>9, IdleServe DEF Moves
  <2>2. Wiped(k, h)
    BY <1>9, <2>1 DEF RevokedAreGone
  <2> QED
    BY <1>1, <1>2, <2>2, WipedStays
<1>10. \A q \in Proc : serving'[q].at = "revoke" => \A k \in Provider!TokenKinds \ serving'[q].todo : Wiped(k, serving[q].grant)'
  BY <1>9 DEF Wiped
<1>11. \A h \in over' : /\ IsGrant(h)' /\ table'[h].gone
                        /\ \A k \in Provider!TokenKinds : Wiped(k, h)'
                        /\ \E z \in RowId : IsToken(z)' /\ table'[z].grant = h
  <2> SUFFICES ASSUME NEW h \in over'
               PROVE  /\ IsGrant(h)' /\ table'[h].gone
                      /\ \A k \in Provider!TokenKinds : Wiped(k, h)'
                      /\ \E z \in RowId : IsToken(z)' /\ table'[z].grant = h
    OBVIOUS
  <2>1. CASE h = g
    BY <1>4, <1>5, <1>6, <1>8, <2>1
  <2>2. CASE h \in over
    BY <1>1, <1>2, <2>2, OverStays
  <2> QED
    BY <1>1, <2>1, <2>2
<1> QED
  BY <1>10, <1>11 DEF RevokedAreGone

-----------------------------------------------------------------------------
(* Every step *)

LEMMA WaitingStay ==
  ASSUME WaitingAreOpen, waiting' \subseteq waiting, \A y \in waiting' : y \in RowId /\ Asking(y) /\ ~table[y].expired => table'[y] = table[y]
  PROVE  WaitingAreOpen'
  BY DEF WaitingAreOpen, Asking

\* The steps that serve do not touch the counters.
Uncounted == UNCHANGED <<task, registered, hits, reach, passed>>

LEMMA CountsStay == ASSUME PassedAreCounted, Uncounted PROVE PassedAreCounted'
  BY DEF PassedAreCounted, Uncounted, Slots

LEMMA ShapesStay ==
  ASSUME ProviderShapes, Uncounted, table' \in Tables, serving' \in [Proc -> Serve], redeemed' \in [RowId -> Nat]
  PROVE  ProviderShapes'
  BY DEF ProviderShapes, Uncounted, Tables

AuthRequests == \E a \in Subject \cup {Nil} : Provider!AuthRequest(a)
Resumptions == \E x \in RowId : Provider!Resume(x)

LEMMA AuthRequestKeeps == ProviderInv /\ AuthRequests => ProviderInv'
<1> SUFFICES ASSUME ProviderInv, NEW a \in Subject \cup {Nil}, Provider!AuthRequest(a) PROVE ProviderInv'
  BY DEF AuthRequests
<1>0. /\ ProviderShapes /\ RowsAgree /\ RequestsAgree /\ OneCodeEach /\ RedeemedAreSpent /\ RevokedAreGone
      /\ WaitingAreOpen /\ PassedAreCounted
  BY DEF ProviderInv
<1>1. PICK x \in RowId :
        /\ Adds(x) /\ (\A y \in RowId \ {x} : table'[y] = table[y])
        /\ table'[x].kind = "Interaction" /\ ~table'[x].gone /\ ~table'[x].expired /\ waiting' = waiting \cup {x}
  BY <1>0, AuthRequestDoes
<1>2. UNCHANGED <<task, serving, registered, redeemed, rushed, over, late, hits, reach, passed>>
  BY <1>0, AuthRequestDoes
<1>3. ProviderShapes'
  BY <1>0, <1>1, <1>2, ShapesStay DEF Adds, Uncounted, ProviderShapes
<1>4. RowsAgree' /\ RequestsAgree' /\ OneCodeEach' /\ RevokedAreGone'
  BY <1>0, AuthRequestAgrees, AuthRequestCodes, AuthRequestRevokes
<1>5. RedeemedAreSpent'
  BY <1>0, <1>1, <1>2, AddsLast, SpentStays DEF Idles
<1>6. WaitingAreOpen'
  BY <1>0, <1>1 DEF WaitingAreOpen, Adds, Asking
<1>7. PassedAreCounted'
  BY <1>0, <1>2, CountsStay DEF Uncounted
<1> QED
  BY <1>3, <1>4, <1>5, <1>6, <1>7 DEF ProviderInv

LEMMA DecideKeeps == ProviderInv /\ (\E p \in Proc, x \in RowId, u \in Subject : Provider!Decide(p, x, u)) => ProviderInv'
<1> SUFFICES ASSUME ProviderInv, NEW p \in Proc, NEW x \in RowId, NEW u \in Subject, Provider!Decide(p, x, u) PROVE ProviderInv'
  OBVIOUS
<1>0. /\ ProviderShapes /\ RowsAgree /\ RequestsAgree /\ OneCodeEach /\ RedeemedAreSpent /\ RevokedAreGone
      /\ WaitingAreOpen /\ PassedAreCounted
  BY DEF ProviderInv
<1>1. /\ Wears /\ (\A y \in RowId : ~table[y].expired \/ table[y].kind = "none" => table'[y] = table[y])
      /\ UNCHANGED <<task, registered, waiting, redeemed, rushed, over, late, hits, reach, passed>>
  BY <1>0, DecideDoes
<1>2. serving' = serving \/ \E s \in Serve : Moves(p, s) /\ s.at \in {"deny", "login", "grant"}
  BY <1>0, DecideDoes
<1>3. serving' \in [Proc -> Serve] /\ Idles /\ Reticent /\ \A q \in Proc : serving'[q].at = "revoke" => serving'[q] = serving[q]
  <2>1. CASE serving' = serving
    BY <1>0, <2>1 DEF Idles, Reticent, Consents, ProviderShapes
  <2>2. ASSUME NEW s \in Serve, Moves(p, s), s.at \in {"deny", "login", "grant"}
        PROVE  serving' \in [Proc -> Serve] /\ Idles /\ Reticent /\ \A q \in Proc : serving'[q].at = "revoke" => serving'[q] = serving[q]
    BY <2>2, OthersIdle, OneRequestMoves DEF Moves, Redemption, Idles
  <2> QED
    BY <1>2, <2>1, <2>2
<1>4. ProviderShapes'
  BY <1>0, <1>1, <1>3, ShapesStay DEF Wears, Uncounted, ProviderShapes
<1>5. RowsAgree' /\ RequestsAgree'
  BY <1>0, DecideAgrees
<1>6. OneCodeEach' /\ RevokedAreGone'
  BY <1>0, <1>1, <1>3, CodesWear, WearsRevokes
<1>7. RedeemedAreSpent'
  BY <1>0, <1>1, <1>3, WearsLast, SpentStays
<1>8. WaitingAreOpen' /\ PassedAreCounted'
  BY <1>0, <1>1, WaitingStay, CountsStay DEF Uncounted
<1> QED
  BY <1>4, <1>5, <1>6, <1>7, <1>8 DEF ProviderInv

LEMMA SaveGrantKeeps == ProviderInv /\ (\E p \in Proc : Provider!SaveGrant(p)) => ProviderInv'
<1> SUFFICES ASSUME ProviderInv, NEW p \in Proc, Provider!SaveGrant(p) PROVE ProviderInv'
  OBVIOUS
<1>0. /\ ProviderShapes /\ RowsAgree /\ RequestsAgree /\ OneCodeEach /\ RedeemedAreSpent /\ RevokedAreGone
      /\ WaitingAreOpen /\ PassedAreCounted
  BY DEF ProviderInv
<1>1. PICK x \in RowId, s \in Serve :
        Adds(x) /\ (\A y \in RowId \ {x} : table'[y] = table[y]) /\ Moves(p, s) /\ s.at = "consent"
  BY <1>0, SaveGrantDoes
<1>2. UNCHANGED <<task, registered, waiting, redeemed, rushed, over, late, hits, reach, passed>>
  BY <1>0, SaveGrantDoes
<1>3. ProviderShapes'
  BY <1>0, <1>1, <1>2, ShapesStay DEF Adds, Moves, Uncounted, ProviderShapes
<1>4. RowsAgree' /\ RequestsAgree' /\ OneCodeEach' /\ RevokedAreGone'
  BY <1>0, SaveGrantAgrees, SaveGrantCodes, SaveGrantRevokes
<1>5. RedeemedAreSpent'
  BY <1>0, <1>1, <1>2, AddsLast, OthersIdle, SpentStays DEF Redemption
<1>6. WaitingAreOpen' /\ PassedAreCounted'
  BY <1>0, <1>1, <1>2, WaitingStay, CountsStay DEF Adds, Asking, Uncounted
<1> QED
  BY <1>3, <1>4, <1>5, <1>6 DEF ProviderInv

LEMMA FinishKeeps == ProviderInv /\ (\E p \in Proc : Provider!Finish(p)) => ProviderInv'
<1> SUFFICES ASSUME ProviderInv, NEW p \in Proc, Provider!Finish(p) PROVE ProviderInv'
  OBVIOUS
<1>0. /\ ProviderShapes /\ RowsAgree /\ RequestsAgree /\ OneCodeEach /\ RedeemedAreSpent /\ RevokedAreGone
      /\ WaitingAreOpen /\ PassedAreCounted
  BY DEF ProviderInv
<1>1. /\ table' \in Tables /\ (\A y \in RowId \ {serving[p].row} : table'[y] = table[y])
      /\ Moves(p, IdleRequest) /\ waiting' = waiting \ {serving[p].row}
      /\ UNCHANGED <<task, registered, redeemed, rushed, over, late, hits, reach, passed>>
  BY <1>0, FinishDoes
<1>2. ProviderShapes'
  BY <1>0, <1>1, ShapesStay DEF Moves, Uncounted, ProviderShapes
<1>3. RowsAgree' /\ RequestsAgree' /\ OneCodeEach' /\ RevokedAreGone'
  BY <1>0, FinishAgrees, FinishCodes, FinishRevokes
<1>4. RedeemedAreSpent'
  BY <1>0, <1>1, FinishLasts, IdleMoves, QuitsIdle, SpentStays
<1>5. WaitingAreOpen' /\ PassedAreCounted'
  BY <1>0, <1>1, WaitingStay, CountsStay DEF Uncounted
<1> QED
  BY <1>2, <1>3, <1>4, <1>5 DEF ProviderInv

LEMMA ResumeKeeps == ProviderInv /\ Resumptions => ProviderInv'
<1> SUFFICES ASSUME ProviderInv, NEW x \in RowId, Provider!Resume(x) PROVE ProviderInv'
  BY DEF Resumptions
<1>0. /\ ProviderShapes /\ RowsAgree /\ RequestsAgree /\ OneCodeEach /\ RedeemedAreSpent /\ RevokedAreGone
      /\ WaitingAreOpen /\ PassedAreCounted
  BY DEF ProviderInv
<1>1. /\ waiting' = waiting \ {x} /\ (\A y \in RowId \ {x} : table[y].kind # "none" => table'[y] = table[y])
      /\ UNCHANGED <<task, serving, registered, redeemed, rushed, over, late, hits, reach, passed>>
  BY <1>0, ResumeDoes
<1>2. table' \in Tables /\ Lasting
  <2>1. Wears \/ \E y \in RowId : Adds(y)
    BY <1>0, ResumeDoes
  <2> QED
    BY <2>1, WearsLast, AddsLast DEF Wears, Adds
<1>3. ProviderShapes'
  BY <1>0, <1>1, <1>2, ShapesStay DEF Uncounted, ProviderShapes
<1>4. RowsAgree' /\ RequestsAgree' /\ OneCodeEach' /\ RevokedAreGone'
  BY <1>0, ResumeAgrees, ResumeCodes, ResumeRevokes
<1>5. RedeemedAreSpent'
  BY <1>0, <1>1, <1>2, SpentStays DEF Idles
<1>6. WaitingAreOpen' /\ PassedAreCounted'
  BY <1>0, <1>1, WaitingStay, CountsStay DEF Asking, Uncounted
<1> QED
  BY <1>3, <1>4, <1>5, <1>6 DEF ProviderInv

LEMMA RedeemKeeps == ProviderInv /\ (\E p \in Proc, x \in RowId : Provider!Redeem(p, x)) => ProviderInv'
<1> SUFFICES ASSUME ProviderInv, NEW p \in Proc, NEW x \in RowId, Provider!Redeem(p, x) PROVE ProviderInv'
  OBVIOUS
<1>0. /\ ProviderShapes /\ RowsAgree /\ RequestsAgree /\ OneCodeEach /\ RedeemedAreSpent /\ RevokedAreGone
      /\ WaitingAreOpen /\ PassedAreCounted
  BY DEF ProviderInv
<1>1. /\ Wears /\ (\A y \in RowId : ~table[y].expired \/ table[y].kind = "none" => table'[y] = table[y])
      /\ UNCHANGED <<task, registered, waiting, redeemed, over, late, hits, reach, passed>>
  BY <1>0, RedeemDoes
<1>2. serving' = serving \/ \E s \in Serve : Moves(p, s) /\ s.at # "consent" /\ s.todo = Provider!TokenKinds
  BY <1>0, RedeemDoes
<1>3. /\ serving' \in [Proc -> Serve] /\ Reticent
      /\ \A q \in Proc : serving'[q].at = "revoke" => serving'[q] = serving[q] \/ serving'[q].todo = Provider!TokenKinds
  <2>1. CASE serving' = serving
    BY <1>0, <2>1 DEF Reticent, Consents, ProviderShapes
  <2>2. ASSUME NEW s \in Serve, Moves(p, s), s.at # "consent", s.todo = Provider!TokenKinds
        PROVE  /\ serving' \in [Proc -> Serve] /\ Reticent
               /\ \A q \in Proc : serving'[q].at = "revoke" => serving'[q] = serving[q] \/ serving'[q].todo = Provider!TokenKinds
    BY <2>2, OneRequestMoves DEF Moves
  <2> QED
    BY <1>2, <2>1, <2>2
<1>4. ProviderShapes'
  BY <1>0, <1>1, <1>3, ShapesStay DEF Wears, Uncounted, ProviderShapes
<1>5. RowsAgree' /\ RequestsAgree' /\ RedeemedAreSpent'
  BY <1>0, RedeemAgrees, RedeemSpends
<1>6. OneCodeEach' /\ RevokedAreGone'
  BY <1>0, <1>1, <1>3, CodesWear, WearsRevokes
<1>7. WaitingAreOpen' /\ PassedAreCounted'
  BY <1>0, <1>1, WaitingStay, CountsStay DEF Uncounted
<1> QED
  BY <1>4, <1>5, <1>6, <1>7 DEF ProviderInv

LEMMA ConsumeKeeps == ProviderInv /\ (\E p \in Proc : Provider!Consume(p)) => ProviderInv'
<1> SUFFICES ASSUME ProviderInv, NEW p \in Proc, Provider!Consume(p) PROVE ProviderInv'
  OBVIOUS
<1>0. /\ ProviderShapes /\ RowsAgree /\ RequestsAgree /\ OneCodeEach /\ RedeemedAreSpent /\ RevokedAreGone
      /\ WaitingAreOpen /\ PassedAreCounted
  BY DEF ProviderInv
<1>1. /\ serving[p].at = "consume" /\ Wears /\ (\A y \in RowId : y # serving[p].row => table'[y] = table[y])
      /\ table'[serving[p].row].consumed \/ table'[serving[p].row].gone
      /\ UNCHANGED <<task, registered, waiting, redeemed, rushed, over, late, hits, reach, passed>>
  BY <1>0, ConsumeDoes
<1>2. PICK s \in Serve : Moves(p, s) /\ s.at = "save" /\ s.row = serving[p].row /\ s.grant = serving[p].grant
  BY <1>0, ConsumeDoes
<1>3. ProviderShapes'
  BY <1>0, <1>1, <1>2, ShapesStay DEF Wears, Moves, Uncounted, ProviderShapes
<1>4. RowsAgree' /\ RequestsAgree'
  BY <1>0, <1>1, <1>2, RedemptionAgrees DEF Redemption
<1>5. OneCodeEach'
  BY <1>0, <1>1, <1>2, OneRequestMoves, CodesWear
<1>6. RedeemedAreSpent'
  BY <1>0, <1>1, <1>2, WearsLast, SpentGoesOn DEF Redemption
<1>7. RevokedAreGone'
  BY <1>0, <1>1, <1>2, WearsRevokes DEF Moves
<1>8. WaitingAreOpen'
  <2>1. IsToken(serving[p].row)
    BY <1>0, <1>1 DEF RequestsAgree, RequestAgrees, Redemption
  <2>2. \A y \in waiting : y # serving[p].row
    BY <1>0, <2>1 DEF WaitingAreOpen, Asking, IsToken, Provider!TokenKinds
  <2> QED
    BY <1>0, <1>1, <2>2, WaitingStay
<1>9. PassedAreCounted'
  BY <1>0, <1>1, CountsStay DEF Uncounted
<1> QED
  BY <1>3, <1>4, <1>5, <1>6, <1>7, <1>8, <1>9 DEF ProviderInv

LEMMA SaveTokensKeeps == ProviderInv /\ (\E p \in Proc : Provider!SaveTokens(p)) => ProviderInv'
<1> SUFFICES ASSUME ProviderInv, NEW p \in Proc, Provider!SaveTokens(p) PROVE ProviderInv'
  OBVIOUS
<1>0. /\ ProviderShapes /\ RowsAgree /\ RequestsAgree /\ OneCodeEach /\ RedeemedAreSpent /\ RevokedAreGone
      /\ WaitingAreOpen /\ PassedAreCounted
  BY DEF ProviderInv
<1>1. /\ Moves(p, IdleRequest) /\ serving[p].at = "save"
      /\ redeemed' = [redeemed EXCEPT ![serving[p].row] = @ + 1]
      /\ UNCHANGED <<task, registered, waiting, rushed, over, hits, reach, passed>>
  BY <1>0, SaveTokensDoes
<1>2. PICK y \in RowId : Adds(y) /\ \A z \in RowId \ {y} : table'[z] = table[z]
  BY <1>0, SaveTokensDoes
<1>3. redeemed' \in [RowId -> Nat]
  <2>1. serving[p].row \in RowId
    BY <1>0, <1>1 DEF RequestsAgree, RequestAgrees, Redemption
  <2>2. redeemed \in [RowId -> Nat]
    BY <1>0 DEF ProviderShapes
  <2> QED
    BY <1>1, <2>1, <2>2
<1>4. ProviderShapes'
  BY <1>0, <1>1, <1>2, <1>3, ShapesStay DEF Adds, Moves, Uncounted
<1>5. RowsAgree' /\ RequestsAgree' /\ OneCodeEach' /\ RedeemedAreSpent' /\ RevokedAreGone'
  BY <1>0, SaveTokensAgrees, SaveTokensCodes, SaveTokensSpends, SaveTokensRevokes
<1>6. WaitingAreOpen' /\ PassedAreCounted'
  BY <1>0, <1>1, <1>2, WaitingStay, CountsStay DEF Adds, Asking, Uncounted
<1> QED
  BY <1>4, <1>5, <1>6 DEF ProviderInv

LEMMA RevokeKeeps == ProviderInv /\ (\E p \in Proc : Provider!RevokeByGrantId(p)) => ProviderInv'
<1> SUFFICES ASSUME ProviderInv, NEW p \in Proc, Provider!RevokeByGrantId(p) PROVE ProviderInv'
  OBVIOUS
<1>0. /\ ProviderShapes /\ RowsAgree /\ RequestsAgree /\ OneCodeEach /\ RedeemedAreSpent /\ RevokedAreGone
      /\ WaitingAreOpen /\ PassedAreCounted
  BY DEF ProviderInv
<1>1. /\ serving[p].at = "revoke"
      /\ UNCHANGED <<task, registered, waiting, redeemed, rushed, over, late, hits, reach, passed>>
  BY <1>0, RevokeDoes
<1>2. PICK k \in Provider!TokenKinds, s \in Serve :
        /\ Wears /\ (\A y \in RowId : ~(table[y].kind = k /\ table[y].grant = serving[p].grant) => table'[y] = table[y])
        /\ Moves(p, s) /\ s.at = "revoke" /\ s.row = serving[p].row /\ s.grant = serving[p].grant
  BY <1>0, RevokeDoes
<1>3. ProviderShapes'
  BY <1>0, <1>1, <1>2, ShapesStay DEF Wears, Moves, Uncounted, ProviderShapes
<1>4. RowsAgree' /\ RequestsAgree'
  BY <1>0, <1>1, <1>2, RedemptionAgrees DEF Redemption
<1>5. OneCodeEach'
  BY <1>0, <1>1, <1>2, OneRequestMoves, CodesWear
<1>6. RedeemedAreSpent'
  BY <1>0, <1>1, <1>2, WearsLast, SpentGoesOn DEF Redemption
<1>7. RevokedAreGone'
  BY <1>0, RevokeRevokes
<1>8. WaitingAreOpen'
  <2>1. \A y \in waiting : y \in RowId /\ table[y].kind # k
    BY <1>0 DEF WaitingAreOpen, Asking, Provider!TokenKinds
  <2> QED
    BY <1>0, <1>1, <1>2, <2>1, WaitingStay
<1>9. PassedAreCounted'
  BY <1>0, <1>1, CountsStay DEF Uncounted
<1> QED
  BY <1>3, <1>4, <1>5, <1>6, <1>7, <1>8, <1>9 DEF ProviderInv

LEMMA DestroyKeeps == ProviderInv /\ (\E p \in Proc : Provider!DestroyGrant(p)) => ProviderInv'
<1> SUFFICES ASSUME ProviderInv, NEW p \in Proc, Provider!DestroyGrant(p) PROVE ProviderInv'
  OBVIOUS
<1>0. /\ ProviderShapes /\ RowsAgree /\ RequestsAgree /\ OneCodeEach /\ RedeemedAreSpent /\ RevokedAreGone
      /\ WaitingAreOpen /\ PassedAreCounted
  BY DEF ProviderInv
<1>1. /\ serving[p].at = "revoke" /\ Moves(p, IdleRequest) /\ Wears
      /\ \A y \in RowId : y # serving[p].grant => table'[y] = table[y]
      /\ UNCHANGED <<task, registered, waiting, redeemed, rushed, late, hits, reach, passed>>
  BY <1>0, DestroyDoes
<1>2. Quits /\ Idles /\ Reticent
  BY <1>1, IdleMoves, QuitsIdle
<1>3. ProviderShapes'
  BY <1>0, <1>1, ShapesStay DEF Wears, Moves, Uncounted, ProviderShapes
<1>4. RowsAgree' /\ RequestsAgree' /\ OneCodeEach' /\ RevokedAreGone'
  BY <1>0, <1>1, <1>2, QuitAgrees, CodesWear, DestroyRevokes
<1>5. RedeemedAreSpent'
  BY <1>0, <1>1, <1>2, WearsLast, SpentStays
<1>6. WaitingAreOpen'
  <2>1. IsGrant(serving[p].grant)
    BY <1>0, <1>1 DEF RequestsAgree, RequestAgrees, RowsAgree, RowAgrees, Redemption
  <2>2. \A y \in waiting : y # serving[p].grant
    BY <1>0, <2>1 DEF WaitingAreOpen, Asking, IsGrant
  <2> QED
    BY <1>0, <1>1, <2>2, WaitingStay
<1>7. PassedAreCounted'
  BY <1>0, <1>1, CountsStay DEF Uncounted
<1> QED
  BY <1>3, <1>4, <1>5, <1>6, <1>7 DEF ProviderInv

\* Steps on which nothing happens but that rows wear out and requests end.
LEMMA WearAndQuitKeep ==
  ASSUME RowsAgree, RequestsAgree, OneCodeEach, RedeemedAreSpent, RevokedAreGone,
         Wears, Quits, UNCHANGED <<redeemed, rushed, over, late>>
  PROVE  RowsAgree' /\ RequestsAgree' /\ OneCodeEach' /\ RedeemedAreSpent' /\ RevokedAreGone'
<1>1. Idles /\ Reticent
  BY QuitsIdle
<1>2. \A q \in Proc : serving'[q].at = "revoke" => serving'[q] = serving[q]
  BY <1>1 DEF Idles, Redemption
<1> QED
  BY <1>1, <1>2, QuitAgrees, CodesWear, WearsLast, SpentStays, WearsRevokes

LEMMA ExpiryKeeps ==
  ProviderInv /\ ((\E x \in RowId : Provider!Expire(x)) \/ Provider!SweepExpired) => ProviderInv'
<1> SUFFICES ASSUME ProviderInv, (\E x \in RowId : Provider!Expire(x)) \/ Provider!SweepExpired PROVE ProviderInv'
  OBVIOUS
<1>0. /\ ProviderShapes /\ RowsAgree /\ RequestsAgree /\ OneCodeEach /\ RedeemedAreSpent /\ RevokedAreGone
      /\ WaitingAreOpen /\ PassedAreCounted
  BY DEF ProviderInv
<1>1. /\ Wears /\ waiting' \subseteq waiting
      /\ \A y \in waiting' : y \in RowId /\ ~table[y].expired => table'[y] = table[y]
      /\ UNCHANGED <<task, serving, registered, redeemed, rushed, over, late, hits, reach, passed>>
  BY <1>0, ExpiryDoes
<1>2. ProviderShapes'
  BY <1>0, <1>1, ShapesStay DEF Wears, Uncounted, ProviderShapes
<1>3. RowsAgree' /\ RequestsAgree' /\ OneCodeEach' /\ RedeemedAreSpent' /\ RevokedAreGone'
  BY <1>0, <1>1, WearAndQuitKeep DEF Quits
<1>4. WaitingAreOpen' /\ PassedAreCounted'
  BY <1>0, <1>1, WaitingStay, CountsStay DEF Uncounted
<1> QED
  BY <1>2, <1>3, <1>4 DEF ProviderInv

\* One request more in a counter.
LEMMA SlotsGrow ==
  ASSUME ProviderShapes, NEW h \in {0} \cup Proc, hits' = [hits EXCEPT ![h] = hits[h] + 1]
  PROVE  /\ IsFiniteSet(Slots) /\ IsFiniteSet(Slots')
         /\ Cardinality(Slots') \in Nat /\ Cardinality(Slots) \in Nat
         /\ Cardinality(Slots) <= Cardinality(Slots')
         /\ hits[h] + 1 <= Limit => Cardinality(Slots') = Cardinality(Slots) + 1
<1> DEFINE All == ({0} \cup Proc) \X (1..Limit)
<1>1. Limit \in Nat /\ IsFiniteSet(Proc)
  BY ProviderAssumption
<1>2. IsFiniteSet({0} \cup Proc)
  <2>1. {0} \cup Proc = Proc \cup {0}
    OBVIOUS
  <2> QED
    BY <1>1, <2>1, FS_AddElement
<1>3. IsFiniteSet(All)
  <2>1. IsFiniteSet(1..Limit)
    BY <1>1, FS_Interval
  <2> QED
    BY <1>2, <2>1, FS_Product
<1>4. Slots \subseteq All /\ Slots' \subseteq All
  BY DEF Slots
<1> HIDE DEF All
<1>5. IsFiniteSet(Slots) /\ IsFiniteSet(Slots')
  BY <1>3, <1>4, FS_Subset
<1>6. Cardinality(Slots') \in Nat /\ Cardinality(Slots) \in Nat
  BY <1>5, FS_CardinalityType
<1>7. hits \in [{0} \cup Proc -> 0..(Limit + 1)] /\ hits[h] \in Nat
  BY <1>1 DEF ProviderShapes
<1>8. \A g \in {0} \cup Proc : hits'[g] = IF g = h THEN hits[h] + 1 ELSE hits[g]
  BY <1>7
<1>9. Slots \subseteq Slots'
  <2> SUFFICES ASSUME NEW g \in {0} \cup Proc, NEW i \in 1..Limit, i <= hits[g] PROVE i <= hits'[g]
    BY DEF Slots
  <2> QED
    BY <1>1, <1>7, <1>8
<1>10. Cardinality(Slots) <= Cardinality(Slots')
  BY <1>5, <1>9, FS_Subset
<1>11. ASSUME hits[h] + 1 <= Limit PROVE Cardinality(Slots') = Cardinality(Slots) + 1
  <2> DEFINE new == <<h, hits[h] + 1>>
  <2>1. new \notin Slots
    <3>1. ~(hits[h] + 1 <= hits[h])
      BY <1>7
    <3> QED
      BY <3>1 DEF Slots
  <2>2. hits[h] + 1 \in 1..Limit
    BY <1>1, <1>7, <1>11
  <2>3. new \in Slots'
    BY <1>7, <1>8, <2>2 DEF Slots
  <2>4. \A g \in {0} \cup Proc, i \in 1..Limit : i <= hits'[g] => i <= hits[g] \/ (g = h /\ i = hits[h] + 1)
    BY <1>1, <1>7, <1>8
  <2>5. Slots' \subseteq Slots \cup {new}
    BY <2>4 DEF Slots
  <2> HIDE DEF new
  <2>6. Slots' = Slots \cup {new}
    BY <1>9, <2>3, <2>5
  <2> QED
    BY <1>5, <2>1, <2>6, FS_AddElement
<1> QED
  BY <1>5, <1>6, <1>10, <1>11

LEMMA CountCounts ==
  ASSUME ProviderShapes, PassedAreCounted, NEW p \in Proc, Provider!Count(p)
  PROVE  /\ PassedAreCounted' /\ hits' \in [{0} \cup Proc -> 0..(Limit + 1)] /\ passed' \in Nat
         /\ UNCHANGED <<task, table, serving, registered, reach, waiting, redeemed, rushed, over, late>>
<1>1. /\ Provider!Guard(p) /\ \A g \in DOMAIN hits : hits[g] <= Limit
      /\ UNCHANGED <<task, table, serving, registered, reach, waiting, redeemed, rushed, over, late>>
  BY DEF Provider!Count, Provider!histories
<1>2. /\ hits \in [{0} \cup Proc -> 0..(Limit + 1)] /\ DOMAIN hits = {0} \cup Proc /\ passed \in Nat
      /\ Limit \in Nat /\ Limit # 0
  BY ProviderAssumption DEF ProviderShapes
<1>3. PICK h \in {0} \cup Proc : h = Provider!Counter(p)
  BY DEF Provider!Counter, Provider!Shared
<1>4. /\ hits' = [hits EXCEPT ![h] = hits[h] + 1]
      /\ passed' = IF hits'[h] <= Limit \/ (h # 0 /\ hits'[h] = 1) THEN passed + 1 ELSE passed
  BY <1>1, <1>2, <1>3 DEF Provider!Guard, Provider!Shared
<1>5. hits[h] \in Nat /\ hits[h] <= Limit
  BY <1>1, <1>2
<1>6. hits'[h] = hits[h] + 1 /\ hits' \in [{0} \cup Proc -> 0..(Limit + 1)]
  BY <1>2, <1>4, <1>5
<1>7. passed' = IF hits[h] + 1 <= Limit THEN passed + 1 ELSE passed
  BY <1>2, <1>4, <1>5, <1>6
<1>8. /\ Cardinality(Slots') \in Nat /\ Cardinality(Slots) \in Nat
      /\ Cardinality(Slots) <= Cardinality(Slots')
      /\ hits[h] + 1 <= Limit => Cardinality(Slots') = Cardinality(Slots) + 1
  BY <1>4, SlotsGrow
<1>9. PassedAreCounted'
  BY <1>2, <1>7, <1>8 DEF PassedAreCounted
<1> QED
  BY <1>1, <1>2, <1>6, <1>7, <1>9

LEMMA MinuteCounts ==
  ASSUME ProviderShapes, Provider!NextMinute
  PROVE  /\ PassedAreCounted' /\ hits' \in [{0} \cup Proc -> 0..(Limit + 1)] /\ passed' \in Nat
         /\ UNCHANGED <<task, table, serving, registered, reach, waiting, redeemed, rushed, over, late>>
<1>1. /\ hits' = [h \in {0} \cup Proc |-> 0] /\ passed' = 0
      /\ UNCHANGED <<task, table, serving, registered, reach, waiting, redeemed, rushed, over, late>>
  BY DEF Provider!NextMinute, Provider!histories, ProviderShapes
<1>2. Slots' = {}
  BY <1>1 DEF Slots
<1>3. Cardinality(Slots') = 0
  BY <1>2, FS_EmptySet
<1> QED
  BY <1>1, <1>3, ProviderAssumption DEF PassedAreCounted

LEMMA QuietKeeps ==
  ProviderInv /\ (\/ Provider!RemoveClient \/ Provider!NextMinute \/ Provider!SwitchRedis
                  \/ \E p \in Proc : Provider!FailRequest(p) \/ Provider!Count(p)) => ProviderInv'
<1> SUFFICES ASSUME ProviderInv,
                    \/ Provider!RemoveClient \/ Provider!NextMinute \/ Provider!SwitchRedis
                    \/ \E p \in Proc : Provider!FailRequest(p) \/ Provider!Count(p)
             PROVE  ProviderInv'
  OBVIOUS
<1>0. /\ ProviderShapes /\ RowsAgree /\ RequestsAgree /\ OneCodeEach /\ RedeemedAreSpent /\ RevokedAreGone
      /\ WaitingAreOpen /\ PassedAreCounted
  BY DEF ProviderInv
<1>1. /\ serving' = serving \/ \E p \in Proc : Moves(p, IdleRequest)
      /\ UNCHANGED <<task, table, waiting, redeemed, rushed, over, late>>
  BY <1>0, QuietDoes
<1>2. Wears /\ Quits /\ serving' \in [Proc -> Serve]
  BY <1>0, <1>1, WornItself, IdleMoves DEF Wears, Quits, ProviderShapes, Tables, Moves
<1>3. RowsAgree' /\ RequestsAgree' /\ OneCodeEach' /\ RedeemedAreSpent' /\ RevokedAreGone'
  BY <1>0, <1>1, <1>2, WearAndQuitKeep
<1>4. WaitingAreOpen'
  BY <1>0, <1>1, WaitingStay
<1>5. /\ registered' \in BOOLEAN /\ reach' \in BOOLEAN
      /\ hits' \in [{0} \cup Proc -> 0..(Limit + 1)] /\ passed' \in Nat /\ PassedAreCounted'
  <2>1. CASE Provider!RemoveClient
    BY <1>0, <2>1 DEF Provider!RemoveClient, Provider!guards, ProviderShapes, PassedAreCounted, Slots
  <2>2. CASE Provider!NextMinute
    BY <1>0, <2>2, MinuteCounts DEF ProviderShapes
  <2>3. CASE Provider!SwitchRedis
    <3>1. hits' = hits /\ passed' = passed /\ registered' = registered /\ reach' = ~reach
      BY <2>3 DEF Provider!SwitchRedis
    <3>2. (~reach) \in BOOLEAN
      OBVIOUS
    <3> QED
      BY <1>0, <3>1, <3>2 DEF ProviderShapes, PassedAreCounted, Slots
  <2>4. ASSUME NEW p \in Proc, Provider!FailRequest(p) PROVE <1>5
    BY <1>0, <2>4 DEF Provider!FailRequest, Provider!guards, ProviderShapes, PassedAreCounted, Slots
  <2>5. ASSUME NEW p \in Proc, Provider!Count(p) PROVE <1>5
    BY <1>0, <2>5, CountCounts DEF ProviderShapes
  <2> QED
    BY <2>1, <2>2, <2>3, <2>4, <2>5
<1>6. ProviderShapes'
  BY <1>0, <1>1, <1>2, <1>5 DEF ProviderShapes
<1> QED
  BY <1>3, <1>4, <1>5, <1>6 DEF ProviderInv

LEMMA ProviderStep == ProviderInv /\ [HouseNext]_<<vars, provider>> => ProviderInv'
<1> SUFFICES ASSUME ProviderInv, [HouseNext]_<<vars, provider>> PROVE ProviderInv'
  OBVIOUS
<1>1. CASE UNCHANGED provider
  BY <1>1, SMTT(60) DEF provider, ProviderInv, ProviderShapes, RowsAgree, RowAgrees, RequestsAgree, RequestAgrees, OneCodeEach,
              RedeemedAreSpent, RevokedAreGone, WaitingAreOpen, PassedAreCounted, IsToken, IsGrant, Asking, Agreed, Open,
              Consents, Spent, Wiped, Slots
<1>2. CASE Provider!Next
  <2>1. CASE AuthRequests \/ Resumptions
    BY <2>1, AuthRequestKeeps, ResumeKeeps
  <2>2. CASE Provider!Decisions
    BY <2>2, DecideKeeps, SaveGrantKeeps, FinishKeeps DEF Provider!Decisions
  <2>3. CASE Provider!Redemptions
    BY <2>3, RedeemKeeps, ConsumeKeeps, SaveTokensKeeps, RevokeKeeps, DestroyKeeps DEF Provider!Redemptions
  <2>4. CASE (\E x \in RowId : Provider!Expire(x)) \/ Provider!SweepExpired
    BY <2>4, ExpiryKeeps
  <2>5. CASE \/ Provider!RemoveClient \/ Provider!NextMinute \/ Provider!SwitchRedis
             \/ \E p \in Proc : Provider!FailRequest(p) \/ Provider!Count(p)
    BY <2>5, QuietKeeps
  <2> QED
    BY <1>2, <2>1, <2>2, <2>3, <2>4, <2>5 DEF Provider!Next, AuthRequests, Resumptions
<1> QED
  BY <1>1, <1>2 DEF HouseNext

LEMMA ProviderBegins == HouseInit => ProviderInv
<1> SUFFICES ASSUME HouseInit PROVE ProviderInv
  OBVIOUS
<1>1. /\ task \in Tasks /\ serving = [p \in Proc |-> IdleRequest] /\ registered = TRUE
      /\ hits = [h \in {0} \cup Proc |-> 0] /\ reach = TRUE /\ passed = 0
      /\ waiting = {} /\ redeemed = [x \in RowId |-> 0] /\ rushed = {} /\ over = {} /\ late = {}
  BY DEF HouseInit, Provider!Init, Provider!Shared, IdleRequest
<1>2. PICK a \in Subject :
       table = [x \in RowId |->
         IF "decide" \in task.does \/ x > task.rows \/ x > 2 THEN Provider!Unused
         ELSE IF x = 1 THEN Provider!Row("Grant", 0, a) ELSE Provider!Row("AuthorizationCode", 1, a)]
  BY DEF HouseInit, Provider!Init, Provider!GrantColumn
<1> DEFINE g == Provider!Row("Grant", 0, a)
           c == Provider!Row("AuthorizationCode", 1, a)
<1>3. g \in StoredRow /\ g.kind = "Grant" /\ g.account = a
  BY DEF StoredRow, Provider!Kinds, Provider!Row
<1>4. \A x \in RowId : x \in Nat /\ x > 0 /\ \A y \in Nat : y > 0 /\ y < x => y \in RowId
  <2>1. Cardinality(RowId) \in Nat
    BY ProviderAssumption, FS_CardinalityType
  <2>2. RowId = 1..Cardinality(RowId)
    BY ProviderAssumption
  <2>3. PICK k \in Nat : RowId = 1..k
    BY <2>1, <2>2
  <2> QED
    BY <2>3
<1>5. 1 \in RowId => c \in StoredRow /\ c.kind = "AuthorizationCode" /\ c.grant = 1 /\ c.account = a
  BY DEF StoredRow, Provider!Kinds, Provider!TokenKinds, Provider!Row
<1> HIDE DEF g, c
<1>6. task.rows \in Nat
  BY <1>1, ProviderAssumption
<1>7. \A x \in RowId :
        \/ table[x] = Provider!Unused
        \/ x = 1 /\ table[x] = g
        \/ 1 \in RowId /\ table[1] = g /\ table[x] = c
  <2> SUFFICES ASSUME NEW x \in RowId, table[x] # Provider!Unused, x # 1
               PROVE  1 \in RowId /\ table[1] = g /\ table[x] = c
    BY <1>2 DEF g, c
  <2>1. "decide" \notin task.does /\ x <= task.rows /\ x <= 2
    BY <1>2, <1>4, <1>6
  <2>2. x = 2 /\ 1 \in RowId
    BY <1>4, <2>1
  <2> QED
    BY <1>2, <1>6, <2>1, <2>2 DEF g, c
<1>8. table \in Tables
  <2>1. \A x \in RowId : table[x] \in StoredRow \cup {Provider!Unused}
    BY <1>3, <1>5, <1>7
  <2>2. table = [x \in RowId |-> table[x]]
    BY <1>2
  <2> QED
    BY <2>1, <2>2 DEF Tables
<1>9. Limit \in Nat
  BY ProviderAssumption
<1>10. ProviderShapes
  BY <1>1, <1>8, <1>9, IdleServe DEF ProviderShapes, Tables
<1>11. RowsAgree
  <2> SUFFICES ASSUME NEW x \in RowId PROVE RowAgrees(x)
    BY DEF RowsAgree
  <2>1. CASE table[x] = Provider!Unused
    BY <2>1, UnusedIsNone DEF RowAgrees, Asking, Agreed, IsToken, Provider!TokenKinds
  <2>2. CASE table[x] = g
    BY <1>3, <2>2 DEF RowAgrees, Asking, Agreed, IsToken, Provider!TokenKinds
  <2>3. CASE 1 \in RowId /\ table[1] = g /\ table[x] = c
    BY <1>3, <1>5, <2>3 DEF RowAgrees, Asking, Agreed, IsToken, IsGrant
  <2> QED
    BY <1>7, <2>1, <2>2, <2>3
<1>12. RequestsAgree
  BY <1>1, IdleServe DEF RequestsAgree, RequestAgrees, Decision, Redemption
<1>13. OneCodeEach
  <2>1. \A x \in RowId : ~Open(x)
    BY <1>3, <1>5, <1>7, UnusedIsNone DEF Open, Agreed, Asking
  <2>2. \A p \in Proc : ~Consents(p)
    BY <1>1, IdleServe DEF Consents
  <2> QED
    BY <2>1, <2>2 DEF OneCodeEach
<1>14. RedeemedAreSpent /\ RevokedAreGone /\ WaitingAreOpen
  BY <1>1, IdleServe DEF RedeemedAreSpent, RevokedAreGone, WaitingAreOpen, Redemption
<1>15. PassedAreCounted
  <2>1. Slots = {}
    BY <1>1, <1>9 DEF Slots
  <2>2. Cardinality(Slots) = 0
    BY <2>1, FS_EmptySet
  <2> QED
    BY <1>1, <2>2 DEF PassedAreCounted
<1> QED
  BY <1>10, <1>11, <1>12, <1>13, <1>14, <1>15 DEF ProviderInv

LEMMA SlotsAreFew == ASSUME ProviderShapes PROVE Cardinality(Slots) \in Nat /\ Cardinality(Slots) <= Limit * (1 + Cardinality(Proc))
<1>1. Limit \in Nat /\ IsFiniteSet(Proc) /\ 0 \notin Proc
  BY ProviderAssumption
<1>2. {0} \cup Proc = Proc \cup {0}
  OBVIOUS
<1>3. IsFiniteSet({0} \cup Proc) /\ Cardinality({0} \cup Proc) = Cardinality(Proc) + 1 /\ Cardinality(Proc) \in Nat
  BY <1>1, <1>2, FS_AddElement, FS_CardinalityType
<1>4. IsFiniteSet(1..Limit) /\ Cardinality(1..Limit) = Limit
  BY <1>1, FS_Interval
<1> DEFINE C == {0} \cup Proc
           All == C \X (1..Limit)
<1>5. IsFiniteSet(All) /\ Cardinality(All) = Cardinality(C) * Cardinality(1..Limit)
  BY <1>3, <1>4, FS_Product
<1>6. Slots \subseteq All
  BY DEF Slots
<1> HIDE DEF All
<1>7. IsFiniteSet(Slots) /\ Cardinality(Slots) <= Cardinality(All)
  BY <1>5, <1>6, FS_Subset
<1>8. Cardinality(Slots) \in Nat
  BY <1>7, FS_CardinalityType
<1>9. Cardinality(All) = (Cardinality(Proc) + 1) * Limit
  BY <1>3, <1>4, <1>5
<1>10. (Cardinality(Proc) + 1) * Limit = Limit * (1 + Cardinality(Proc))
  BY <1>1, <1>3
<1> QED
  BY <1>7, <1>8, <1>9, <1>10

\* Codes and refresh tokens of any number of requests: each works once unless two requests
\* redeem it at a time, a replay ends its grant, the grant is the consent of the user it names,
\* consent pages outlive what they extend, and a minute lets through no more than the limits.
THEOREM ProviderHolds == HouseSpec => []ProviderIsSound
<1>1. ProviderInv => ProviderIsSound
  <2> SUFFICES ASSUME ProviderInv PROVE ProviderIsSound
    OBVIOUS
  <2>0. /\ ProviderShapes /\ RowsAgree /\ RequestsAgree /\ RedeemedAreSpent /\ RevokedAreGone
        /\ WaitingAreOpen /\ PassedAreCounted
    BY DEF ProviderInv
  <2>1. Provider!TypeOK
    <3>1. \A x \in RowId : table[x] # Provider!Unused =>
            table[x].kind \in Provider!Kinds /\ table[x].grant \in {0} \cup RowId /\ table[x].account \in Subject \cup {Nil}
      BY <2>0 DEF ProviderShapes, StoredRow
    <3>2. \A p \in Proc : serving[p].row \in {0} \cup RowId
      BY <2>0 DEF ProviderShapes, Serve
    <3> QED
      BY <2>0, <3>1, <3>2 DEF Provider!TypeOK, ProviderShapes, Provider!Shared
  <2>2. Provider!RedeemedOnce
    BY <2>0 DEF RedeemedAreSpent, Provider!RedeemedOnce
  <2>3. Provider!ReplayEndsTheGrant
    <3> SUFFICES ASSUME NEW x \in RowId, Provider!Stored(x), IsToken(x), x \notin late
                 PROVE  table[x].grant # 0 /\ table[x].grant \notin over
      BY DEF Provider!ReplayEndsTheGrant, IsToken
    <3>1. table[x].grant \in RowId
      BY <2>0 DEF RowsAgree, RowAgrees, IsGrant
    <3>2. 0 \notin RowId
      <4>1. Cardinality(RowId) \in Nat
        BY ProviderAssumption, FS_CardinalityType
      <4>2. RowId = 1..Cardinality(RowId)
        BY ProviderAssumption
      <4>3. PICK k \in Nat : RowId = 1..k
        BY <4>1, <4>2
      <4> QED
        BY <4>3
    <3>3. ~Wiped(table[x].kind, table[x].grant)
      BY DEF Wiped, Provider!Stored
    <3> QED
      BY <2>0, <3>1, <3>2, <3>3 DEF RevokedAreGone, IsToken
  <2>4. Provider!ConsentsSurvive
    BY <2>0 DEF WaitingAreOpen, Asking, Provider!ConsentsSurvive, Provider!Readable, Provider!Stored
  <2>5. Provider!CodesAreConsentedTo
    BY <2>0 DEF RowsAgree, RowAgrees, Provider!CodesAreConsentedTo
  <2>6. Provider!WindowHolds
    <3>1. \A S : Provider!Cardinality(S) = Cardinality(S)
      BY DEF Provider!Cardinality, Cardinality
    <3>2. passed \in Nat /\ Limit \in Nat /\ IsFiniteSet(Proc)
      BY <2>0, ProviderAssumption DEF ProviderShapes
    <3>3. Cardinality(Proc) \in Nat
      BY <3>2, FS_CardinalityType
    <3>4. Limit * (1 + Cardinality(Proc)) \in Nat
      BY <3>2, <3>3
    <3>5. passed <= Limit * (1 + Cardinality(Proc))
      BY <2>0, <3>2, <3>4, SlotsAreFew DEF PassedAreCounted
    <3> QED
      BY <3>1, <3>5 DEF Provider!WindowHolds
  <2> QED
    BY <2>1, <2>2, <2>3, <2>4, <2>5, <2>6 DEF ProviderIsSound, Provider!ProviderIsSound
<1> QED
  BY <1>1, ProviderStep, ProviderBegins, PTL DEF HouseSpec
=============================================================================
