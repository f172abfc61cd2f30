-------------------------- MODULE AuthStateProofs --------------------------
(***************************************************************************)
(* Proofs about AuthState: what the entry holds was current when it was    *)
(* read, so no verdict is older than the life of an entry plus the latency *)
(* of a request.  And about FederatedLogin, as MCAuthState hosts it: what  *)
(* a request carries from one step to the next still holds of a user who   *)
(* is there, and a session goes on meaning the user its login was about.   *)
(***************************************************************************)
EXTENDS MCAuthState, FiniteSetTheorems, TLAPS

Inv == TypeOK /\ RowLock /\ EntryAge

\* The initial state satisfies the invariant.
LEMMA InitInv == Init => Inv
  BY ConstAssumption DEF Init, Inv, TypeOK, RowLock, EntryAge, Entry, Version, Horizon

\* Every step preserves the invariant.
LEMMA NextInv == Inv /\ [Next]_vars => Inv'
<1> SUFFICES ASSUME Inv, [Next]_vars PROVE Inv'
  OBVIOUS
<1> USE ConstAssumption DEF Inv
<1>1. ASSUME NEW w \in Writer, Bump(w) \/ DelInTransaction(w) \/ LateDel(w) \/ Rollback(w) PROVE Inv'
  <2>1. /\ UNCHANGED <<version, stale, pc, claim, seen, since, verdict>>
        /\ entry' = entry \/ entry' = [entry EXCEPT !.life = 0]
    BY <1>1 DEF Bump, DelInTransaction, LateDel, Rollback, Drop, reqVars
  <2>2. wpc' \in [Writer -> {"idle", "del", "commit", "lateDel"}]
    BY <1>1 DEF Bump, DelInTransaction, LateDel, Rollback, TypeOK
  <2>3. entry' \in Entry /\ entry'.version = entry.version /\ (entry'.life = entry.life \/ entry'.life = 0)
    BY <2>1 DEF TypeOK, Entry
  <2>4. TypeOK'
    BY <2>1, <2>2, <2>3 DEF TypeOK
  <2>5. EntryAge'
    BY <2>1, <2>3 DEF EntryAge
  <2>6. RowLock'
    BY <1>1, <2>1 DEF RowLock, Bump, DelInTransaction, LateDel, Rollback, TypeOK
  <2> QED
    BY <2>4, <2>5, <2>6
<1>2. ASSUME NEW w \in Writer, Commit(w, "commit", "idle") \/ Commit(w, "del", "lateDel") PROVE Inv'
  <2>1. version' = version + 1 /\ UNCHANGED <<stale, entry, pc, claim, seen, since, verdict>>
    BY <1>2 DEF Commit, reqVars
  <2>2. /\ wpc' \in [Writer -> {"idle", "del", "commit", "lateDel"}]
        /\ \A x \in Writer : wpc'[x] \notin {"del", "commit"}
    BY <1>2 DEF Commit, TypeOK, RowLock
  <2>3. version + 1 \in Version
    BY <1>2 DEF Commit, RowLock, TypeOK, Version
  <2>4. TypeOK'
    <3>1. version \in Int /\ entry.version \in Int
      BY DEF TypeOK, Version, Entry
    <3>2. entry.version <= version + 1
      BY <3>1 DEF TypeOK
    <3>3. \A r \in Req : claim[r] <= version + 1 /\ seen[r] <= version + 1
      BY <3>1 DEF TypeOK, Version
    <3> QED
      BY <2>1, <2>2, <2>3, <3>2, <3>3 DEF TypeOK
  <2>5. EntryAge'
    BY <2>1, <2>3, SMTT(60) DEF TypeOK, EntryAge, Version, Entry, Horizon
  <2> QED
    BY <2>2, <2>4, <2>5 DEF RowLock
<1>3. ASSUME NEW r \in Req, NEW v \in Version, Arrive(r, v) PROVE Inv'
  BY <1>3, SMTT(60) DEF Arrive, TypeOK, RowLock, EntryAge, Version
<1>4. ASSUME NEW r \in Req, Get(r) \/ ReadDbOnly(r) \/ Skip(r) PROVE Inv'
  <2>1. /\ UNCHANGED <<version, stale, entry, wpc, claim, seen>>
        /\ \E p \in {"idle", "read", "readOnly"} : pc' = [pc EXCEPT ![r] = p]
        /\ since' = since \/ since' = [since EXCEPT ![r] = 0]
        /\ pc[r] # "set"
    BY <1>4 DEF Get, ReadDbOnly, Skip, Answer
  <2>2. verdict' \in [Req -> {"none", "accepted", "rejected", "unchecked"}]
    BY <1>4 DEF Get, ReadDbOnly, Skip, Answer, TypeOK
  <2>3. pc' \in [Req -> {"idle", "get", "read", "readOnly", "set"}] /\ since' \in [Req -> 0..Latency]
    BY <2>1 DEF TypeOK
  <2>4. \A q \in Req : pc'[q] = "set" => pc[q] = "set" /\ since'[q] = since[q]
    BY <2>1 DEF TypeOK
  <2>5. TypeOK'
    BY <2>1, <2>2, <2>3 DEF TypeOK
  <2>6. EntryAge'
    BY <2>1, <2>4 DEF EntryAge
  <2> QED
    BY <2>1, <2>5, <2>6 DEF RowLock
<1>5. ASSUME NEW r \in Req, ReadDb(r) PROVE Inv'
  BY <1>5, SMTT(60) DEF ReadDb, TypeOK, RowLock, EntryAge, Version
<1>6. ASSUME NEW r \in Req, Set(r) PROVE Inv'
  <2>1. /\ UNCHANGED <<version, stale, wpc, claim, seen>>
        /\ pc' = [pc EXCEPT ![r] = "idle"] /\ since' = [since EXCEPT ![r] = 0]
        /\ pc[r] = "set"
        /\ entry' = [version |-> seen[r], life |-> Ttl] \/ entry' = entry
    BY <1>6 DEF Set, Answer, Filled
  <2>2. verdict' \in [Req -> {"none", "accepted", "rejected", "unchecked"}]
    BY <1>6 DEF Set, Answer, TypeOK
  <2>3. TypeOK'
    <3>1. pc' \in [Req -> {"idle", "get", "read", "readOnly", "set"}] /\ since' \in [Req -> 0..Latency]
      BY <2>1 DEF TypeOK
    <3>2. entry' \in Entry /\ entry'.version <= version
      BY <2>1 DEF TypeOK, Entry
    <3> QED
      BY <2>1, <2>2, <3>1, <3>2 DEF TypeOK
  <2>4. seen[r] < version => stale[seen[r]] + Ttl <= Horizon
    BY <2>1 DEF EntryAge, TypeOK, Horizon, Version
  <2>5. EntryAge'
    BY <2>1, <2>4 DEF TypeOK, EntryAge, Version
  <2> QED
    BY <2>1, <2>3, <2>5 DEF RowLock
<1>7. CASE Tick
  <2> USE <1>7 DEF Tick
  <2>1. /\ UNCHANGED <<version, wpc, pc, claim, seen, verdict>>
        /\ entry' \in Entry /\ entry'.version = entry.version
        /\ entry.life > 0 => entry'.life = entry.life - 1
        /\ entry.life = 0 => entry'.life = 0
    BY DEF TypeOK, Entry
  <2>2. /\ \A v \in Version : v < version => stale'[v] \in {stale[v], stale[v] + 1}
        /\ \A v \in Version : v >= version => stale'[v] = stale[v]
        /\ \A v \in Version : stale'[v] = IF v < version /\ stale[v] <= Horizon THEN stale[v] + 1 ELSE stale[v]
        /\ stale' \in [Version -> 0..Horizon + 1]
    BY DEF TypeOK, Horizon, Version
  <2>3. /\ since' \in [Req -> 0..Latency]
        /\ \A r \in Req : pc[r] # "idle" => since'[r] = since[r] + 1
    BY DEF TypeOK
  <2>4. TypeOK'
    BY <2>1, <2>2, <2>3 DEF TypeOK
  <2>5. entry'.life > 0 /\ entry'.version < version => stale'[entry'.version] + entry'.life <= Horizon
    BY <2>1, <2>2, SMTT(60) DEF TypeOK, EntryAge, Entry, Version, Horizon
  <2>6. \A r \in Req : pc'[r] = "set" /\ seen'[r] < version => stale'[seen'[r]] <= since'[r]
    BY <2>1, <2>2, <2>3 DEF TypeOK, EntryAge, Version, Horizon
  <2>7. \A u, v \in 0..version : u < v => stale'[v] <= stale'[u]
    BY <2>2 DEF TypeOK, EntryAge, Version, Horizon
  <2>8. EntryAge'
    BY <2>1, <2>2, <2>5, <2>6, <2>7 DEF EntryAge
  <2> QED
    BY <2>1, <2>4, <2>8 DEF RowLock
<1>8. CASE UNCHANGED vars
  BY <1>8 DEF vars, reqVars, TypeOK, RowLock, EntryAge
<1> QED
  BY <1>1, <1>2, <1>3, <1>4, <1>5, <1>6, <1>7, <1>8 DEF Next, Authenticate, Mutate

\* The types are as declared, and nothing uncommitted is ever read: the entry
\* and the requests only hold committed versions.
THEOREM TypeCorrect == Spec => []TypeOK
<1>1. Inv => TypeOK
  BY DEF Inv
<1> QED
  BY InitInv, NextInv, <1>1, PTL DEF Spec

\* A request that compares a version has read it from a live entry, or from
\* the database no longer ago than its own age.
LEMMA AnswerAge ==
  ASSUME Inv, [Next]_vars, NEW r \in Req, NEW v \in {"accepted", "rejected"}, Answers(r, v)
  PROVE  \E s \in 0..version :
           /\ v = (IF s = claim[r] THEN "accepted" ELSE "rejected")
           /\ s = version \/ stale[s] <= Horizon
<1> USE ConstAssumption DEF Inv
<1>1. PICK q \in Req : Get(q) \/ ReadDbOnly(q) \/ Set(q)
  <2>1. pc'[r] # pc[r]
    BY DEF Answers
  <2>2. ~(\E w \in Writer : Mutate(w)) /\ ~Tick /\ ~(UNCHANGED vars)
    BY <2>1 DEF Mutate, Bump, DelInTransaction, Commit, LateDel, Rollback, Tick, vars, reqVars
  <2>3. PICK q \in Req : Authenticate(q)
    BY <2>2 DEF Next
  <2>4. ASSUME NEW u \in Version, Arrive(q, u) PROVE FALSE
    BY <2>4 DEF Arrive, Answers, TypeOK
  <2>5. ~ReadDb(q) /\ ~Skip(q)
    BY DEF ReadDb, Skip, Answers, TypeOK
  <2> QED
    BY <2>3, <2>4, <2>5 DEF Authenticate
<1>2. q = r
  BY <1>1 DEF Answers, Get, ReadDbOnly, Set, Answer, TypeOK
<1>3. CASE Get(r)
  <2>1. entry.life > 0 /\ verdict'[r] = (IF entry.version = claim[r] THEN "accepted" ELSE "rejected")
    BY <1>3 DEF Get, Answer, Answers, TypeOK
  <2>2. entry.version \in 0..version /\ (entry.version = version \/ stale[entry.version] <= Horizon)
    <3>1. /\ entry.version \in Version /\ entry.version \in 0..version
          /\ entry.life \in Nat /\ version \in Nat
      BY DEF TypeOK, Entry, Version
    <3>2. stale[entry.version] \in Nat /\ Horizon \in Nat
      BY <3>1 DEF TypeOK, Horizon
    <3>3. entry.version < version => stale[entry.version] + entry.life <= Horizon
      BY <2>1 DEF EntryAge
    <3> QED
      BY <3>1, <3>2, <3>3
  <2> QED
    BY <2>1, <2>2 DEF Answers
<1>4. CASE ReadDbOnly(r)
  <2>1. verdict'[r] = (IF version = claim[r] THEN "accepted" ELSE "rejected")
    BY <1>4 DEF ReadDbOnly, Answer, TypeOK
  <2> QED
    BY <2>1 DEF Answers, TypeOK, Version
<1>5. CASE Set(r)
  <2>1. pc[r] = "set" /\ verdict'[r] = (IF seen[r] = claim[r] THEN "accepted" ELSE "rejected")
    BY <1>5 DEF Set, Answer, TypeOK
  <2>2. seen[r] \in 0..version /\ (seen[r] = version \/ stale[seen[r]] <= Horizon)
    <3>1. seen[r] \in Version /\ seen[r] \in 0..version /\ version \in Nat
      BY DEF TypeOK, Version
    <3>2. stale[seen[r]] \in Nat /\ since[r] \in 0..Latency
      BY <3>1 DEF TypeOK, Horizon
    <3>3. seen[r] < version => stale[seen[r]] <= since[r]
      BY <2>1 DEF EntryAge
    <3> QED
      BY <3>1, <3>2, <3>3 DEF Horizon
  <2> QED
    BY <2>1, <2>2 DEF Answers
<1> QED
  BY <1>1, <1>2, <1>3, <1>4, <1>5

\* Revocation takes effect within the life of an entry plus the latency of a
\* request, for any number of requests, mutations and processes.
THEOREM RevocationInTime == Spec => RevokedInTime
<1>1. ASSUME Inv, [Next]_vars, NEW r \in Req, Answers(r, "accepted")
      PROVE  claim[r] = version \/ stale[claim[r]] <= Horizon
  BY <1>1, AnswerAge
<1>2. Inv /\ [Next]_vars =>
        [\A r \in Req : Answers(r, "accepted") => claim[r] = version \/ stale[claim[r]] <= Horizon]_vars
  BY <1>1
<1> QED
  BY InitInv, NextInv, <1>2, PTL DEF Spec, RevokedInTime

\* A user who signs in again after a change is refused no longer than that.
THEOREM RefusalInTime == Spec => RefusedOnlyAfterChange
<1>1. ASSUME Inv, [Next]_vars, NEW r \in Req, Answers(r, "rejected"), claim[r] = version
      PROVE  version > 0 /\ stale[version - 1] <= Horizon
  <2>1. PICK s \in 0..version : s # claim[r] /\ (s = version \/ stale[s] <= Horizon)
    BY <1>1, AnswerAge
  <2>2. s < version /\ stale[s] <= Horizon
    BY <1>1, <2>1 DEF Inv, TypeOK, Version
  <2>3. s # version - 1 => stale[version - 1] <= stale[s]
    BY <1>1, <2>2 DEF Inv, TypeOK, EntryAge, Version
  <2>4. version - 1 \in Version /\ s \in Version /\ version > 0
    BY <1>1, <2>2, ConstAssumption DEF Inv, TypeOK, Version
  <2>5. stale[version - 1] \in Int /\ stale[s] \in Int /\ Horizon \in Int
    BY <1>1, <2>4, ConstAssumption DEF Inv, TypeOK, Horizon
  <2> QED
    BY <2>2, <2>3, <2>4, <2>5
<1>2. Inv /\ [Next]_vars =>
        [\A r \in Req : Answers(r, "rejected") /\ claim[r] = version
           => version > 0 /\ stale[version - 1] <= Horizon]_vars
  BY <1>1
<1> QED
  BY InitInv, NextInv, <1>2, PTL DEF Spec, RefusedOnlyAfterChange

-----------------------------------------------------------------------------
(* Logins through providers, and logouts by them (FederatedLogin, as MCAuthState hosts it) *)

SigningIn == {"find", "mail", "create", "link", "gates", "issue"}

Jobs == [at : SigningIn \cup {"idle", "revoke", "bump"}, acct : Account \cup {"none"}, mail : Mail \cup {NoMail},
         user : Person \cup {Nobody}, row : Federation!Row, msg : Logout \cup {"none"}, due : SUBSET Session]

Logins == [user : Person \cup {Nobody}, live : BOOLEAN, via : Account \cup {"none"}, claim : -1..MaxBumps, row : Federation!Row]

Codes == [for : {"fresh", "pair", "enroll", "verify", "used"}, of : Person \cup Session \cup {Nobody}]

FederationShapes ==
  /\ work \in Works /\ answers \in BOOLEAN /\ asked \subseteq {"oauth", "saml", "logout"}
  /\ person \in [Person -> [row : Federation!Row, mail : Mail \cup {NoMail} \cup Account]]
  /\ link \in [Account -> Person \cup {Nobody}] /\ hints \subseteq Account
  /\ logins \in [Session -> Logins] /\ code \in [Code -> Codes] /\ job \in [Proc -> Jobs]
  /\ claimed \in [Logout -> SUBSET (Proc \cup {Federation!Redis})] /\ honoured \in [Logout -> Nat]
  /\ promised \subseteq Session /\ voided \subseteq Session

\* A row that gets past the gates.
Passing(r) == r.status = "active" /\ ~r.totp /\ ~Federation!EnrollHit(r)

\* What a request knows is still true, as far as it matters, of a user who is still there.
Carries(p) ==
  /\ job[p].at # "idle" => job[p].acct \in Account
  /\ job[p].at \in SigningIn => job[p].mail \in Asserts[job[p].acct]
  /\ job[p].at = "find" => Kind[job[p].acct] # "saml"
  /\ job[p].at \in {"link", "gates", "issue"} =>
       /\ job[p].user \in Person /\ person[job[p].user].row.status # "absent"
       /\ Federation!Exists(job[p].user) => job[p].row.version <= person[job[p].user].row.version
       /\ Federation!Exists(job[p].user) /\ Kind[job[p].acct] = "saml" => person[job[p].user].mail = job[p].mail
  /\ job[p].at \in {"gates", "issue"} /\ Kind[job[p].acct] = "generic" /\ Federation!Exists(job[p].user) =>
       link[job[p].acct] = job[p].user \/ job[p].acct \in moved
  /\ job[p].at = "issue" => Passing(job[p].row)
  /\ job[p].at \in {"revoke", "bump"} =>
       job[p].msg \in Logout /\ \A s \in job[p].due : job[p].user \in Person /\ logins[s].user = job[p].user
  /\ job[p].at = "bump" => \A s \in job[p].due : ~logins[s].live

\* A session is of a user who is there, whose address or link is the one the login was about,
\* and its bearer token is of no version to come.
Sound(s) ==
  /\ logins[s].user \in Person => person[logins[s].user].row.status # "absent"
  /\ logins[s].live => Federation!Exists(logins[s].user)
  /\ Federation!Exists(logins[s].user) => logins[s].claim <= person[logins[s].user].row.version
  /\ logins[s].via \in Account => Passing(logins[s].row)
  /\ logins[s].live /\ logins[s].via \in Account /\ Kind[logins[s].via] = "saml" =>
       person[logins[s].user].mail \in Asserts[logins[s].via]
  /\ logins[s].live /\ logins[s].via \in Account /\ Kind[logins[s].via] = "generic" =>
       link[logins[s].via] = logins[s].user \/ logins[s].via \in moved

LinksAreOfSomebody == \A a \in Account : link[a] \in Person => person[link[a]].row.status # "absent"

\* What was promised is about sessions there have been, so that no login makes them again.
PromisesLast ==
  /\ \A s \in promised : logins[s].user \in Person /\ ~logins[s].live
  /\ \A s \in voided : /\ logins[s].user \in Person
                       /\ logins[s].claim # -1 /\ Federation!Exists(logins[s].user) =>
                            logins[s].claim < person[logins[s].user].row.version

\* Every time a logout was honoured is a claim; without outages all claims are in Redis.
ClaimsCount ==
  /\ \A l \in Logout : honoured[l] <= Cardinality(claimed[l])
  /\ "outage" \notin work.extras => answers /\ \A l \in Logout : claimed[l] \subseteq {Federation!Redis}

\* What an undisturbed callback has found out still holds.
Fresh(p) ==
  /\ job[p].at = "create" => Federation!WithMail(job[p].mail) = {}
  /\ job[p].at \in {"mail", "create", "link"} /\ Kind[job[p].acct] = "builtin" => ~Federation!Exists(link[job[p].acct])

QuietMeansFresh == \A p \in Proc : quiet[p] => Fresh(p)

FederationInv ==
  /\ FederationShapes /\ (\A p \in Proc : Carries(p)) /\ (\A s \in Session : Sound(s))
  /\ LinksAreOfSomebody /\ PromisesLast /\ ClaimsCount /\ Federation!OneUserPerAddress

LEMMA SameCardinality == \A S : Federation!Cardinality(S) = Cardinality(S)
BY DEF Federation!Cardinality, Cardinality

LEMMA FederationImplies == FederationInv => LoginsAreSound /\ LogoutsHold
<1> SUFFICES ASSUME FederationInv PROVE LoginsAreSound /\ LogoutsHold
  OBVIOUS
<1>1. Federation!TypeOK
  <2>1. \A s \in Session : logins[s].user \in Person \cup {Nobody} /\ logins[s].claim \in -1..MaxBumps
    BY DEF FederationInv, FederationShapes, Logins
  <2>2. \A c \in Code : code[c].for \in {"fresh", "pair", "enroll", "verify", "used"}
    BY DEF FederationInv, FederationShapes, Codes
  <2>3. FederationShapes
    BY DEF FederationInv
  <2> QED
    BY <2>1, <2>2, <2>3 DEF FederationShapes, Federation!TypeOK, Federation!Mails
<1>2. Federation!PairsNeedNoSecondFactor
  BY DEF FederationInv, Sound, Passing, Federation!PairsNeedNoSecondFactor
<1>3. Federation!PromisesKept
  BY DEF FederationInv, PromisesLast, Federation!PromisesKept
<1>4. Federation!HonouredOnce
  <2> SUFFICES ASSUME NEW l \in Logout
               PROVE  honoured[l] <= IF "outage" \in work.extras THEN 1 + Cardinality(Proc) ELSE 1
    BY SameCardinality DEF Federation!HonouredOnce
  <2>1. honoured[l] \in Nat /\ honoured[l] <= Cardinality(claimed[l]) /\ claimed[l] \subseteq Proc \cup {Federation!Redis}
    BY DEF FederationInv, FederationShapes, ClaimsCount
  <2>2. IsFiniteSet(Proc \cup {Federation!Redis}) /\ Cardinality(Proc) \in Nat
        /\ Cardinality(Proc \cup {Federation!Redis}) <= Cardinality(Proc) + 1
    <3>1. IsFiniteSet(Proc)
      BY FederationAssumption
    <3>2. Cardinality(Proc) \in Nat
      BY <3>1, FS_CardinalityType
    <3>3. CASE Federation!Redis \in Proc
      <4>1. Proc \cup {Federation!Redis} = Proc
        BY <3>3
      <4>2. Cardinality(Proc) <= Cardinality(Proc) + 1
        BY <3>2
      <4> QED
        BY <4>1, <4>2, <3>1, <3>2
    <3>4. CASE Federation!Redis \notin Proc
      <4>1. IsFiniteSet(Proc \cup {Federation!Redis}) /\ Cardinality(Proc \cup {Federation!Redis}) = Cardinality(Proc) + 1
        BY <3>1, <3>4, FS_AddElement
      <4>2. Cardinality(Proc) + 1 <= Cardinality(Proc) + 1
        BY <3>2
      <4> QED
        BY <4>1, <4>2, <3>2
    <3> QED
      BY <3>3, <3>4
  <2>3. Cardinality(claimed[l]) \in Nat /\ Cardinality(claimed[l]) <= Cardinality(Proc \cup {Federation!Redis})
    BY <2>1, <2>2, FS_Subset, FS_CardinalityType
  <2>4. "outage" \notin work.extras => Cardinality(claimed[l]) <= 1
    <3>1. IsFiniteSet({Federation!Redis}) /\ Cardinality({Federation!Redis}) = 1
      BY FS_Singleton
    <3> QED
      BY <3>1, FS_Subset DEF FederationInv, ClaimsCount
  <2>5. Cardinality(Proc \cup {Federation!Redis}) \in Nat
    BY <2>2, FS_CardinalityType
  <2> QED
    BY <2>1, <2>2, <2>3, <2>4, <2>5
<1> QED
  BY <1>1, <1>2, <1>3, <1>4 DEF FederationInv, LoginsAreSound, LogoutsHold, Federation!LoginsAreSound, Federation!LogoutsHold

LEMMA RowFacts ==
  /\ Federation!NoRow \in Federation!Row /\ Federation!NoRow.status = "absent" /\ Federation!NoRow.version = 0
  /\ Federation!Idle \in Jobs /\ Federation!Idle.at = "idle"
BY FederationAssumption DEF Federation!NoRow, Federation!Row, Federation!Idle, Jobs

LEMMA InitFederation == Federation!Init => FederationInv
<1> SUFFICES ASSUME Federation!Init PROVE FederationInv
  OBVIOUS
<1> DEFINE born == [Federation!NoRow EXCEPT !.status = "active"]
<1>1. born \in Federation!Row /\ born.status = "active" /\ born.version = 0
  BY RowFacts DEF Federation!NoRow, Federation!Row
<1>2. Federation!Stranger = [row |-> Federation!NoRow, mail |-> NoMail]
  BY DEF Federation!Stranger
<1>3. PICK m, u : /\ m \in Mail \cup {NoMail}
                  /\ \/ person = [v \in Person |-> Federation!Stranger]
                     \/ person = [v \in Person |-> IF v = u THEN [row |-> born, mail |-> m] ELSE Federation!Stranger]
  <2>1. CASE "known" \in work.extras
    <3>1. PICK u \in Federation!AnyOf(Person), m \in Mail :
            person = [v \in Person |-> IF v = u THEN [row |-> born, mail |-> m] ELSE Federation!Stranger]
      BY <2>1 DEF Federation!Init
    <3>2. m \in Mail \cup {NoMail}
      BY <3>1
    <3> QED
      BY <3>1, <3>2, ZenonT(60)
  <2>2. CASE "known" \notin work.extras
    <3>1. person = [v \in Person |-> Federation!Stranger]
      BY <2>2 DEF Federation!Init
    <3> QED
      BY <3>1
  <2> QED
    BY <2>1, <2>2
<1> HIDE DEF born
<1>4. person \in [Person -> [row : Federation!Row, mail : Mail \cup {NoMail} \cup Account]]
      /\ \A v \in Person : Federation!Exists(v) => v = u
  BY <1>1, <1>2, <1>3, RowFacts DEF Federation!Exists
<1>5. Federation!NoSession \in Logins /\ Federation!NoSession.user = Nobody /\ Federation!NoSession.live = FALSE /\ Federation!NoSession.via = "none"
  BY FederationAssumption, RowFacts DEF Federation!NoSession, Logins
<1>6. Federation!FreshCode \in Codes
  BY DEF Federation!FreshCode, Codes
<1>7. FederationShapes
  BY <1>4, <1>5, <1>6, RowFacts DEF Federation!Init, FederationShapes
<1>8. \A p \in Proc : Carries(p)
  BY RowFacts DEF Federation!Init, Carries, SigningIn
<1>9. \A s \in Session : Sound(s)
  BY <1>5, FederationAssumption DEF Federation!Init, Sound, Federation!Exists
<1>10. ClaimsCount
  BY FS_EmptySet DEF Federation!Init, ClaimsCount
<1>11. Federation!OneUserPerAddress
  BY <1>4 DEF Federation!OneUserPerAddress
<1> QED
  BY <1>7, <1>8, <1>9, <1>10, <1>11, FederationAssumption DEF FederationInv, Federation!Init, LinksAreOfSomebody, PromisesLast

\* What every step leaves of the users and the links, and of the sessions there have been.
Stays(u) == u \in Person /\ person'[u].row.status \in {"active", "suspended"}

World ==
  /\ work' = work /\ moved \subseteq moved'
  /\ \A u \in Person : person[u].row.status # "absent" =>
       /\ person'[u].row.status # "absent"
       /\ Stays(u) =>
            Federation!Exists(u) /\ person'[u].mail = person[u].mail /\ person[u].row.version <= person'[u].row.version
  /\ \A a \in Account : link'[a] = link[a] \/ a \in moved' \/ ~Federation!Exists(link[a])

Agrees(s) ==
  /\ logins'[s].user = logins[s].user /\ logins'[s].claim = logins[s].claim
  /\ logins'[s].via = logins[s].via /\ logins'[s].row = logins[s].row
  /\ logins'[s].live => logins[s].live /\ Stays(logins[s].user)

LEMMA Lasts ==
  ASSUME FederationInv, FederationShapes', World, NEW s \in Session, Agrees(s)
  PROVE  Sound(s)'
<1> DEFINE x == logins[s]
           y == logins'[s]
<1>1. Sound(s) /\ x \in Logins
  BY DEF FederationInv, FederationShapes
<1>2. x.user \in Person => person'[x.user].row.status # "absent"
  BY <1>1 DEF Sound, World
<1>3. y.live => Stays(y.user)
  BY DEF Agrees
<1>4. Stays(x.user) =>
        /\ x.user \in Person /\ Federation!Exists(x.user) /\ person'[x.user].mail = person[x.user].mail
        /\ person[x.user].row.version <= person'[x.user].row.version
  BY <1>1 DEF Sound, World, Stays
<1>5. Stays(x.user) => y.claim <= person'[x.user].row.version
  <2> SUFFICES ASSUME Stays(x.user) PROVE y.claim <= person'[x.user].row.version
    OBVIOUS
  <2>1. x.user \in Person /\ x.claim <= person[x.user].row.version /\ person[x.user].row.version <= person'[x.user].row.version
    BY <1>1, <1>4 DEF Sound
  <2>2. x.claim \in Int /\ y.claim = x.claim
    BY <1>1, FederationAssumption DEF Logins, Agrees
  <2>3. person[x.user].row.version \in Int /\ person'[x.user].row.version \in Int
    BY <2>1 DEF FederationInv, FederationShapes, Federation!Row
  <2> QED
    BY <2>1, <2>2, <2>3
<1>6. y.via \in Account => Passing(x.row)'
  BY <1>1 DEF Agrees, Sound, Passing, World, Federation!EnrollHit
<1>7. y.live /\ y.via \in Account /\ Kind[y.via] = "saml" => person'[y.user].mail \in Asserts[y.via]
  BY <1>1, <1>4 DEF Agrees, Sound
<1>8. y.live /\ y.via \in Account /\ Kind[y.via] = "generic" => link'[y.via] = y.user \/ y.via \in moved'
  BY <1>1, <1>4 DEF Agrees, Sound, World
<1> QED
  BY <1>2, <1>3, <1>5, <1>6, <1>7, <1>8 DEF Agrees, Sound, Stays, Federation!Exists

LEMMA CarriesOn ==
  ASSUME FederationInv, FederationShapes', World, \A s \in Session : logins[s].user \in Person => Agrees(s),
         NEW q \in Proc, job'[q] = job[q]
  PROVE  Carries(q)'
<1> DEFINE j == job[q]
<1>1. Carries(q) /\ j \in Jobs
  BY DEF FederationInv, FederationShapes
<1>2. j.at \in {"link", "gates", "issue"} =>
        /\ j.user \in Person /\ person'[j.user].row.status # "absent"
        /\ Stays(j.user) => Federation!Exists(j.user) /\ person'[j.user].mail = person[j.user].mail
                                         /\ person[j.user].row.version <= person'[j.user].row.version
  BY <1>1 DEF Carries, World
<1>3. j.at \in {"link", "gates", "issue"} /\ Stays(j.user) => j.row.version <= person'[j.user].row.version
  <2> SUFFICES ASSUME j.at \in {"link", "gates", "issue"}, Stays(j.user)
               PROVE  j.row.version <= person'[j.user].row.version
    OBVIOUS
  <2>1. j.row.version <= person[j.user].row.version /\ person[j.user].row.version <= person'[j.user].row.version
    BY <1>1, <1>2 DEF Carries
  <2>2. j.row.version \in Int /\ person[j.user].row.version \in Int
    BY <1>1, <1>2 DEF FederationInv, FederationShapes, Jobs, Federation!Row
  <2>3. person'[j.user].row.version \in Int
    BY <1>2 DEF FederationShapes, Federation!Row
  <2> QED
    BY <2>1, <2>2, <2>3
<1>4. j.at \in {"gates", "issue"} /\ Kind[j.acct] = "generic" /\ Stays(j.user) =>
        link'[j.acct] = j.user \/ j.acct \in moved'
  BY <1>1, <1>2 DEF Carries, World, SigningIn
<1>5. job[q].at = "issue" => Passing(job[q].row)'
  BY <1>1 DEF Carries, Passing, World, Federation!EnrollHit
<1>6. j.at \in {"revoke", "bump"} =>
        j.msg \in Logout /\ \A s \in j.due : s \in Session /\ j.user \in Person /\ logins[s].user = j.user /\ Agrees(s)
  BY <1>1 DEF Carries, Jobs
<1>7. j.at \in {"revoke", "bump"} =>
        j.msg \in Logout /\ \A s \in j.due : j.user \in Person /\ logins'[s].user = j.user
  BY <1>6 DEF Agrees
<1>8. j.at = "bump" => \A s \in j.due : ~logins'[s].live
  BY <1>1, <1>6 DEF Agrees, Carries
<1> HIDE DEF j
<1> QED
  <2>1. job'[q] = j /\ j = job[q]
    BY DEF j
  <2>2. /\ j.at # "idle" => j.acct \in Account
        /\ j.at \in SigningIn => j.mail \in Asserts[j.acct]
        /\ j.at = "find" => Kind[j.acct] # "saml"
        /\ j.at \in {"link", "gates", "issue"} /\ Federation!Exists(j.user) /\ Kind[j.acct] = "saml" =>
             person[j.user].mail = j.mail
    BY <1>1 DEF Carries, j
  <2> QED
    BY <2>1, <2>2, <1>2, <1>3, <1>4, <1>5, <1>7, <1>8 DEF Carries, Stays, Federation!Exists

LEMMA PromisesOn ==
  ASSUME FederationInv, FederationShapes', World, \A s \in Session : logins[s].user \in Person => Agrees(s),
         promised' = promised, voided' = voided
  PROVE  PromisesLast'
<1>1. \A s \in promised : logins'[s].user \in Person /\ ~logins'[s].live
  BY DEF FederationInv, FederationShapes, PromisesLast, Agrees
<1>2. ASSUME NEW s \in voided
      PROVE  /\ logins'[s].user \in Person
             /\ logins'[s].claim # -1 /\ Stays(logins'[s].user) =>
                  logins'[s].claim < person'[logins'[s].user].row.version
  <2>1. s \in Session /\ logins[s].user \in Person /\ Agrees(s) /\ Sound(s)
    BY <1>2 DEF FederationInv, FederationShapes, PromisesLast
  <2>2. logins[s].claim # -1 /\ Federation!Exists(logins[s].user) =>
          logins[s].claim < person[logins[s].user].row.version
    BY <1>2 DEF FederationInv, PromisesLast
  <2>3. Stays(logins[s].user) =>
          /\ Federation!Exists(logins[s].user)
          /\ person[logins[s].user].row.version <= person'[logins[s].user].row.version
    BY <2>1 DEF Sound, World
  <2>4. logins[s].claim \in Int /\ person[logins[s].user].row.version \in Int /\ person'[logins[s].user].row.version \in Int
    BY <2>1, FederationAssumption DEF FederationInv, FederationShapes, Logins, Federation!Row
  <2>5. logins'[s].user = logins[s].user /\ logins'[s].claim = logins[s].claim
    BY <2>1 DEF Agrees
  <2> QED
    BY <2>1, <2>2, <2>3, <2>4, <2>5 DEF Stays, Federation!Exists
<1> QED
  BY <1>1, <1>2 DEF PromisesLast, Stays, Federation!Exists

LEMMA Onward ==
  ASSUME FederationInv, World, FederationShapes',
         \A s \in Session : (logins[s].user \in Person => Agrees(s)) /\ (Agrees(s) \/ Sound(s)'),
         \A q \in Proc : job'[q] = job[q] \/ Carries(q)',
         LinksAreOfSomebody', PromisesLast', ClaimsCount', Federation!OneUserPerAddress'
  PROVE  FederationInv'
<1>1. \A s \in Session : Sound(s)'
  BY Lasts
<1>2. \A q \in Proc : Carries(q)'
  BY CarriesOn
<1> QED
  BY <1>1, <1>2 DEF FederationInv

LEMMA WorldStands ==
  ASSUME FederationShapes, work' = work, person' = person, moved \subseteq moved',
         \A a \in Account : link'[a] = link[a] \/ a \in moved' \/ ~Federation!Exists(link[a])
  PROVE  World /\ \A u \in Person : Stays(u) => Federation!Exists(u)
<1>1. \A u \in Person : person[u].row.version \in Int
  BY DEF FederationShapes, Federation!Row
<1> QED
  BY <1>1 DEF World, Stays, Federation!Exists

LEMMA NoBirths ==
  ASSUME FederationInv, World, \A u \in Person : Stays(u) => person[u].row.status # "absent"
  PROVE  Federation!OneUserPerAddress'
BY DEF FederationInv, Federation!OneUserPerAddress, World, Stays, Federation!Exists

LEMMA LinksStay ==
  ASSUME FederationInv, World, link' = link
  PROVE  LinksAreOfSomebody'
BY DEF FederationInv, LinksAreOfSomebody, World

LEMMA ClaimsStay ==
  ASSUME FederationInv, UNCHANGED <<work, answers, claimed, honoured>>
  PROVE  ClaimsCount'
BY DEF FederationInv, ClaimsCount

LEMMA SessionsStay ==
  ASSUME FederationInv, UNCHANGED <<person, logins>>
  PROVE  \A s \in Session : Agrees(s)
BY DEF FederationInv, Sound, Agrees, Stays, Federation!Exists

LEMMA SessionsEnd ==
  ASSUME FederationInv, NEW S, Federation!End(S),
         \A s \in Session : s \notin S /\ logins[s].live => Stays(logins[s].user)
  PROVE  /\ \A s \in Session : Agrees(s) /\ (s \in S => ~logins'[s].live)
         /\ logins' \in [Session -> Logins]
<1> SUFFICES ASSUME NEW s \in Session
             PROVE  Agrees(s) /\ (s \in S => ~logins'[s].live) /\ logins'[s] \in Logins
  BY DEF Federation!End
<1>1. logins[s] \in Logins
  BY DEF FederationInv, FederationShapes
<1>2. logins'[s] = [logins[s] EXCEPT !.live = logins[s].live /\ s \notin S]
  BY DEF Federation!End
<1>3. /\ logins'[s].live = (logins[s].live /\ s \notin S) /\ logins'[s].user = logins[s].user
      /\ logins'[s].claim = logins[s].claim /\ logins'[s].via = logins[s].via /\ logins'[s].row = logins[s].row
      /\ logins'[s] \in Logins
  BY <1>1, <1>2 DEF Logins
<1> QED
  BY <1>3 DEF Agrees

\* Steps that change nothing but what requests, browsers and codes are about.
LEMMA Still ==
  ASSUME FederationInv, FederationShapes',
         UNCHANGED <<work, person, link, logins, moved, answers, claimed, honoured, promised, voided>>,
         \A q \in Proc : job'[q] = job[q] \/ Carries(q)'
  PROVE  FederationInv'
<1>1. World /\ \A u \in Person : Stays(u) => Federation!Exists(u)
  BY WorldStands DEF FederationInv
<1>2. \A s \in Session : Agrees(s)
  BY SessionsStay
<1>3. PromisesLast'
  BY <1>1, <1>2, PromisesOn
<1>4. LinksAreOfSomebody' /\ ClaimsCount'
  BY <1>1, LinksStay, ClaimsStay
<1>5. Federation!OneUserPerAddress'
  BY <1>1, NoBirths DEF Federation!Exists
<1> QED
  BY <1>1, <1>2, <1>3, <1>4, <1>5, Onward

LEMMA Answered ==
  ASSUME FederationShapes, NEW p \in Proc, Federation!Reply(p)
  PROVE  /\ job' \in [Proc -> Jobs] /\ job'[p].at = "idle"
         /\ \A q \in Proc : q # p => job'[q] = job[q]
         /\ \A q \in Proc : job'[q] = job[q] \/ Carries(q)'
<1>1. job \in [Proc -> Jobs] /\ job' = [job EXCEPT ![p] = Federation!Idle]
  BY DEF FederationShapes, Federation!Reply
<1>2. job' \in [Proc -> Jobs] /\ job'[p].at = "idle" /\ \A q \in Proc : q # p => job'[q] = job[q]
  BY <1>1, RowFacts
<1>3. Carries(p)'
  BY <1>2 DEF Carries, SigningIn
<1> QED
  BY <1>2, <1>3

LEMMA GoesTo ==
  ASSUME FederationShapes, NEW p \in Proc, NEW w \in SigningIn \cup {"idle", "revoke", "bump"}, Federation!Goto(p, w)
  PROVE  /\ job' \in [Proc -> Jobs] /\ \A q \in Proc : q # p => job'[q] = job[q]
         /\ job'[p].at = w /\ job'[p].acct = job[p].acct /\ job'[p].mail = job[p].mail /\ job'[p].user = job[p].user
         /\ job'[p].row = job[p].row /\ job'[p].msg = job[p].msg /\ job'[p].due = job[p].due
<1>1. job \in [Proc -> Jobs] /\ job' = [job EXCEPT ![p].at = w]
  BY DEF FederationShapes, Federation!Goto
<1>2. job[p] \in Jobs
  BY <1>1
<1>3. job'[p] = [job[p] EXCEPT !.at = w]
  BY <1>1
<1>4. /\ job'[p] \in Jobs
      /\ job'[p].at = w /\ job'[p].acct = job[p].acct /\ job'[p].mail = job[p].mail /\ job'[p].user = job[p].user
      /\ job'[p].row = job[p].row /\ job'[p].msg = job[p].msg /\ job'[p].due = job[p].due
  BY <1>2, <1>3 DEF Jobs
<1> QED
  BY <1>1, <1>4

Learning(p, w, u, r) == job' = [job EXCEPT ![p] = [@ EXCEPT !.at = w, !.user = u, !.row = r]]

LEMMA Learns ==
  ASSUME FederationShapes, NEW p \in Proc, NEW w \in SigningIn, NEW u \in Person, NEW r \in Federation!Row,
         Learning(p, w, u, r)
  PROVE  /\ job' \in [Proc -> Jobs] /\ \A q \in Proc : q # p => job'[q] = job[q]
         /\ job'[p].at = w /\ job'[p].acct = job[p].acct /\ job'[p].mail = job[p].mail /\ job'[p].user = u
         /\ job'[p].row = r /\ job'[p].msg = job[p].msg /\ job'[p].due = job[p].due
<1>1. job \in [Proc -> Jobs]
  BY DEF FederationShapes
<1>2. job[p] \in Jobs
  BY <1>1
<1>3. job'[p] = [job[p] EXCEPT !.at = w, !.user = u, !.row = r] /\ job' \in [Proc -> {job'[q] : q \in Proc}]
      /\ \A q \in Proc : q # p => job'[q] = job[q]
  BY <1>1 DEF Learning
<1> DEFINE k1 == [job[p] EXCEPT !.at = w]
           k2 == [k1 EXCEPT !.user = u]
<1>4. /\ k1 \in Jobs /\ k1.at = w /\ k1.acct = job[p].acct /\ k1.mail = job[p].mail
      /\ k1.row = job[p].row /\ k1.msg = job[p].msg /\ k1.due = job[p].due
  BY <1>2 DEF Jobs
<1> HIDE DEF k1
<1>5. /\ k2 \in Jobs /\ k2.at = w /\ k2.acct = job[p].acct /\ k2.mail = job[p].mail /\ k2.user = u
      /\ k2.msg = job[p].msg /\ k2.due = job[p].due
  BY <1>4 DEF Jobs
<1>6. job'[p] = [k2 EXCEPT !.row = r]
  BY <1>3 DEF k1
<1> HIDE DEF k2
<1>7. /\ job'[p] \in Jobs
      /\ job'[p].at = w /\ job'[p].acct = job[p].acct /\ job'[p].mail = job[p].mail /\ job'[p].user = u
      /\ job'[p].row = r /\ job'[p].msg = job[p].msg /\ job'[p].due = job[p].due
  BY <1>5, <1>6 DEF Jobs
<1> QED
  BY <1>1, <1>3, <1>7

LEMMA CodesMade ==
  ASSUME FederationShapes, NEW f \in {"pair", "enroll", "verify"}, NEW x \in Person \cup Session, Federation!NewCode(f, x)
  PROVE  code' \in [Code -> Codes]
BY DEF FederationShapes, Federation!NewCode, Federation!AnyOf, Codes

Starting(p, a, w, m) == job' = [job EXCEPT ![p] = [Federation!Idle EXCEPT !.at = w, !.acct = a, !.mail = m]]

LEMMA Begins ==
  ASSUME FederationInv, NEW p \in Proc, NEW a \in Account, NEW w \in SigningIn, Federation!Begin(p, a, w)
  PROVE  /\ job' \in [Proc -> Jobs] /\ \A q \in Proc : q # p => job'[q] = job[q]
         /\ job'[p].at = w /\ job'[p].acct = a /\ job'[p].mail \in Asserts[a]
<1>1. PICK m \in Asserts[a] : Starting(p, a, w, m)
  BY DEF Federation!Begin, Starting
<1>2. m \in Mail \cup {NoMail}
  BY FederationAssumption
<1>3. job \in [Proc -> Jobs]
  BY DEF FederationInv, FederationShapes
<1>4. job'[p] = [Federation!Idle EXCEPT !.at = w, !.acct = a, !.mail = m] /\ job' \in [Proc -> {job'[q] : q \in Proc}]
      /\ \A q \in Proc : q # p => job'[q] = job[q]
  BY <1>1, <1>3 DEF Starting
<1> DEFINE k1 == [Federation!Idle EXCEPT !.at = w]
           k2 == [k1 EXCEPT !.acct = a]
<1>5. k1 \in Jobs /\ k1.at = w
  BY RowFacts DEF Jobs
<1> HIDE DEF k1
<1>6. k2 \in Jobs /\ k2.at = w /\ k2.acct = a
  BY <1>5 DEF Jobs
<1>7. job'[p] = [k2 EXCEPT !.mail = m]
  BY <1>4 DEF k1
<1> HIDE DEF k2
<1>8. job'[p] \in Jobs /\ job'[p].at = w /\ job'[p].acct = a /\ job'[p].mail = m
  BY <1>2, <1>6, <1>7 DEF Jobs
<1> QED
  BY <1>3, <1>4, <1>8

LEMMA EnvironmentStill ==
  ASSUME FederationInv
  PROVE  /\ \A a \in Account : Federation!Authorize(a) => FederationInv'
         /\ \A w \in asked : Federation!TurnedBack(w) => FederationInv'
         /\ \A c \in Code : Federation!Exchange(c) => FederationInv'
         /\ \A p \in Proc : Federation!FailRequest(p) => FederationInv'
<1>1. FederationShapes
  BY DEF FederationInv
<1>2. ASSUME NEW a \in Account, Federation!Authorize(a) PROVE FederationInv'
  <2>1. asked' \subseteq {"oauth", "saml", "logout"}
    BY <1>1, <1>2 DEF FederationShapes, Federation!Authorize
  <2> QED
    BY <1>1, <1>2, <2>1, Still DEF FederationShapes, Federation!Authorize, Federation!rows, Federation!logouts
<1>3. ASSUME NEW w \in asked, Federation!TurnedBack(w) PROVE FederationInv'
  <2>1. asked' \subseteq {"oauth", "saml", "logout"}
    BY <1>1, <1>3 DEF FederationShapes, Federation!TurnedBack
  <2> QED
    BY <1>1, <1>3, <2>1, Still DEF FederationShapes, Federation!TurnedBack, Federation!rows, Federation!logouts
<1>4. ASSUME NEW c \in Code, Federation!Exchange(c) PROVE FederationInv'
  <2>1. code' \in [Code -> Codes]
    BY <1>1, <1>4 DEF FederationShapes, Federation!Exchange, Codes
  <2> QED
    BY <1>1, <1>4, <2>1, Still DEF FederationShapes, Federation!Exchange, Federation!rows, Federation!logouts
<1>5. ASSUME NEW p \in Proc, Federation!FailRequest(p) PROVE FederationInv'
  <2>1. job' \in [Proc -> Jobs] /\ \A q \in Proc : job'[q] = job[q] \/ Carries(q)'
    BY <1>1, <1>5, Answered DEF Federation!FailRequest
  <2> QED
    BY <1>1, <1>5, <2>1, Still DEF FederationShapes, Federation!FailRequest, Federation!rows, Federation!logouts
<1> QED
  BY <1>2, <1>3, <1>4, <1>5

LEMMA BeginningsKeep ==
  ASSUME FederationInv, NEW p \in Proc, NEW a \in Account, Federation!Callback(p, a) \/ Federation!Acs(p, a)
  PROVE  FederationInv'
<1>1. FederationShapes
  BY DEF FederationInv
<1>2. PICK w \in {"find", "mail"} : Federation!Begin(p, a, w) /\ (w = "find" => Kind[a] # "saml")
  BY DEF Federation!Callback, Federation!Acs
<1>3. /\ job' \in [Proc -> Jobs] /\ \A q \in Proc : q # p => job'[q] = job[q]
      /\ job'[p].at = w /\ job'[p].acct = a /\ job'[p].mail \in Asserts[a]
  BY <1>2, Begins DEF SigningIn
<1>4. Carries(p)'
  BY <1>2, <1>3 DEF Carries, SigningIn
<1>5. asked' \subseteq {"oauth", "saml", "logout"}
  BY <1>1 DEF FederationShapes, Federation!Callback, Federation!Acs
<1>6. UNCHANGED <<work, person, link, hints, logins, code, answers, moved, claimed, honoured, promised, voided>>
  BY <1>2 DEF Federation!Begin, Federation!rows, Federation!logouts
<1>7. FederationShapes'
  BY <1>1, <1>3, <1>5, <1>6 DEF FederationShapes
<1> QED
  BY <1>3, <1>4, <1>6, <1>7, Still

LEMMA FindLinkKeeps ==
  ASSUME FederationInv, NEW p \in Proc, Federation!FindLink(p)
  PROVE  FederationInv'
<1> DEFINE a == job[p].acct
<1>1. FederationShapes /\ Carries(p)
  BY DEF FederationInv
<1>2. UNCHANGED <<work, person, link, hints, logins, code, answers, asked, moved, claimed, honoured, promised, voided>>
  BY DEF Federation!FindLink, Federation!rows, Federation!logouts
<1>3. job[p].at = "find" /\ a \in Account /\ job[p].mail \in Asserts[a] /\ Kind[a] # "saml"
  BY <1>1 DEF Federation!FindLink, Federation!At, Carries, SigningIn
<1>4. /\ job' \in [Proc -> Jobs] /\ \A q \in Proc : q # p => job'[q] = job[q]
      /\ Carries(p)'
  <2>1. CASE Federation!Exists(link[a])
    <3>1. PICK w \in {"link", "gates"} : /\ Federation!Knows(p, link[a], w)
                                         /\ w = "gates" => Kind[a] # "generic"
      BY <2>1 DEF Federation!FindLink
    <3>2. link[a] \in Person /\ person[link[a]].row \in Federation!Row /\ person[link[a]].row.version \in Int
      BY <1>1, <2>1 DEF FederationShapes, Federation!Exists, Federation!Row
    <3>3. Learning(p, w, link[a], person[link[a]].row)
      BY <3>1 DEF Federation!Knows, Learning
    <3>4. /\ job' \in [Proc -> Jobs] /\ \A q \in Proc : q # p => job'[q] = job[q]
          /\ job'[p].at = w /\ job'[p].acct = a /\ job'[p].mail = job[p].mail
          /\ job'[p].user = link[a] /\ job'[p].row = person[link[a]].row
      BY <1>1, <3>2, <3>3, Learns, SMTT(60) DEF SigningIn
    <3>5. /\ job'[p].user \in Person /\ person'[job'[p].user].row.status # "absent"
          /\ job'[p].row.version <= person'[job'[p].user].row.version
      BY <1>2, <2>1, <3>2, <3>4 DEF Federation!Exists
    <3>6. w = "gates" /\ Kind[a] = "generic" => FALSE
      BY <3>1
    <3> HIDE DEF a
    <3> QED
      BY <1>3, <3>4, <3>5, <3>6 DEF Carries
  <2>2. CASE ~Federation!Exists(link[a])
    <3>1. Federation!Goto(p, "mail")
      BY <2>2 DEF Federation!FindLink
    <3>2. /\ job' \in [Proc -> Jobs] /\ \A q \in Proc : q # p => job'[q] = job[q]
          /\ job'[p].at = "mail" /\ job'[p].acct = a /\ job'[p].mail = job[p].mail
      BY <1>1, <3>1, GoesTo DEF SigningIn
    <3> QED
      BY <1>3, <3>2 DEF Carries, SigningIn
  <2> QED
    BY <2>1, <2>2
<1>5. FederationShapes'
  BY <1>1, <1>2, <1>4 DEF FederationShapes
<1> QED
  BY <1>2, <1>4, <1>5, Still

LEMMA AnyOfIsIn == \A S : Federation!AnyOf(S) \subseteq S
BY DEF Federation!AnyOf

LEMMA MatchMailKeeps ==
  ASSUME FederationInv, NEW p \in Proc, Federation!MatchMail(p)
  PROVE  FederationInv'
<1> DEFINE a == job[p].acct
<1>1. FederationShapes /\ Carries(p)
  BY DEF FederationInv
<1>2. UNCHANGED <<work, person, link, hints, logins, code, answers, asked, moved, claimed, honoured, promised, voided>>
  BY DEF Federation!MatchMail, Federation!rows, Federation!logouts
<1>3. job[p].at = "mail" /\ a \in Account /\ job[p].mail \in Asserts[a]
  BY <1>1 DEF Federation!MatchMail, Federation!At, Carries, SigningIn
<1>4. /\ job' \in [Proc -> Jobs]
      /\ \A q \in Proc : job'[q] = job[q] \/ Carries(q)'
  <2>1. CASE Federation!Goto(p, "create")
    <3>1. /\ job' \in [Proc -> Jobs] /\ \A q \in Proc : q # p => job'[q] = job[q]
          /\ job'[p].at = "create" /\ job'[p].acct = a /\ job'[p].mail = job[p].mail
      BY <1>1, <2>1, GoesTo DEF SigningIn
    <3> QED
      BY <1>3, <3>1 DEF Carries, SigningIn
  <2>2. CASE Federation!Reply(p)
    BY <1>1, <2>2, Answered
  <2>3. ASSUME NEW u \in Federation!WithMail(job[p].mail), Federation!Knows(p, u, "link")
        PROVE  /\ job' \in [Proc -> Jobs]
               /\ \A q \in Proc : job'[q] = job[q] \/ Carries(q)'
    <3>1. /\ u \in Person /\ Federation!Exists(u) /\ person[u].mail = job[p].mail
          /\ person[u].row \in Federation!Row /\ person[u].row.version \in Int
      BY <1>1 DEF Federation!WithMail, FederationShapes, Federation!Row
    <3>2. Learning(p, "link", u, person[u].row)
      BY <2>3 DEF Federation!Knows, Learning
    <3>3. /\ job' \in [Proc -> Jobs] /\ \A q \in Proc : q # p => job'[q] = job[q]
          /\ job'[p].at = "link" /\ job'[p].acct = a /\ job'[p].mail = job[p].mail
          /\ job'[p].user = u /\ job'[p].row = person[u].row
      BY <1>1, <3>1, <3>2, Learns DEF SigningIn
    <3> QED
      BY <1>2, <1>3, <3>1, <3>3 DEF Carries, SigningIn, Federation!Exists
  <2> QED
    BY <2>1, <2>2, <2>3 DEF Federation!MatchMail
<1>5. FederationShapes'
  BY <1>1, <1>2, <1>4 DEF FederationShapes
<1> QED
  BY <1>2, <1>4, <1>5, Still

LEMMA GatesKeep ==
  ASSUME FederationInv, NEW p \in Proc, Federation!Gates(p) \/ Federation!TenantShut(p)
  PROVE  FederationInv'
<1>1. FederationShapes /\ Carries(p)
  BY DEF FederationInv
<1>2. UNCHANGED <<work, person, link, hints, logins, answers, asked, moved, claimed, honoured, promised, voided>>
  BY DEF Federation!Gates, Federation!TenantShut, Federation!rows, Federation!logouts
<1>3. CASE Federation!TenantShut(p)
  <2>1. job' \in [Proc -> Jobs] /\ \A q \in Proc : job'[q] = job[q] \/ Carries(q)'
    BY <1>1, <1>3, Answered DEF Federation!TenantShut
  <2>2. FederationShapes'
    BY <1>1, <1>2, <1>3, <2>1 DEF FederationShapes, Federation!TenantShut
  <2> QED
    BY <1>2, <2>1, <2>2, Still
<1>4. CASE Federation!Gates(p)
  <2>1. job[p].at = "gates" /\ job[p].acct \in Account /\ job[p].mail \in Asserts[job[p].acct] /\ job[p].user \in Person
    BY <1>1, <1>4 DEF Federation!Gates, Federation!At, Carries, SigningIn
  <2>2. CASE Federation!Reply(p)
    <3>1. job' \in [Proc -> Jobs] /\ \A q \in Proc : job'[q] = job[q] \/ Carries(q)'
      BY <1>1, <2>2, Answered
    <3>2. code' \in [Code -> Codes]
      <4>1. CASE code' = code
        BY <1>1, <4>1 DEF FederationShapes
      <4>2. CASE Federation!Pending(job[p].row) # "nothing" /\ Federation!NewCode(Federation!Pending(job[p].row), job[p].user)
        <5>1. Federation!Pending(job[p].row) \in {"pair", "enroll", "verify"}
          BY <4>2 DEF Federation!Pending
        <5> QED
          BY <1>1, <2>1, <4>2, <5>1, CodesMade
      <4> QED
        BY <1>4, <4>1, <4>2 DEF Federation!Gates
    <3>3. FederationShapes'
      BY <1>1, <1>2, <3>1, <3>2 DEF FederationShapes
    <3> QED
      BY <1>2, <3>1, <3>3, Still
  <2>3. CASE ~Federation!Reply(p)
    <3>1. job[p].row.status = "active" /\ Federation!Pending(job[p].row) = "nothing" /\ Federation!Goto(p, "issue") /\ code' = code
      BY <1>4, <2>3 DEF Federation!Gates
    <3>2. Passing(job[p].row)
      <4>1. job[p].row.totp \in BOOLEAN
        BY <1>1 DEF FederationShapes, Jobs, Federation!Row
      <4> QED
        BY <3>1, <4>1 DEF Passing, Federation!Pending
    <3>3. /\ job' \in [Proc -> Jobs] /\ \A q \in Proc : q # p => job'[q] = job[q]
          /\ job'[p].at = "issue" /\ job'[p].acct = job[p].acct /\ job'[p].mail = job[p].mail
          /\ job'[p].user = job[p].user /\ job'[p].row = job[p].row
      BY <1>1, <3>1, GoesTo DEF SigningIn
    <3>4. Passing(job[p].row)'
      BY <1>2, <3>2, <3>3 DEF Passing, Federation!EnrollHit
    <3>5. Carries(p)'
      BY <1>1, <1>2, <2>1, <3>3, <3>4 DEF Carries, SigningIn, Federation!Exists
    <3>6. FederationShapes'
      BY <1>1, <1>2, <3>1, <3>3 DEF FederationShapes
    <3> QED
      BY <1>2, <3>3, <3>5, <3>6, Still
  <2> QED
    BY <2>2, <2>3
<1> QED
  BY <1>3, <1>4

LEMMA LinkKeeps ==
  ASSUME FederationInv, NEW p \in Proc, Federation!Link(p)
  PROVE  FederationInv'
<1> DEFINE a == job[p].acct
           u == job[p].user
<1>1. FederationShapes /\ Carries(p)
  BY DEF FederationInv
<1>2. UNCHANGED <<work, person, logins, code, answers, asked, claimed, honoured, promised, voided>>
  BY DEF Federation!Link, Federation!logouts
<1>3. /\ job[p].at = "link" /\ a \in Account /\ job[p].mail \in Asserts[a]
      /\ u \in Person /\ person[u].row.status # "absent"
  BY <1>1 DEF Federation!Link, Federation!At, Carries, SigningIn
<1>4. CASE Federation!Reply(p) /\ UNCHANGED <<link, hints, moved>>
  <2>1. job' \in [Proc -> Jobs] /\ \A q \in Proc : job'[q] = job[q] \/ Carries(q)'
    BY <1>1, <1>4, Answered
  <2>2. FederationShapes'
    BY <1>1, <1>2, <1>4, <2>1 DEF FederationShapes
  <2> QED
    BY <1>2, <1>4, <2>1, <2>2, Still
<1>5. CASE Federation!Goto(p, "gates")
  <2>1. /\ job' \in [Proc -> Jobs] /\ \A q \in Proc : q # p => job'[q] = job[q]
        /\ job'[p].at = "gates" /\ job'[p].acct = a /\ job'[p].mail = job[p].mail
        /\ job'[p].user = u /\ job'[p].row = job[p].row
    BY <1>1, <1>5, GoesTo DEF SigningIn
  <2>2. \/ UNCHANGED <<link, hints, moved>> /\ Kind[a] = "saml"
        \/ /\ link' = [link EXCEPT ![a] = u]
           /\ hints' = IF Kind[a] = "generic" THEN hints \cup {a} ELSE hints
           /\ moved' = IF Federation!Exists(link[a]) /\ link[a] # u THEN moved \cup {a} ELSE moved
    <3>1. job'[p].at # "idle"
      BY <2>1
    <3>2. ~Federation!Reply(p)
      BY <1>1, <3>1, Answered
    <3> QED
      BY <3>2 DEF Federation!Link, Federation!Saml
  <2>3. /\ link' \in [Account -> Person \cup {Nobody}] /\ hints' \subseteq Account /\ moved \subseteq moved'
        /\ \A b \in Account : link'[b] = link[b] \/ b \in moved' \/ ~Federation!Exists(link[b])
        /\ \A b \in Account : link'[b] = link[b] \/ link'[b] = u
        /\ Kind[a] = "generic" => link'[a] = u
    BY <1>1, <1>3, <2>2 DEF FederationShapes
  <2>4. World /\ \A v \in Person : Stays(v) => Federation!Exists(v)
    BY <1>1, <1>2, <2>3, WorldStands
  <2>5. Carries(p)'
    BY <1>1, <1>2, <1>3, <2>1, <2>3 DEF Carries, SigningIn, Federation!Exists
  <2>6. FederationShapes'
    BY <1>1, <1>2, <2>1, <2>3 DEF FederationShapes
  <2>7. \A s \in Session : Agrees(s)
    BY <1>2, SessionsStay
  <2>8. PromisesLast' /\ ClaimsCount'
    BY <1>2, <2>4, <2>6, <2>7, PromisesOn, ClaimsStay
  <2>9. LinksAreOfSomebody'
    BY <1>2, <1>3, <2>3 DEF FederationInv, LinksAreOfSomebody
  <2>10. Federation!OneUserPerAddress'
    BY <2>4, NoBirths DEF Federation!Exists
  <2> QED
    BY <2>1, <2>4, <2>5, <2>6, <2>7, <2>8, <2>9, <2>10, Onward
<1> QED
  BY <1>4, <1>5 DEF Federation!Link

Born == [Federation!NoRow EXCEPT !.status = "active"]

LEMMA BornFacts == Born \in Federation!Row /\ Born.status = "active" /\ Born.version = 0
BY RowFacts DEF Born, Federation!Row

LEMMA CreateKeeps ==
  ASSUME FederationInv, NEW p \in Proc, Federation!Create(p)
  PROVE  FederationInv'
<1> DEFINE a == job[p].acct
           m == Federation!NewMail(job[p])
<1>1. FederationShapes /\ Carries(p)
  BY DEF FederationInv
<1>2. UNCHANGED <<work, link, hints, logins, code, answers, asked, moved, claimed, honoured, promised, voided>>
  BY DEF Federation!Create, Federation!logouts
<1>3. job[p].at = "create" /\ a \in Account /\ job[p].mail \in Asserts[a]
  BY <1>1 DEF Federation!Create, Federation!At, Carries, SigningIn
<1>4. m \in Mail \cup {NoMail} \cup Account /\ (Kind[a] = "saml" => m = job[p].mail)
  BY <1>3, FederationAssumption DEF Federation!NewMail
<1>5. CASE Federation!Reply(p) /\ UNCHANGED person
  <2>1. job' \in [Proc -> Jobs] /\ \A q \in Proc : job'[q] = job[q] \/ Carries(q)'
    BY <1>1, <1>5, Answered
  <2>2. FederationShapes'
    BY <1>1, <1>2, <1>5, <2>1 DEF FederationShapes
  <2> QED
    BY <1>2, <1>5, <2>1, <2>2, Still
<1>6. CASE Federation!Free(m) /\
           \E u \in Federation!AnyOf({u \in Person : person[u].row.status = "absent"}) :
             /\ person' = [person EXCEPT ![u] = [row |-> Born, mail |-> m]]
             /\ Learning(p, "link", u, Born)
  <2>1. PICK u \in Person : /\ person[u].row.status = "absent"
                            /\ person' = [person EXCEPT ![u] = [row |-> Born, mail |-> m]]
                            /\ Learning(p, "link", u, Born)
    BY <1>6, AnyOfIsIn
  <2>2. /\ person'[u].row = Born /\ person'[u].mail = m /\ \A v \in Person : v # u => person'[v] = person[v]
        /\ person' \in [Person -> [row : Federation!Row, mail : Mail \cup {NoMail} \cup Account]]
        /\ \A v \in Person : person[v].row.version \in Int
    BY <1>1, <1>4, <2>1, BornFacts DEF FederationShapes, Federation!Row
  <2>3. /\ job' \in [Proc -> Jobs] /\ \A q \in Proc : q # p => job'[q] = job[q]
        /\ job'[p].at = "link" /\ job'[p].acct = a /\ job'[p].mail = job[p].mail
        /\ job'[p].user = u /\ job'[p].row = Born
    BY <1>1, <2>1, BornFacts, Learns DEF SigningIn
  <2>4. World
    BY <1>2, <2>1, <2>2 DEF World, Stays, Federation!Exists
  <2>5. \A s \in Session : Agrees(s)
    BY <1>2, <2>1, <2>2 DEF FederationInv, Sound, Agrees, Stays, Federation!Exists
  <2>6. Carries(p)'
    BY <1>3, <1>4, <2>2, <2>3, BornFacts DEF Carries, SigningIn
  <2>7. FederationShapes'
    BY <1>1, <1>2, <2>2, <2>3 DEF FederationShapes
  <2>8. PromisesLast' /\ ClaimsCount' /\ LinksAreOfSomebody'
    BY <1>2, <2>4, <2>5, <2>7, PromisesOn, ClaimsStay, LinksStay
  <2>9. \A v \in Person : v # u /\ Stays(v) => Federation!Exists(v) /\ person'[v].mail # m
    BY <1>6, <2>2 DEF Stays, Federation!Free, Federation!WithMail, Federation!Exists
  <2>10. Federation!OneUserPerAddress'
    BY <2>2, <2>9 DEF FederationInv, Federation!OneUserPerAddress, Stays, Federation!Exists
  <2> QED
    BY <2>3, <2>4, <2>5, <2>6, <2>7, <2>8, <2>10, Onward
<1> QED
  BY <1>5, <1>6 DEF Federation!Create, Born, Learning

LEMMA IssueKeeps ==
  ASSUME FederationInv, NEW p \in Proc, Federation!Issue(p)
  PROVE  FederationInv'
<1> DEFINE j == job[p]
           c == IF Federation!Saml(p) THEN j.row.version ELSE -1
           login == [user |-> j.user, live |-> TRUE, via |-> j.acct, row |-> j.row, claim |-> c]
<1>1. FederationShapes /\ Carries(p)
  BY DEF FederationInv
<1>2. UNCHANGED <<work, person, link, hints, answers, asked, moved, claimed, honoured, promised, voided>>
  BY DEF Federation!Issue, Federation!logouts
<1>3. /\ j.at = "issue" /\ j.acct \in Account /\ j.mail \in Asserts[j.acct] /\ j \in Jobs
      /\ j.user \in Person /\ person[j.user].row.status # "absent" /\ Passing(j.row)
  BY <1>1 DEF Federation!Issue, Federation!At, Carries, SigningIn, FederationShapes
<1>4. job' \in [Proc -> Jobs] /\ \A q \in Proc : job'[q] = job[q] \/ Carries(q)'
  BY <1>1, Answered DEF Federation!Issue
<1>5. CASE UNCHANGED <<logins, code>>
  <2>1. FederationShapes'
    BY <1>1, <1>2, <1>4, <1>5 DEF FederationShapes
  <2> QED
    BY <1>2, <1>4, <1>5, <2>1, Still
<1>6. CASE Federation!Exists(j.user) /\
           \E s \in Federation!Unused : Federation!NewCode("pair", s) /\ logins' = [logins EXCEPT ![s] = login]
  <2>1. PICK s \in Session : /\ logins[s] = Federation!NoSession /\ Federation!NewCode("pair", s)
                             /\ logins' = [logins EXCEPT ![s] = login]
    BY <1>6, AnyOfIsIn DEF Federation!Unused
  <2>2. c \in -1..MaxBumps /\ c \in Int /\ c <= person[j.user].row.version
    <3>1. j.row.version \in 0..MaxBumps /\ person[j.user].row.version \in 0..MaxBumps
      BY <1>1, <1>3 DEF FederationShapes, Jobs, Federation!Row
    <3>2. j.row.version <= person[j.user].row.version
      BY <1>1, <1>3, <1>6 DEF Carries
    <3> QED
      BY <3>1, <3>2, FederationAssumption
  <2>3. login \in Logins
    BY <1>3, <2>2 DEF Logins, Jobs
  <2>4. login.user = j.user /\ login.live = TRUE /\ login.via = j.acct /\ login.row = j.row /\ login.claim = c
    OBVIOUS
  <2> HIDE DEF login, c
  <2>5. logins' \in [Session -> Logins] /\ logins'[s] = login /\ \A t \in Session : t # s => logins'[t] = logins[t]
    BY <1>1, <2>1, <2>3 DEF FederationShapes
  <2>6. code' \in [Code -> Codes]
    BY <1>1, <2>1, CodesMade
  <2>7. FederationShapes'
    BY <1>1, <1>2, <1>4, <2>5, <2>6 DEF FederationShapes
  <2>8. World /\ \A u \in Person : Stays(u) => Federation!Exists(u)
    BY <1>1, <1>2, WorldStands
  <2>9. \A t \in Session : t # s => Agrees(t)
    BY <1>2, <2>5 DEF FederationInv, Sound, Agrees, Stays, Federation!Exists
  <2>10. logins[s].user \notin Person
    BY <2>1, FederationAssumption DEF Federation!NoSession
  <2>11. Sound(s)'
    <3>1. Passing(logins[s].row)'
      BY <1>2, <1>3, <2>4, <2>5 DEF Passing, Federation!EnrollHit
    <3>2. person'[j.user].row.status # "absent" /\ Stays(j.user)
      BY <1>2, <1>3, <1>6 DEF Stays, Federation!Exists
    <3> QED
      BY <1>1, <1>2, <1>3, <1>6, <2>2, <2>4, <2>5, <3>1, <3>2 DEF Sound, Carries, Stays, SigningIn, Federation!Exists
  <2>12. PromisesLast' /\ ClaimsCount' /\ LinksAreOfSomebody'
    BY <1>2, <2>7, <2>8, <2>9, <2>10, PromisesOn, ClaimsStay, LinksStay
  <2>13. Federation!OneUserPerAddress'
    BY <2>8, NoBirths DEF Federation!Exists
  <2> QED
    BY <1>4, <2>7, <2>8, <2>9, <2>10, <2>11, <2>12, <2>13, Onward
<1> QED
  BY <1>5, <1>6 DEF Federation!Issue

Ending(p, a, l, u, D) ==
  job' = [job EXCEPT ![p] = [Federation!Idle EXCEPT !.at = "revoke", !.acct = a, !.msg = l, !.user = u, !.due = D]]

LEMMA EndingFacts ==
  ASSUME FederationShapes, NEW p \in Proc, NEW a \in Account, NEW l \in Logout, NEW u \in Person \cup {Nobody}, NEW D,
         Ending(p, a, l, u, D)
  PROVE  /\ job'[p].at = "revoke" /\ job'[p].acct = a /\ job'[p].msg = l /\ job'[p].user = u /\ job'[p].due = D
         /\ \A q \in Proc : q # p => job'[q] = job[q]
         /\ D \subseteq Session => job' \in [Proc -> Jobs]
<1>1. job \in [Proc -> Jobs]
  BY DEF FederationShapes
<1>2. /\ job'[p] = [Federation!Idle EXCEPT !.at = "revoke", !.acct = a, !.msg = l, !.user = u, !.due = D]
      /\ job' \in [Proc -> {job'[q] : q \in Proc}] /\ \A q \in Proc : q # p => job'[q] = job[q]
  BY <1>1 DEF Ending
<1> DEFINE k1 == [Federation!Idle EXCEPT !.at = "revoke"]
           k2 == [k1 EXCEPT !.acct = a]
           k3 == [k2 EXCEPT !.msg = l]
           k4 == [k3 EXCEPT !.user = u]
<1>3. k1 \in Jobs /\ k1.at = "revoke"
  BY RowFacts DEF Jobs
<1> HIDE DEF k1
<1>4. k2 \in Jobs /\ k2.at = "revoke" /\ k2.acct = a
  BY <1>3 DEF Jobs
<1> HIDE DEF k2
<1>5. k3 \in Jobs /\ k3.at = "revoke" /\ k3.acct = a /\ k3.msg = l
  BY <1>4 DEF Jobs
<1> HIDE DEF k3
<1>6. k4 \in Jobs /\ k4.at = "revoke" /\ k4.acct = a /\ k4.msg = l /\ k4.user = u
  BY <1>5 DEF Jobs
<1>7. job'[p] = [k4 EXCEPT !.due = D]
  BY <1>2 DEF k1, k2, k3
<1> HIDE DEF k4
<1>8. job'[p].at = "revoke" /\ job'[p].acct = a /\ job'[p].msg = l /\ job'[p].user = u /\ job'[p].due = D
  BY <1>6, <1>7 DEF Jobs
<1>9. D \in SUBSET Session => job'[p] \in Jobs
  BY <1>6, <1>7 DEF Jobs
<1> QED
  BY <1>1, <1>2, <1>8, <1>9

LEMMA Ends ==
  ASSUME FederationInv, NEW p \in Proc, NEW a \in Account, NEW l \in Logout, NEW u \in Person \cup {Nobody}, NEW D,
         Ending(p, a, l, u, D), \A s \in D : s \in Session /\ u \in Person /\ logins[s].user = u /\ logins'[s].user = u
  PROVE  /\ job' \in [Proc -> Jobs] /\ \A q \in Proc : job'[q] = job[q] \/ Carries(q)'
<1>1. FederationShapes /\ D \subseteq Session
  BY DEF FederationInv
<1>2. /\ job'[p].at = "revoke" /\ job'[p].acct = a /\ job'[p].msg = l /\ job'[p].user = u /\ job'[p].due = D
      /\ \A q \in Proc : q # p => job'[q] = job[q]
      /\ job' \in [Proc -> Jobs]
  BY <1>1, EndingFacts
<1>3. Carries(p)'
  BY <1>2 DEF Carries, SigningIn
<1> QED
  BY <1>2, <1>3

LEMMA ClaimsGrow ==
  ASSUME FederationInv, NEW l \in Logout, NEW h \in Proc \cup {Federation!Redis}, h \notin claimed[l],
         claimed' = [claimed EXCEPT ![l] = claimed[l] \cup {h}],
         honoured' = [honoured EXCEPT ![l] = honoured[l] + 1],
         UNCHANGED <<work, answers>>, answers => h = Federation!Redis
  PROVE  ClaimsCount'
<1>1. FederationShapes /\ ClaimsCount
  BY DEF FederationInv
<1>2. claimed[l] \subseteq Proc \cup {Federation!Redis} /\ IsFiniteSet(Proc) /\ honoured[l] \in Nat
  BY <1>1, FederationAssumption DEF FederationShapes
<1>3. IsFiniteSet(Proc \cup {Federation!Redis})
  BY <1>2, FS_AddElement
<1>4. IsFiniteSet(claimed[l])
  BY <1>2, <1>3, FS_Subset
<1>5. Cardinality(claimed[l]) \in Nat /\ Cardinality(claimed[l] \cup {h}) = Cardinality(claimed[l]) + 1
  BY <1>4, FS_AddElement, FS_CardinalityType
<1>6. honoured[l] <= Cardinality(claimed[l])
  BY <1>1 DEF ClaimsCount
<1>7. honoured[l] + 1 <= Cardinality(claimed[l] \cup {h})
  BY <1>2, <1>5, <1>6
<1>8. /\ claimed'[l] = claimed[l] \cup {h} /\ honoured'[l] = honoured[l] + 1
      /\ \A k \in Logout : k # l => claimed'[k] = claimed[k] /\ honoured'[k] = honoured[k]
  BY <1>1 DEF FederationShapes
<1>9. \A k \in Logout : honoured'[k] <= Cardinality(claimed'[k])
  BY <1>1, <1>7, <1>8 DEF ClaimsCount
<1>10. "outage" \notin work'.extras => answers' /\ \A k \in Logout : claimed'[k] \subseteq {Federation!Redis}
  BY <1>1, <1>8 DEF ClaimsCount
<1> QED
  BY <1>9, <1>10 DEF ClaimsCount

\* Every session with a SAML account in reach of its logouts is of the one user whose address
\* is the nameID.
LEMMA SloKeeps ==
  ASSUME FederationInv, NEW p \in Proc, NEW l \in Logout, Federation!Slo(p, l)
  PROVE  FederationInv'
<1> DEFINE a == About[l]
           us == Federation!WithMail(NameId[a])
           u == IF us = {} THEN Nobody ELSE CHOOSE x \in us : TRUE
           D == Federation!Expected(a) \cup UNION {Federation!SessionsOf(x) : x \in us}
<1>1. FederationShapes
  BY DEF FederationInv
<1>2. UNCHANGED <<work, person, link, hints, logins, code, answers, asked, moved, promised, voided>>
  BY DEF Federation!Slo, Federation!rows
<1>3. a \in Account /\ Kind[a] = "saml"
  BY FederationAssumption DEF Federation!Slo
<1>4. CASE UNCHANGED <<job, claimed, honoured>>
  <2>1. FederationShapes'
    BY <1>1, <1>2, <1>4 DEF FederationShapes
  <2> QED
    BY <1>2, <1>4, <2>1, Still
<1>5. CASE /\ Federation!Home(p) \notin claimed[l]
           /\ claimed' = [claimed EXCEPT ![l] = @ \cup {Federation!Home(p)}]
           /\ honoured' = [honoured EXCEPT ![l] = @ + 1]
           /\ Ending(p, a, l, u, D)
  <2>3. \A v \in us : v \in Person /\ Federation!Exists(v) /\ person[v].mail = NameId[a]
    BY DEF Federation!WithMail
  <2>4. \A v, w \in us : v = w
    BY <2>3 DEF FederationInv, Federation!OneUserPerAddress
  <2>5. u \in Person \cup {Nobody} /\ \A v \in us : u = v
    BY <2>3, <2>4
  <2>6. \A s \in D : s \in Session /\ logins[s].user \in us
    <3>1. ASSUME NEW s \in Federation!Expected(a) PROVE s \in Session /\ logins[s].user \in us
      <4>1. s \in Session /\ logins[s].live /\ logins[s].via = a /\ Asserts[a] = {NameId[a]}
        BY <1>3 DEF Federation!Expected, Federation!InReach, Federation!Via
      <4>2. Sound(s)
        BY <4>1 DEF FederationInv
      <4>3. Federation!Exists(logins[s].user) /\ person[logins[s].user].mail = NameId[a]
        BY <1>3, <4>1, <4>2 DEF Sound
      <4> QED
        BY <4>1, <4>3 DEF Federation!WithMail, Federation!Exists
    <3>2. ASSUME NEW v \in us, NEW s \in Federation!SessionsOf(v) PROVE s \in Session /\ logins[s].user \in us
      BY DEF Federation!SessionsOf
    <3> QED
      BY <3>1, <3>2
  <2> HIDE DEF us, u, D
  <2>7. \A s \in D : s \in Session /\ u \in Person /\ logins[s].user = u /\ logins'[s].user = u
    BY <1>2, <2>3, <2>5, <2>6
  <2>8. job' \in [Proc -> Jobs] /\ \A q \in Proc : job'[q] = job[q] \/ Carries(q)'
    BY <1>3, <1>5, <2>5, <2>7, Ends
  <2>9. Federation!Home(p) \in Proc \cup {Federation!Redis} /\ (answers => Federation!Home(p) = Federation!Redis)
    BY DEF Federation!Home
  <2>10. claimed' \in [Logout -> SUBSET (Proc \cup {Federation!Redis})] /\ honoured' \in [Logout -> Nat]
    BY <1>1, <1>5, <2>9 DEF FederationShapes
  <2>11. FederationShapes'
    BY <1>1, <1>2, <2>8, <2>10 DEF FederationShapes
  <2>12. ClaimsCount'
    BY <1>2, <1>5, <2>9, ClaimsGrow
  <2>13. World /\ \A v \in Person : Stays(v) => Federation!Exists(v)
    BY <1>1, <1>2, WorldStands
  <2>14. \A s \in Session : Agrees(s)
    BY <1>2, SessionsStay
  <2>15. PromisesLast' /\ LinksAreOfSomebody'
    BY <1>2, <2>11, <2>13, <2>14, PromisesOn, LinksStay
  <2>16. Federation!OneUserPerAddress'
    BY <2>13, NoBirths DEF Federation!Exists
  <2> QED
    BY <2>8, <2>11, <2>12, <2>13, <2>14, <2>15, <2>16, Onward
<1> QED
  BY <1>4, <1>5 DEF Federation!Slo, Federation!Claimed, Federation!EndSessions, Ending

\* Nobody is signed in with an account that is configured and not linked.
LEMMA BcloKeeps ==
  ASSUME FederationInv, NEW p \in Proc, NEW l \in Logout, Federation!Bclo(p, l)
  PROVE  FederationInv'
<1> DEFINE a == About[l]
           D == Federation!Expected(a) \cup UNION {Federation!SessionsOf(x) : x \in {link[a]}}
<1>1. FederationShapes
  BY DEF FederationInv
<1>2. UNCHANGED <<work, person, link, hints, logins, code, answers, asked, moved, claimed, voided, honoured>>
  BY DEF Federation!Bclo, Federation!rows
<1>3. a \in Account /\ Kind[a] = "generic"
  BY FederationAssumption DEF Federation!Bclo
<1>4. \A s \in Federation!Via(a) : s \in Session /\ logins[s].user = link[a] /\ link[a] \in Person
  <2> SUFFICES ASSUME NEW s \in Federation!Via(a) PROVE s \in Session /\ logins[s].user = link[a] /\ link[a] \in Person
    OBVIOUS
  <2>1. s \in Session /\ logins[s].live /\ logins[s].via = a /\ a \notin moved
    BY DEF Federation!Via
  <2>2. Sound(s)
    BY <2>1 DEF FederationInv
  <2> QED
    BY <1>3, <2>1, <2>2 DEF Sound, Federation!Exists
<1>5. job' \in [Proc -> Jobs] /\ (\A q \in Proc : job'[q] = job[q] \/ Carries(q)') /\ promised' = promised
  <2>1. CASE link[a] = Nobody
    <3>1. Federation!Via(a) = {}
      BY <1>4, <2>1, FederationAssumption
    <3> QED
      BY <1>1, <2>1, <3>1 DEF Federation!Bclo, Federation!Unlinked, FederationShapes
  <2>2. CASE link[a] # Nobody
    <3>1. link[a] \in Person
      BY <1>1, <1>3, <2>2 DEF FederationShapes
    <3>2. \A s \in D : s \in Session /\ link[a] \in Person /\ logins[s].user = link[a] /\ logins'[s].user = link[a]
      BY <1>2, <1>4, <3>1 DEF Federation!SessionsOf, Federation!Expected
    <3>3. (IF {link[a]} = {} THEN Nobody ELSE CHOOSE x \in {link[a]} : TRUE) = link[a]
      OBVIOUS
    <3>4. Ending(p, a, l, link[a], D) /\ promised' = promised
      BY <2>2, <3>3 DEF Federation!Bclo, Federation!Unlinked, Federation!EndSessions, Ending
    <3> HIDE DEF D
    <3> QED
      BY <1>3, <3>1, <3>2, <3>4, Ends
  <2> QED
    BY <2>1, <2>2
<1>6. FederationShapes'
  BY <1>1, <1>2, <1>5 DEF FederationShapes
<1> QED
  BY <1>2, <1>5, <1>6, Still

LEMMA RevokeKeeps ==
  ASSUME FederationInv, NEW p \in Proc, Federation!Revoke(p)
  PROVE  FederationInv'
<1> DEFINE u == job[p].user
<1>1. FederationShapes /\ Carries(p)
  BY DEF FederationInv
<1>2. UNCHANGED <<work, person, link, hints, code, answers, asked, moved, claimed, voided, honoured>>
  BY DEF Federation!Revoke
<1>3. /\ job[p].at = "revoke" /\ job[p].acct \in Account /\ job[p].msg \in Logout /\ job[p].due \subseteq Session
      /\ \A s \in job[p].due : u \in Person /\ logins[s].user = u
  BY <1>1 DEF Federation!Revoke, Federation!At, Carries, FederationShapes, Jobs
<1>4. Federation!End(Federation!SessionsOf(u))
  BY DEF Federation!Revoke
<1>5. World /\ \A v \in Person : Stays(v) => Federation!Exists(v)
  BY <1>1, <1>2, WorldStands
<1>6. \A s \in Session : logins[s].live => Stays(logins[s].user)
  BY <1>2 DEF FederationInv, Sound, Stays, Federation!Exists
<1>7. /\ \A s \in Session : Agrees(s) /\ (s \in Federation!SessionsOf(u) => ~logins'[s].live)
      /\ logins' \in [Session -> Logins]
  BY <1>4, <1>6, SessionsEnd
<1>8. \A s \in job[p].due : logins'[s].user = u /\ u \in Person /\ ~logins'[s].live
  BY <1>3, <1>7 DEF Agrees, Federation!SessionsOf
<1>9. /\ job' \in [Proc -> Jobs] /\ (\A q \in Proc : job'[q] = job[q] \/ Carries(q)')
      /\ promised' \subseteq promised \cup job[p].due
  <2>1. CASE Federation!Told(p)
    BY <1>1, <2>1, Answered DEF Federation!Told
  <2>2. CASE Federation!Goto(p, "bump") /\ promised' = promised
    <3>1. /\ job' \in [Proc -> Jobs] /\ \A q \in Proc : q # p => job'[q] = job[q]
          /\ job'[p].at = "bump" /\ job'[p].acct = job[p].acct /\ job'[p].msg = job[p].msg
          /\ job'[p].user = u /\ job'[p].due = job[p].due
      BY <1>1, <2>2, GoesTo
    <3>2. Carries(p)'
      BY <1>3, <1>8, <3>1 DEF Carries, SigningIn
    <3> QED
      BY <2>2, <3>1, <3>2
  <2> QED
    BY <2>1, <2>2 DEF Federation!Revoke
<1>10. FederationShapes'
  BY <1>1, <1>2, <1>3, <1>7, <1>9 DEF FederationShapes
<1>11. PromisesLast'
  <2>1. \A s \in promised' : logins'[s].user \in Person /\ ~logins'[s].live
    BY <1>1, <1>7, <1>8, <1>9 DEF FederationInv, PromisesLast, FederationShapes, Agrees
  <2>2. \A s \in voided : /\ logins'[s].user \in Person
                          /\ logins'[s].claim # -1 /\ Federation!Exists(logins[s].user) =>
                               logins'[s].claim < person[logins[s].user].row.version
    BY <1>1, <1>7 DEF FederationInv, PromisesLast, FederationShapes, Agrees
  <2>3. \A s \in voided : logins'[s].user = logins[s].user
    BY <1>1, <1>7 DEF FederationShapes, Agrees
  <2> QED
    BY <1>2, <2>1, <2>2, <2>3 DEF PromisesLast, Federation!Exists
<1>12. LinksAreOfSomebody' /\ ClaimsCount'
  BY <1>2, <1>5, LinksStay, ClaimsStay
<1>13. Federation!OneUserPerAddress'
  BY <1>5, NoBirths DEF Federation!Exists
<1> QED
  BY <1>5, <1>7, <1>9, <1>10, <1>11, <1>12, <1>13, Onward

\* Changes to the row of one user who is there.
LEMMA PersonMoves ==
  ASSUME FederationInv, FederationShapes', NEW u \in Person, Federation!Exists(u), UNCHANGED <<work, link, moved>>,
         \A v \in Person : v # u => person'[v] = person[v],
         person'[u].row.status # "absent",
         Stays(u) => person'[u].mail = person[u].mail /\ person[u].row.version <= person'[u].row.version
  PROVE  /\ World /\ LinksAreOfSomebody' /\ Federation!OneUserPerAddress'
         /\ \A v : v # u /\ Federation!Exists(v) => Stays(v)
<1>1. \A v \in Person : person[v].row.version \in Int
  BY DEF FederationInv, FederationShapes, Federation!Row
<1>2. World
  BY <1>1 DEF World, Stays, Federation!Exists
<1>3. \A v \in Person : Stays(v) => person[v].row.status # "absent"
  BY DEF Stays, Federation!Exists
<1> QED
  BY <1>2, <1>3, LinksStay, NoBirths DEF Stays, Federation!Exists

Bumping(u) == person' = [person EXCEPT ![u].row.version = @ + 1]

LEMMA Bumps ==
  ASSUME FederationShapes, NEW u \in Person, person[u].row.version < MaxBumps, Bumping(u)
  PROVE  /\ person' \in [Person -> [row : Federation!Row, mail : Mail \cup {NoMail} \cup Account]]
         /\ \A v \in Person : v # u => person'[v] = person[v]
         /\ person'[u].mail = person[u].mail /\ person'[u].row.status = person[u].row.status
         /\ person'[u].row.version = person[u].row.version + 1
<1>1. /\ person \in [Person -> [row : Federation!Row, mail : Mail \cup {NoMail} \cup Account]]
      /\ person' = [person EXCEPT ![u].row.version = @ + 1]
  BY DEF FederationShapes, Bumping
<1> DEFINE r == [person[u].row EXCEPT !.version = person[u].row.version + 1]
<1>2. person[u].row \in Federation!Row
  BY <1>1
<1>3. person[u].row.version \in 0..MaxBumps
  BY <1>2 DEF Federation!Row
<1>4. person[u].row.version + 1 \in 0..MaxBumps
  BY <1>3, FederationAssumption
<1>5. r \in Federation!Row /\ r.status = person[u].row.status /\ r.version = person[u].row.version + 1
  BY <1>2, <1>4 DEF Federation!Row
<1>6. person'[u] = [person[u] EXCEPT !.row = r] /\ \A v \in Person : v # u => person'[v] = person[v]
  BY <1>1
<1> HIDE DEF r
<1>7. person'[u].row = r /\ person'[u].mail = person[u].mail
      /\ person'[u] \in [row : Federation!Row, mail : Mail \cup {NoMail} \cup Account]
  BY <1>1, <1>5, <1>6
<1>8. person' \in [Person -> [row : Federation!Row, mail : Mail \cup {NoMail} \cup Account]]
  BY <1>1, <1>6, <1>7
<1> QED
  BY <1>5, <1>6, <1>7, <1>8

LEMMA BumpKeeps ==
  ASSUME FederationInv, NEW p \in Proc, Federation!Bump(p)
  PROVE  FederationInv'
<1> DEFINE u == job[p].user
           l == job[p].msg
<1>1. FederationShapes /\ Carries(p)
  BY DEF FederationInv
<1>2. UNCHANGED <<work, link, logins, code, answers, asked, moved, honoured>>
  BY DEF Federation!Bump
<1>3. /\ job[p].at = "bump" /\ l \in Logout /\ job[p].due \subseteq Session
      /\ \A s \in job[p].due : u \in Person /\ logins[s].user = u /\ ~logins[s].live
  BY <1>1 DEF Federation!Bump, Federation!At, Carries, FederationShapes, Jobs
<1>4. job' \in [Proc -> Jobs] /\ \A q \in Proc : job'[q] = job[q] \/ Carries(q)'
  BY <1>1, Answered DEF Federation!Bump, Federation!Told
<1>5. hints' \subseteq Account /\ claimed' \in [Logout -> SUBSET (Proc \cup {Federation!Redis})]
  BY <1>1, <1>3 DEF Federation!Bump, FederationShapes
<1>6. promised' = promised \cup job[p].due /\ voided' = voided \cup job[p].due
  BY DEF Federation!Bump, Federation!Told
<1>7. /\ person' \in [Person -> [row : Federation!Row, mail : Mail \cup {NoMail} \cup Account]]
      /\ Federation!Exists(u) => /\ Stays(u) /\ person'[u].mail = person[u].mail
                                 /\ person'[u].row.version = person[u].row.version + 1
                                 /\ \A v \in Person : v # u => person'[v] = person[v]
      /\ ~Federation!Exists(u) => person' = person
  <2>1. CASE Federation!Exists(u)
    <3>1. u \in Person /\ Bumping(u) /\ person[u].row.version < MaxBumps
      BY <2>1 DEF Federation!Bump, Bumping, Federation!Exists
    <3> HIDE DEF u
    <3>2. /\ person' \in [Person -> [row : Federation!Row, mail : Mail \cup {NoMail} \cup Account]]
          /\ \A v \in Person : v # u => person'[v] = person[v]
          /\ person'[u].mail = person[u].mail /\ person'[u].row.status = person[u].row.status
          /\ person'[u].row.version = person[u].row.version + 1
      BY <1>1, <3>1, Bumps
    <3>3. Stays(u)
      BY <2>1, <3>1, <3>2 DEF Stays, Federation!Exists
    <3> QED
      BY <2>1, <3>2, <3>3
  <2>2. CASE ~Federation!Exists(u)
    <3>1. person' = person
      BY <2>2 DEF Federation!Bump
    <3> QED
      BY <1>1, <2>2, <3>1 DEF FederationShapes
  <2> QED
    BY <2>1, <2>2
<1>8. FederationShapes'
  BY <1>1, <1>2, <1>3, <1>4, <1>5, <1>6, <1>7 DEF FederationShapes
<1>9. /\ World /\ LinksAreOfSomebody' /\ Federation!OneUserPerAddress'
      /\ \A v : Federation!Exists(v) => Stays(v)
  <2>1. CASE Federation!Exists(u)
    <3>1. u \in Person /\ person[u].row.version \in Int
      BY <1>1, <2>1 DEF Federation!Exists, FederationShapes, Federation!Row
    <3>2. person'[u].row.status # "absent" /\ person'[u].mail = person[u].mail
          /\ person[u].row.version <= person'[u].row.version
      BY <1>7, <2>1, <3>1 DEF Stays
    <3> HIDE DEF u
    <3> QED
      BY <1>2, <1>7, <1>8, <2>1, <3>1, <3>2, PersonMoves
  <2>2. CASE ~Federation!Exists(u)
    <3>1. person' = person
      BY <1>7, <2>2
    <3>2. World /\ \A v \in Person : Stays(v) => Federation!Exists(v)
      BY <1>1, <1>2, <3>1, WorldStands
    <3>3. Federation!OneUserPerAddress'
      BY <3>2, NoBirths DEF Federation!Exists
    <3> QED
      BY <1>2, <3>1, <3>2, <3>3, LinksStay DEF Stays, Federation!Exists
  <2> QED
    BY <2>1, <2>2
<1>10. \A s \in Session : Agrees(s)
  BY <1>2, <1>9 DEF FederationInv, Sound, Agrees
<1>11. PromisesLast'
  <2>1. \A s \in promised' : logins'[s].user \in Person /\ ~logins'[s].live
    BY <1>2, <1>3, <1>6 DEF FederationInv, PromisesLast
  <2>2. ASSUME NEW s \in voided'
        PROVE  /\ logins'[s].user \in Person
               /\ logins'[s].claim # -1 /\ Stays(logins'[s].user) =>
                    logins'[s].claim < person'[logins'[s].user].row.version
    <3> DEFINE x == logins[s]
    <3>1. s \in Session /\ x.user \in Person /\ Sound(s) /\ logins'[s] = x /\ x.claim \in Int
      BY <1>1, <1>2, <1>3, <1>6, <2>2, FederationAssumption DEF FederationInv, PromisesLast, FederationShapes, Logins
    <3>2. Stays(x.user) => Federation!Exists(x.user) /\ person[x.user].row.version <= person'[x.user].row.version
      BY <1>9, <3>1 DEF World, Sound
    <3>3. person[x.user].row.version \in Int /\ person'[x.user].row.version \in Int
      BY <1>1, <1>8, <3>1 DEF FederationShapes, Federation!Row
    <3>4. CASE s \in voided
      <4>1. x.claim # -1 /\ Federation!Exists(x.user) => x.claim < person[x.user].row.version
        BY <3>4 DEF FederationInv, PromisesLast
      <4> QED
        BY <3>1, <3>2, <3>3, <4>1
    <3>5. CASE s \in job[p].due
      <4>1. x.user = u
        BY <1>3, <3>5
      <4>2. Federation!Exists(x.user) => x.claim <= person[x.user].row.version
        BY <3>1 DEF Sound
      <4>3. Federation!Exists(x.user) => person'[x.user].row.version = person[x.user].row.version + 1
        BY <1>7, <4>1
      <4> QED
        BY <3>1, <3>2, <3>3, <4>2, <4>3
    <3> QED
      BY <1>6, <2>2, <3>4, <3>5
  <2> QED
    BY <2>1, <2>2 DEF PromisesLast, Stays, Federation!Exists
<1>12. ClaimsCount'
  <2>1. ASSUME NEW k \in Logout PROVE honoured'[k] <= Cardinality(claimed'[k])
    <3>1. honoured'[k] = honoured[k] /\ honoured[k] \in Nat /\ honoured[k] <= Cardinality(claimed[k])
      BY <1>1, <1>2 DEF FederationInv, ClaimsCount, FederationShapes
    <3>2. claimed[k] \subseteq claimed'[k] /\ claimed'[k] \subseteq Proc \cup {Federation!Redis}
      BY <1>1, <1>3, <1>5 DEF Federation!Bump, FederationShapes
    <3>3. IsFiniteSet(Proc)
      BY FederationAssumption
    <3>4. IsFiniteSet(Proc \cup {Federation!Redis})
      BY <3>3, FS_AddElement
    <3>5. IsFiniteSet(claimed'[k])
      BY <3>2, <3>4, FS_Subset
    <3>6. Cardinality(claimed[k]) <= Cardinality(claimed'[k]) /\ Cardinality(claimed[k]) \in Nat /\ Cardinality(claimed'[k]) \in Nat
      BY <3>2, <3>5, FS_Subset, FS_CardinalityType
    <3> QED
      BY <3>1, <3>6
  <2>2. "outage" \notin work.extras => answers /\ \A k \in Logout : claimed[k] \subseteq {Federation!Redis}
    BY DEF FederationInv, ClaimsCount
  <2>3. \A k \in Logout : claimed'[k] \subseteq claimed[k] \cup {Federation!Redis}
    BY <1>1, <1>3 DEF Federation!Bump, FederationShapes
  <2> QED
    BY <1>2, <2>1, <2>2, <2>3 DEF ClaimsCount
<1> QED
  BY <1>4, <1>8, <1>9, <1>10, <1>11, <1>12, Onward

\* What a change of one user's row comes to when no session, request or logout changes with it
\* but the sessions of that user, which end or stay.
LEMMA RowsKeep ==
  ASSUME FederationInv, FederationShapes', NEW u \in Person, Federation!Exists(u),
         UNCHANGED <<work, link, moved, job, answers, claimed, honoured, promised, voided>>,
         \A v \in Person : v # u => person'[v] = person[v],
         person'[u].row.status # "absent",
         Stays(u) => person'[u].mail = person[u].mail /\ person[u].row.version <= person'[u].row.version,
         \/ Federation!End(Federation!SessionsOf(u))
         \/ logins' = logins /\ Stays(u)
  PROVE  FederationInv'
<1>1. /\ World /\ LinksAreOfSomebody' /\ Federation!OneUserPerAddress'
      /\ \A v : v # u /\ Federation!Exists(v) => Stays(v)
  BY PersonMoves
<1>2. \A s \in Session : Agrees(s)
  <2>1. CASE logins' = logins /\ Stays(u)
    BY <1>1, <2>1 DEF FederationInv, Sound, Agrees
  <2>2. CASE Federation!End(Federation!SessionsOf(u))
    <3>1. \A s \in Session : s \notin Federation!SessionsOf(u) /\ logins[s].live => Stays(logins[s].user)
      BY <1>1 DEF FederationInv, Sound, Federation!SessionsOf
    <3> QED
      BY <2>2, <3>1, SessionsEnd
  <2> QED
    BY <2>1, <2>2
<1>3. PromisesLast' /\ ClaimsCount'
  BY <1>1, <1>2, PromisesOn, ClaimsStay
<1> QED
  BY <1>1, <1>2, <1>3, Onward

LEMMA LogOutKeeps ==
  ASSUME FederationInv, NEW u \in Person, Federation!LogOut(u)
  PROVE  FederationInv'
<1>1. FederationShapes
  BY DEF FederationInv
<1>2. /\ UNCHANGED <<work, person, link, hints, code, answers, job, moved, claimed, honoured, promised, voided>>
      /\ Federation!Exists(u) /\ Federation!End(Federation!SessionsOf(u))
      /\ asked' \subseteq asked \cup {"logout"}
  BY DEF Federation!LogOut, Federation!logouts
<1>3. logins' \in [Session -> Logins]
  <2>1. \A s \in Session : logins[s].live => Stays(logins[s].user)
    BY <1>2 DEF FederationInv, Sound, Stays, Federation!Exists
  <2> QED
    BY <1>2, <2>1, SessionsEnd
<1>4. FederationShapes'
  BY <1>1, <1>2, <1>3 DEF FederationShapes
<1>5. person[u].row.version \in Int
  BY <1>1 DEF FederationShapes, Federation!Row
<1> QED
  BY <1>2, <1>4, <1>5, RowsKeep DEF Federation!Exists

LEMMA DeleteUserKeeps ==
  ASSUME FederationInv, NEW u \in Person, Federation!DeleteUser(u)
  PROVE  FederationInv'
<1> DEFINE gone == [Federation!NoRow EXCEPT !.status = "deleted"]
<1>1. FederationShapes
  BY DEF FederationInv
<1>2. /\ UNCHANGED <<work, link, hints, code, answers, asked, job, moved, claimed, honoured, promised, voided>>
      /\ Federation!Exists(u) /\ Federation!End(Federation!SessionsOf(u))
      /\ person' = [person EXCEPT ![u] = [row |-> gone, mail |-> NoMail]]
  BY DEF Federation!DeleteUser, Federation!logouts
<1>3. gone \in Federation!Row /\ gone.status = "deleted"
  BY RowFacts DEF Federation!Row
<1> HIDE DEF gone
<1>4. /\ person' \in [Person -> [row : Federation!Row, mail : Mail \cup {NoMail} \cup Account]]
      /\ \A v \in Person : v # u => person'[v] = person[v]
      /\ person'[u].row = gone
  BY <1>1, <1>2, <1>3 DEF FederationShapes
<1>5. logins' \in [Session -> Logins]
  <2>1. \A s \in Session : s \notin Federation!SessionsOf(u) /\ logins[s].live => Stays(logins[s].user)
    BY <1>2, <1>4 DEF FederationInv, Sound, Stays, Federation!Exists, Federation!SessionsOf
  <2> QED
    BY <1>2, <2>1, SessionsEnd
<1>6. FederationShapes'
  BY <1>1, <1>2, <1>4, <1>5 DEF FederationShapes
<1>7. person'[u].row.status # "absent" /\ ~Stays(u)
  BY <1>3, <1>4 DEF Stays
<1> QED
  BY <1>2, <1>4, <1>6, <1>7, RowsKeep

Suspending(u) == person' = [person EXCEPT ![u].row.status = "suspended", ![u].row.version = @ + 1]

LEMMA SuspendKeeps ==
  ASSUME FederationInv, NEW u \in Person, Federation!Suspend(u)
  PROVE  FederationInv'
<1>1. FederationShapes
  BY DEF FederationInv
<1>2. /\ UNCHANGED <<work, link, hints, code, answers, asked, job, moved, claimed, honoured, promised, voided>>
      /\ Federation!Exists(u) /\ Federation!End(Federation!SessionsOf(u)) /\ person[u].row.version < MaxBumps
      /\ Suspending(u)
  BY DEF Federation!Suspend, Federation!logouts, Suspending
<1>3. person \in [Person -> [row : Federation!Row, mail : Mail \cup {NoMail} \cup Account]]
  BY <1>1 DEF FederationShapes
<1>4. person[u] \in [row : Federation!Row, mail : Mail \cup {NoMail} \cup Account]
  BY <1>3
<1> DEFINE r == [person[u].row EXCEPT !.status = "suspended"]
           k == [person EXCEPT ![u].row = r]
           t == [r EXCEPT !.version = r.version + 1]
<1>5. r \in Federation!Row /\ r.version = person[u].row.version /\ r.version \in 0..MaxBumps /\ r.version + 1 \in 0..MaxBumps
  BY <1>2, <1>4, FederationAssumption DEF Federation!Row
<1>6. /\ \A v \in Person : v # u => k[v] = person[v]
      /\ k[u].row = r /\ k[u].mail = person[u].mail /\ k[u] \in [row : Federation!Row, mail : Mail \cup {NoMail} \cup Account]
      /\ k \in [Person -> [row : Federation!Row, mail : Mail \cup {NoMail} \cup Account]]
  BY <1>3, <1>4, <1>5
<1>7. person' = [k EXCEPT ![u].row.version = @ + 1]
  BY <1>2 DEF Suspending
<1> HIDE DEF k, r
<1>8. person' = [k EXCEPT ![u].row = t]
  BY <1>6, <1>7
<1>9. t \in Federation!Row /\ t.version = r.version + 1
  BY <1>5 DEF Federation!Row
<1> HIDE DEF t
<1>10. /\ person' \in [Person -> [row : Federation!Row, mail : Mail \cup {NoMail} \cup Account]]
       /\ \A v \in Person : v # u => person'[v] = person[v]
       /\ person'[u].row = t /\ person'[u].mail = person[u].mail
  BY <1>6, <1>8, <1>9
<1>11. t.status = "suspended"
  BY <1>5 DEF t, r, Federation!Row
<1>12. person'[u].row.status # "absent" /\ Stays(u) /\ person[u].row.version <= person'[u].row.version
  BY <1>5, <1>9, <1>10, <1>11 DEF Stays
<1>13. logins' \in [Session -> Logins]
  <2>1. \A s \in Session : s \notin Federation!SessionsOf(u) /\ logins[s].live => Stays(logins[s].user)
    BY <1>10 DEF FederationInv, Sound, Stays, Federation!Exists, Federation!SessionsOf
  <2> QED
    BY <1>2, <2>1, SessionsEnd
<1>14. FederationShapes'
  BY <1>1, <1>2, <1>10, <1>13 DEF FederationShapes
<1> QED
  BY <1>2, <1>10, <1>12, <1>14, RowsKeep

LEMMA SetTotpKeeps ==
  ASSUME FederationInv, NEW u \in Person, Federation!SetTotp(u)
  PROVE  FederationInv'
<1>1. FederationShapes
  BY DEF FederationInv
<1>2. /\ UNCHANGED <<work, link, hints, logins, code, answers, asked, job, moved, claimed, honoured, promised, voided>>
      /\ Federation!Exists(u)
      /\ person' = [person EXCEPT ![u].row.totp = ~@]
  BY DEF Federation!SetTotp, Federation!logouts
<1>3. person \in [Person -> [row : Federation!Row, mail : Mail \cup {NoMail} \cup Account]]
  BY <1>1 DEF FederationShapes
<1> DEFINE r == [person[u].row EXCEPT !.totp = ~person[u].row.totp]
<1>4. person[u].row \in Federation!Row
  BY <1>3
<1>5. (~person[u].row.totp) \in BOOLEAN
  OBVIOUS
<1>6. r \in Federation!Row
  BY <1>4, <1>5 DEF Federation!Row
<1>7. r.status = person[u].row.status /\ r.version = person[u].row.version
  BY <1>4 DEF Federation!Row
<1>8. person' = [person EXCEPT ![u].row = r]
  BY <1>2
<1> HIDE DEF r
<1>9. /\ person' \in [Person -> [row : Federation!Row, mail : Mail \cup {NoMail} \cup Account]]
      /\ \A v \in Person : v # u => person'[v] = person[v]
      /\ person'[u].row = r /\ person'[u].mail = person[u].mail
  BY <1>3, <1>6, <1>8
<1>10. /\ person'[u].row.status # "absent" /\ Stays(u)
       /\ person[u].row.version <= person'[u].row.version
  <2>1. person[u].row.version \in Int
    BY <1>4 DEF Federation!Row
  <2> QED
    BY <1>2, <1>7, <1>9, <2>1 DEF Stays, Federation!Exists
<1>11. FederationShapes'
  BY <1>1, <1>2, <1>9 DEF FederationShapes
<1> QED
  BY <1>2, <1>9, <1>10, <1>11, RowsKeep

LEMMA PasswordLoginKeeps ==
  ASSUME FederationInv, NEW u \in Person, Federation!PasswordLogin(u)
  PROVE  FederationInv'
<1> DEFINE login == [user |-> u, live |-> TRUE, via |-> "none", row |-> person[u].row, claim |-> person[u].row.version]
<1>1. FederationShapes
  BY DEF FederationInv
<1>2. /\ UNCHANGED <<work, person, link, hints, code, answers, asked, job, moved, claimed, honoured, promised, voided>>
      /\ Federation!Exists(u)
      /\ \E s \in Federation!Unused : logins' = [logins EXCEPT ![s] = login]
  BY DEF Federation!PasswordLogin, Federation!logouts
<1>3. PICK s \in Session : logins[s] = Federation!NoSession /\ logins' = [logins EXCEPT ![s] = login]
  BY <1>2, AnyOfIsIn DEF Federation!Unused
<1>4. person[u].row \in Federation!Row /\ person[u].row.version \in 0..MaxBumps
  BY <1>1 DEF FederationShapes, Federation!Row
<1>5. person[u].row.version \in -1..MaxBumps /\ person[u].row.version <= person[u].row.version
  BY <1>4, FederationAssumption
<1>6. login \in Logins
  BY <1>4, <1>5 DEF Logins
<1>7. login.user = u /\ login.live = TRUE /\ login.via = "none" /\ login.claim = person[u].row.version
  OBVIOUS
<1> HIDE DEF login
<1>8. logins' \in [Session -> Logins] /\ logins'[s] = login /\ \A t \in Session : t # s => logins'[t] = logins[t]
  BY <1>1, <1>3, <1>6 DEF FederationShapes
<1>9. FederationShapes'
  BY <1>1, <1>2, <1>8 DEF FederationShapes
<1>10. World /\ \A v \in Person : Stays(v) => Federation!Exists(v)
  BY <1>1, <1>2, WorldStands
<1>11. \A t \in Session : t # s => Agrees(t)
  BY <1>2, <1>8 DEF FederationInv, Sound, Agrees, Stays, Federation!Exists
<1>12. logins[s].user \notin Person
  BY <1>3, FederationAssumption DEF Federation!NoSession
<1>13. Sound(s)'
  BY <1>2, <1>5, <1>7, <1>8, FederationAssumption DEF Sound, Federation!Exists
<1>14. PromisesLast' /\ ClaimsCount' /\ LinksAreOfSomebody'
  BY <1>2, <1>9, <1>10, <1>11, <1>12, PromisesOn, ClaimsStay, LinksStay
<1>15. Federation!OneUserPerAddress'
  BY <1>10, NoBirths DEF Federation!Exists
<1> QED
  BY <1>2, <1>9, <1>10, <1>11, <1>12, <1>13, <1>14, <1>15, Onward

LEMMA UnlinkKeeps ==
  ASSUME FederationInv, NEW a \in Account, Federation!Unlink(a)
  PROVE  FederationInv'
<1>1. FederationShapes
  BY DEF FederationInv
<1>2. /\ UNCHANGED <<work, person, hints, logins, code, answers, asked, job, claimed, honoured, promised, voided>>
      /\ link' = [link EXCEPT ![a] = Nobody] /\ moved' = moved \cup {a}
  BY DEF Federation!Unlink, Federation!logouts
<1>3. FederationShapes'
  BY <1>1, <1>2 DEF FederationShapes
<1>4. /\ moved \subseteq moved'
      /\ \A b \in Account : link'[b] = link[b] \/ b \in moved' \/ ~Federation!Exists(link[b])
      /\ \A b \in Account : link'[b] = link[b] \/ link'[b] = Nobody
  BY <1>1, <1>2 DEF FederationShapes
<1>5. World /\ \A v \in Person : Stays(v) => Federation!Exists(v)
  BY <1>1, <1>2, <1>4, WorldStands
<1>6. \A s \in Session : Agrees(s)
  BY <1>2, SessionsStay
<1>7. PromisesLast' /\ ClaimsCount'
  BY <1>2, <1>3, <1>5, <1>6, PromisesOn, ClaimsStay
<1>8. LinksAreOfSomebody'
  BY <1>2, <1>4, FederationAssumption DEF FederationInv, LinksAreOfSomebody
<1>9. Federation!OneUserPerAddress'
  BY <1>5, NoBirths DEF Federation!Exists
<1> QED
  BY <1>2, <1>3, <1>5, <1>6, <1>7, <1>8, <1>9, Onward

LEMMA ToggleRedisKeeps ==
  ASSUME FederationInv, Federation!ToggleRedis
  PROVE  FederationInv'
<1>1. FederationShapes
  BY DEF FederationInv
<1>2. /\ UNCHANGED <<work, person, link, hints, logins, code, asked, job, moved, claimed, honoured, promised, voided>>
      /\ answers' \in BOOLEAN /\ "outage" \in work.extras
  BY <1>1 DEF Federation!ToggleRedis, Federation!rows, Federation!logouts, FederationShapes
<1>3. FederationShapes'
  BY <1>1, <1>2 DEF FederationShapes
<1>4. World /\ \A v \in Person : Stays(v) => Federation!Exists(v)
  BY <1>1, <1>2, WorldStands
<1>5. \A s \in Session : Agrees(s)
  BY <1>2, SessionsStay
<1>6. PromisesLast' /\ LinksAreOfSomebody'
  BY <1>2, <1>3, <1>4, <1>5, PromisesOn, LinksStay
<1>7. ClaimsCount'
  BY <1>2 DEF FederationInv, ClaimsCount
<1>8. Federation!OneUserPerAddress'
  BY <1>4, NoBirths DEF Federation!Exists
<1> QED
  BY <1>2, <1>3, <1>4, <1>5, <1>6, <1>7, <1>8, Onward

LEMMA NextFederation == FederationInv /\ Federation!Next => FederationInv'
<1> SUFFICES ASSUME FederationInv, Federation!Next PROVE FederationInv'
  OBVIOUS
<1>1. ASSUME NEW p \in Proc, Federation!Step(p) PROVE FederationInv'
  <2>1. CASE \E a \in Account : Federation!Callback(p, a) \/ Federation!Acs(p, a)
    BY <2>1, BeginningsKeep
  <2>2. CASE \E l \in Logout : Federation!Slo(p, l) \/ Federation!Bclo(p, l)
    BY <2>2, SloKeeps, BcloKeeps
  <2>3. CASE Federation!FindLink(p) \/ Federation!MatchMail(p) \/ Federation!Create(p) \/ Federation!Link(p)
    BY <2>3, FindLinkKeeps, MatchMailKeeps, CreateKeeps, LinkKeeps
  <2>4. CASE Federation!Gates(p) \/ Federation!Issue(p) \/ Federation!TenantShut(p)
    BY <2>4, GatesKeep, IssueKeeps
  <2>5. CASE Federation!Revoke(p) \/ Federation!Bump(p)
    BY <2>5, RevokeKeeps, BumpKeeps
  <2> QED
    BY <1>1, <2>1, <2>2, <2>3, <2>4, <2>5 DEF Federation!Step
<1>2. ASSUME Federation!Environment PROVE FederationInv'
  <2>1. CASE \E a \in Account : Federation!Authorize(a) \/ Federation!Unlink(a)
    BY <2>1, EnvironmentStill, UnlinkKeeps
  <2>2. CASE \E u \in Person : \/ Federation!LogOut(u) \/ Federation!PasswordLogin(u) \/ Federation!DeleteUser(u)
                               \/ Federation!Suspend(u) \/ Federation!SetTotp(u)
    BY <2>2, LogOutKeeps, PasswordLoginKeeps, DeleteUserKeeps, SuspendKeeps, SetTotpKeeps
  <2>3. CASE \/ \E w \in asked : Federation!TurnedBack(w)
             \/ \E c \in Code : Federation!Exchange(c)
             \/ \E p \in Proc : Federation!FailRequest(p)
    BY <2>3, EnvironmentStill
  <2>4. CASE Federation!ToggleRedis
    BY <2>4, ToggleRedisKeeps
  <2> QED
    BY <1>2, <2>1, <2>2, <2>3, <2>4 DEF Federation!Environment
<1> QED
  BY <1>1, <1>2 DEF Federation!Next

\* A part of the run that is not running is as it began.
LEMMA HouseFederation ==
  ASSUME FederationInv, [HouseNext]_<<part, vars, federation>>
  PROVE  FederationInv'
<1>1. CASE Federation!Next
  BY <1>1, NextFederation
<1>2. CASE UNCHANGED federation
  <2>1. UNCHANGED <<work, person, link, hints, logins, code, answers, asked, claimed, job, quiet, moved, promised, voided, honoured>>
    BY <1>2 DEF federation
  <2>2. FederationShapes'
    BY <2>1 DEF FederationInv, FederationShapes
  <2> QED
    BY <2>1, <2>2, Still
<1> QED
  BY <1>1, <1>2 DEF HouseNext

LEMMA FederationHolds == HouseSpec => []FederationInv
<1>1. HouseInit => FederationInv
  BY InitFederation DEF HouseInit
<1>2. FederationInv /\ [HouseNext]_<<part, vars, federation>> => FederationInv'
  BY HouseFederation
<1> QED
  BY <1>1, <1>2, PTL DEF HouseSpec

\* Two users never have the same address, whatever callbacks race; and whoever has, or must
\* have, a second factor gets no tokens by a provider's word.
THEOREM LoginsHold == HouseSpec => []LoginsAreSound
BY FederationHolds, FederationImplies, PTL

\* Sessions a provider was told are over are over and stay over, and every logout request is
\* honoured as often as it is claimed: once, and once in each process besides in an outage.
THEOREM LogoutsEnd == HouseSpec => []LogoutsHold
BY FederationHolds, FederationImplies, PTL

\* Where a request is when it takes a step.
LEMMA WhereItIs ==
  ASSUME NEW p \in Proc
  PROVE  /\ \A a \in Account : Federation!Callback(p, a) \/ Federation!Acs(p, a) => job[p].at = "idle"
         /\ \A l \in Logout : Federation!Slo(p, l) \/ Federation!Bclo(p, l) => job[p].at = "idle"
         /\ Federation!FindLink(p) => job[p].at = "find"
         /\ Federation!MatchMail(p) => job[p].at = "mail"
         /\ Federation!Create(p) => job[p].at = "create"
         /\ Federation!Link(p) => job[p].at = "link"
         /\ Federation!Gates(p) => job[p].at = "gates"
         /\ Federation!Issue(p) \/ Federation!TenantShut(p) => job[p].at = "issue"
         /\ Federation!Revoke(p) => job[p].at = "revoke"
         /\ Federation!Bump(p) => job[p].at = "bump"
<1>1. \A a \in Account : Federation!Callback(p, a) \/ Federation!Acs(p, a) => job[p].at = "idle"
  BY DEF Federation!Callback, Federation!Acs, Federation!Begin, Federation!At
<1>2. \A l \in Logout : Federation!Slo(p, l) \/ Federation!Bclo(p, l) => job[p].at = "idle"
  BY DEF Federation!Slo, Federation!Bclo, Federation!At
<1>3. Federation!FindLink(p) => job[p].at = "find"
  BY DEF Federation!FindLink, Federation!At
<1>4. Federation!MatchMail(p) => job[p].at = "mail"
  BY DEF Federation!MatchMail, Federation!At
<1>5. Federation!Create(p) => job[p].at = "create"
  BY DEF Federation!Create, Federation!At
<1>6. Federation!Link(p) => job[p].at = "link"
  BY DEF Federation!Link, Federation!At
<1>7. Federation!Gates(p) => job[p].at = "gates"
  BY DEF Federation!Gates, Federation!At
<1>8. Federation!Issue(p) \/ Federation!TenantShut(p) => job[p].at = "issue"
  BY DEF Federation!Issue, Federation!TenantShut, Federation!At
<1>9. Federation!Revoke(p) => job[p].at = "revoke"
  BY DEF Federation!Revoke, Federation!At
<1>10. Federation!Bump(p) => job[p].at = "bump"
  BY DEF Federation!Bump, Federation!At
<1> QED
  BY <1>1, <1>2, <1>3, <1>4, <1>5, <1>6, <1>7, <1>8, <1>9, <1>10

\* Where it is then, when that matters; the step of a born user's request is the hard one: the
\* link it is about to write is not already somebody's.
LEMMA FreshStep ==
  ASSUME FederationInv, NEW p \in Proc, Federation!Step(p), job[p].at = "idle" \/ Fresh(p)
  PROVE  Fresh(p)'
<1>1. FederationShapes
  BY DEF FederationInv
<1>2. ASSUME job'[p].at \notin {"mail", "create", "link"} PROVE Fresh(p)'
  BY <1>2 DEF Fresh
<1>3. CASE \E a \in Account : Federation!Callback(p, a) \/ Federation!Acs(p, a)
  <2>1. PICK a \in Account : \/ Federation!Begin(p, a, "find")
                             \/ Kind[a] = "saml" /\ Federation!Begin(p, a, "mail")
    BY <1>3 DEF Federation!Callback, Federation!Acs
  <2>2. job'[p].at = "find" \/ (job'[p].at = "mail" /\ job'[p].acct = a /\ Kind[a] = "saml")
    BY <2>1, Begins DEF SigningIn
  <2> QED
    BY <2>2 DEF Fresh
<1>4. CASE Federation!FindLink(p)
  <2> DEFINE a == job[p].acct
  <2>1. CASE Federation!Exists(link[a])
    <3>1. PICK w \in {"link", "gates"} : /\ Federation!Knows(p, link[a], w)
                                         /\ w = "link" => Kind[a] = "generic"
      BY <1>4, <2>1 DEF Federation!FindLink
    <3>2. link[a] \in Person /\ person[link[a]].row \in Federation!Row
      BY <1>1, <2>1 DEF FederationShapes, Federation!Exists
    <3>3. Learning(p, w, link[a], person[link[a]].row)
      BY <3>1 DEF Federation!Knows, Learning
    <3>4. job'[p].at = w /\ job'[p].acct = a
      BY <1>1, <3>2, <3>3, Learns, SMTT(60) DEF SigningIn
    <3> QED
      BY <3>1, <3>4 DEF Fresh
  <2>2. CASE ~Federation!Exists(link[a])
    <3>1. Federation!Goto(p, "mail") /\ UNCHANGED <<person, link>>
      BY <1>4, <2>2 DEF Federation!FindLink, Federation!rows
    <3>2. job'[p].at = "mail" /\ job'[p].acct = a
      BY <1>1, <3>1, GoesTo DEF SigningIn
    <3> QED
      BY <2>2, <3>1, <3>2 DEF Fresh, Federation!Exists
  <2> QED
    BY <2>1, <2>2
<1>5. CASE Federation!MatchMail(p)
  <2> DEFINE a == job[p].acct
  <2>1. /\ UNCHANGED <<person, link>>
        /\ Kind[a] = "builtin" => ~Federation!Exists(link[a])
    BY <1>5, WhereItIs DEF Federation!MatchMail, Federation!rows, Fresh
  <2>2. CASE Federation!WithMail(job[p].mail) = {} /\ Federation!Goto(p, "create")
    <3>1. job'[p].at = "create" /\ job'[p].acct = a /\ job'[p].mail = job[p].mail
      BY <1>1, <2>2, GoesTo DEF SigningIn
    <3>2. Federation!WithMail(job[p].mail)' = {}
      BY <2>1, <2>2, <3>1 DEF Federation!WithMail, Federation!Exists
    <3> QED
      BY <2>1, <3>1, <3>2 DEF Fresh, Federation!Exists
  <2>3. CASE Federation!Reply(p)
    BY <1>1, <1>2, <2>3, Answered
  <2>4. ASSUME NEW u \in Federation!WithMail(job[p].mail), Federation!Knows(p, u, "link") PROVE Fresh(p)'
    <3>1. u \in Person /\ person[u].row \in Federation!Row
      BY <1>1 DEF Federation!WithMail, FederationShapes
    <3>2. Learning(p, "link", u, person[u].row)
      BY <2>4 DEF Federation!Knows, Learning
    <3>3. job'[p].at = "link" /\ job'[p].acct = a
      BY <1>1, <3>1, <3>2, Learns DEF SigningIn
    <3> QED
      BY <2>1, <3>3 DEF Fresh, Federation!Exists
  <2> QED
    BY <1>5, <2>2, <2>3, <2>4 DEF Federation!MatchMail
<1>6. CASE Federation!Create(p)
  <2> DEFINE a == job[p].acct
             m == Federation!NewMail(job[p])
  <2>1. CASE Federation!Reply(p)
    BY <1>1, <1>2, <2>1, Answered
  <2>2. CASE \E u \in Federation!AnyOf({u \in Person : person[u].row.status = "absent"}) :
               /\ person' = [person EXCEPT ![u] = [row |-> Born, mail |-> m]]
               /\ Learning(p, "link", u, Born)
    <3>1. PICK u \in Person : /\ person[u].row.status = "absent"
                              /\ person' = [person EXCEPT ![u] = [row |-> Born, mail |-> m]]
                              /\ Learning(p, "link", u, Born)
      BY <2>2, AnyOfIsIn
    <3>2. job'[p].at = "link" /\ job'[p].acct = a
      BY <1>1, <3>1, BornFacts, Learns DEF SigningIn
    <3>3. link' = link
      BY <1>6 DEF Federation!Create
    <3>4. job[p].at = "create" /\ Carries(p) /\ a \in Account
      BY <1>6, WhereItIs DEF FederationInv, Carries
    <3>5. Kind[a] = "builtin" => ~Federation!Exists(link[a]) /\ link[a] # u
      BY <3>1, <3>4 DEF Fresh, FederationInv, LinksAreOfSomebody
    <3>6. Kind[a] = "builtin" => ~Stays(link[a])
      BY <1>1, <3>1, <3>5 DEF Stays, Federation!Exists, FederationShapes
    <3> QED
      BY <3>2, <3>3, <3>6 DEF Fresh, Stays, Federation!Exists
  <2> QED
    BY <1>6, <2>1, <2>2 DEF Federation!Create, Born, Learning
<1>7. CASE Federation!Link(p)
  BY <1>1, <1>2, <1>7, Answered, GoesTo DEF Federation!Link, SigningIn
<1>8. CASE Federation!Gates(p)
  BY <1>1, <1>2, <1>8, Answered, GoesTo DEF Federation!Gates, SigningIn
<1>9. CASE Federation!Issue(p) \/ Federation!TenantShut(p)
  BY <1>1, <1>2, <1>9, Answered DEF Federation!Issue, Federation!TenantShut
<1>10. CASE \E l \in Logout : Federation!Slo(p, l) \/ Federation!Bclo(p, l)
  <2>1. job[p].at = "idle"
    BY <1>10, WhereItIs
  <2>2. job' = job \/ job'[p].at = "revoke"
    <3>1. ASSUME NEW l \in Logout, Federation!Slo(p, l) PROVE job' = job \/ job'[p].at = "revoke"
      <4> DEFINE us == Federation!WithMail(NameId[About[l]])
                 u == IF us = {} THEN Nobody ELSE CHOOSE x \in us : TRUE
                 D == Federation!Expected(About[l]) \cup UNION {Federation!SessionsOf(x) : x \in us}
      <4>1. job' = job \/ Ending(p, About[l], l, u, D)
        BY <3>1 DEF Federation!Slo, Federation!EndSessions, Ending
      <4>2. us \subseteq Person
        BY DEF Federation!WithMail
      <4>3. u \in Person \cup {Nobody} /\ About[l] \in Account
        BY <4>2, FederationAssumption
      <4> HIDE DEF u, D
      <4> QED
        BY <1>1, <4>1, <4>3, EndingFacts
    <3>2. ASSUME NEW l \in Logout, Federation!Bclo(p, l) PROVE job' = job \/ job'[p].at = "revoke"
      <4> DEFINE a == About[l]
                 D == Federation!Expected(a) \cup UNION {Federation!SessionsOf(x) : x \in {link[a]}}
      <4>1. (IF {link[a]} = {} THEN Nobody ELSE CHOOSE x \in {link[a]} : TRUE) = link[a]
        OBVIOUS
      <4>2. job' = job \/ Ending(p, a, l, link[a], D)
        BY <3>2, <4>1 DEF Federation!Bclo, Federation!EndSessions, Ending
      <4>3. a \in Account /\ link[a] \in Person \cup {Nobody}
        BY <1>1, FederationAssumption DEF FederationShapes
      <4> HIDE DEF D
      <4> QED
        BY <1>1, <4>2, <4>3, EndingFacts
    <3> QED
      BY <1>10, <3>1, <3>2
  <2> QED
    BY <1>2, <2>1, <2>2
<1>11. CASE Federation!Revoke(p)
  BY <1>1, <1>2, <1>11, Answered, GoesTo DEF Federation!Revoke, Federation!Told
<1>12. CASE Federation!Bump(p)
  BY <1>1, <1>2, <1>12, Answered DEF Federation!Bump, Federation!Told
<1> QED
  BY <1>3, <1>4, <1>5, <1>6, <1>7, <1>8, <1>9, <1>10, <1>11, <1>12 DEF Federation!Step

LEMMA HouseFresh ==
  ASSUME FederationInv, QuietMeansFresh, [HouseNext]_<<part, vars, federation>>
  PROVE  QuietMeansFresh' /\ [Federation!RefusalsHaveAReason]_<<vars, federation>>
<1>1. CASE UNCHANGED federation
  <2>1. UNCHANGED <<person, link, job, quiet>>
    BY <1>1 DEF federation
  <2>2. QuietMeansFresh'
    BY <2>1 DEF QuietMeansFresh, Fresh, Federation!WithMail, Federation!Exists
  <2>3. Federation!RefusalsHaveAReason
    BY <2>1 DEF Federation!RefusalsHaveAReason
  <2> QED
    BY <2>2, <2>3
<1>2. CASE Federation!Environment /\ quiet' = [q \in Proc |-> FALSE]
  BY <1>2 DEF QuietMeansFresh, Federation!RefusalsHaveAReason
<1>3. ASSUME NEW p \in Proc, Federation!Step(p),
             quiet' = [q \in Proc |-> q = p /\ (Federation!At(p, "idle") \/ quiet[p])]
      PROVE  QuietMeansFresh' /\ Federation!RefusalsHaveAReason
  <2>1. \A q \in Proc : quiet'[q] => q = p /\ (job[p].at = "idle" \/ Fresh(p))
    BY <1>3 DEF QuietMeansFresh, Federation!At
  <2>2. QuietMeansFresh'
    BY <1>3, <2>1, FreshStep DEF QuietMeansFresh
  <2>3. FederationShapes
    BY DEF FederationInv
  <2>4. ASSUME job[p].at \in {"create", "link"}, Fresh(p), job'[p].at = "idle"
        PROVE  \/ /\ Kind[job[p].acct] = "builtin" /\ link[job[p].acct] # Nobody
                  /\ ~Federation!Exists(link[job[p].acct])
               \/ job[p].mail = NoMail
    <3>1. CASE Federation!Create(p)
      <4>1. ~Federation!Free(Federation!NewMail(job[p]))
        <5>1. ASSUME \E u \in Federation!AnyOf({u \in Person : person[u].row.status = "absent"}) : Learning(p, "link", u, Born)
              PROVE  FALSE
          <6>1. PICK u \in Person : Learning(p, "link", u, Born)
            BY <5>1, AnyOfIsIn
          <6>2. job'[p].at = "link"
            BY <2>3, <6>1, BornFacts, Learns DEF SigningIn
          <6> QED
            BY <2>4, <6>2
        <5> QED
          BY <3>1, <5>1 DEF Federation!Create, Born, Learning
      <4>2. job[p].at = "create"
        BY <3>1, WhereItIs
      <4> QED
        BY <2>4, <4>1, <4>2 DEF Fresh, Federation!Free, Federation!NewMail
    <3>2. CASE Federation!Link(p)
      <4>1. ~Federation!Goto(p, "gates")
        BY <2>3, <2>4, GoesTo DEF SigningIn
      <4> QED
        BY <2>4, <3>2, <4>1 DEF Federation!Link, Federation!Linkable, Fresh
    <3> QED
      BY <1>3, <2>4, <3>1, <3>2, WhereItIs DEF Federation!Step
  <2> QED
    BY <2>1, <2>2, <2>4 DEF Federation!RefusalsHaveAReason
<1> QED
  BY <1>1, <1>2, <1>3 DEF HouseNext, Federation!Next

\* A callback that nothing disturbs is refused only for a link to a user who is gone, which a
\* provider that is built in does not overwrite, or for a made-up address that is taken.
THEOREM RefusalsHold == HouseSpec => RefusalsAreExplained
<1>1. HouseInit => QuietMeansFresh
  BY DEF HouseInit, Federation!Init, QuietMeansFresh
<1>2. FederationInv /\ QuietMeansFresh /\ [HouseNext]_<<part, vars, federation>> =>
        QuietMeansFresh' /\ [Federation!RefusalsHaveAReason]_<<vars, federation>>
  BY HouseFresh
<1> QED
  BY <1>1, <1>2, FederationHolds, PTL DEF HouseSpec, RefusalsAreExplained
=============================================================================
