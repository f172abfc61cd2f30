----------------------------- MODULE AuthState -----------------------------
(***************************************************************************)
(* Revocation of bearer tokens, for one user (users never meet: every      *)
(* statement and every Redis key is per user).  A mutation of the user's   *)
(* authorization bumps users.token_version and deletes the Redis entry     *)
(* authst:<id>, inside a transaction its caller may still have to commit.  *)
(* The authenticate decorator compares the version a token was signed with *)
(* against the entry, which it fills from the database for Ttl on a miss.  *)
(* All processes share Redis.                                              *)
(*                                                                         *)
(* A version stands for the pair of token_version and status; the status   *)
(* never changes without a bump.                                           *)
(***************************************************************************)
EXTENDS Integers

CONSTANTS
  Req,         \* authenticated requests being served
  Writer,      \* mutations being served
  Ttl,         \* TTL_SECONDS
  Latency,     \* longest time a request is in the decorator
  MaxVersion,  \* bound on the bumps, for model checking
  Outages      \* may Redis and database commands fail?

ASSUME ConstAssumption ==
  /\ Ttl \in Nat \ {0} /\ Latency \in Nat /\ MaxVersion \in Nat /\ Outages \in BOOLEAN

VARIABLES
  version,  \* the committed version
  stale,    \* time since each version was superseded, up to Horizon + 1
  entry,    \* the Redis entry: a version and its remaining life; 0 is "absent"
  wpc,      \* a mutation's next step
  pc, claim, seen, since,  \* a request's next step, token, what it read, its age
  verdict   \* its answer

reqVars == <<pc, claim, seen, since, verdict>>
vars    == <<version, stale, entry, wpc, reqVars>>

Version == 0..MaxVersion
Horizon == Ttl + Latency

Entry == [version: Version, life: 0..Ttl]

Init ==
  /\ version = 0
  /\ stale = [v \in Version |-> 0]
  /\ entry = [version |-> 0, life |-> 0]
  /\ wpc = [w \in Writer |-> "idle"]
  /\ pc = [r \in Req |-> "idle"]
  /\ claim = [r \in Req |-> 0]
  /\ seen = [r \in Req |-> 0]
  /\ since = [r \in Req |-> 0]
  /\ verdict = [r \in Req |-> "none"]

-----------------------------------------------------------------------------
(* bumpAuthState, on the caller's handle *)

\* The UPDATE; the row lock keeps other writers out until the COMMIT.
Bump(w) ==
  /\ wpc[w] = "idle" /\ version < MaxVersion
  /\ \A x \in Writer : wpc[x] \in {"idle", "lateDel"}
  /\ wpc' = [wpc EXCEPT ![w] = "del"]
  /\ UNCHANGED <<version, stale, entry, reqVars>>

\* The best-effort DEL of delAuthState; without a connection it is skipped.
Drop == entry' = [entry EXCEPT !.life = 0]

DelInTransaction(w) ==
  /\ wpc[w] = "del"
  /\ wpc' = [wpc EXCEPT ![w] = "commit"]
  /\ Drop \/ (Outages /\ UNCHANGED entry)
  /\ UNCHANGED <<version, stale, reqVars>>

Commit(w, from, to) ==
  /\ wpc[w] = from
  /\ wpc' = [wpc EXCEPT ![w] = to]
  /\ version' = version + 1
  /\ UNCHANGED <<stale, entry, reqVars>>

\* A bump without a transaction commits by itself; its DEL comes after.
LateDel(w) ==
  /\ wpc[w] = "lateDel"
  /\ wpc' = [wpc EXCEPT ![w] = "idle"]
  /\ Drop \/ (Outages /\ UNCHANGED entry)
  /\ UNCHANGED <<version, stale, reqVars>>

Rollback(w) ==
  /\ wpc[w] \in {"del", "commit"}
  /\ wpc' = [wpc EXCEPT ![w] = "idle"]
  /\ UNCHANGED <<version, stale, entry, reqVars>>

-----------------------------------------------------------------------------
(* authenticate and getAuthState *)

\* A request arrives with a token signed for any version so far.
Arrive(r, v) ==
  /\ pc[r] = "idle" /\ v <= version
  /\ pc' = [pc EXCEPT ![r] = "get"]
  /\ claim' = [claim EXCEPT ![r] = v]
  /\ since' = [since EXCEPT ![r] = 0]
  /\ verdict' = [verdict EXCEPT ![r] = "none"]
  /\ UNCHANGED <<version, stale, entry, wpc, seen>>

Answer(r, v) ==   \* the comparison; v is what the decorator has read
  /\ pc' = [pc EXCEPT ![r] = "idle"]
  /\ since' = [since EXCEPT ![r] = 0]
  /\ verdict' = [verdict EXCEPT ![r] = IF v = claim[r] THEN "accepted" ELSE "rejected"]

\* Faulty variant: a hit renews the entry's life.
GetSliding(r) ==
  /\ pc[r] = "get"
  /\ \/ entry.life > 0 /\ Answer(r, entry.version) /\ entry' = [entry EXCEPT !.life = Ttl]
     \/ entry.life = 0 /\ pc' = [pc EXCEPT ![r] = "read"] /\ UNCHANGED <<since, verdict, entry>>
  /\ UNCHANGED <<version, stale, wpc, claim, seen>>

\* GET: a hit is compared at once, a miss goes to the database, and an error
\* goes there too without filling the entry afterwards.
Get(r) ==
  /\ pc[r] = "get"
  /\ \/ entry.life > 0 /\ Answer(r, entry.version)
     \/ entry.life = 0 /\ pc' = [pc EXCEPT ![r] = "read"] /\ UNCHANGED <<since, verdict>>
     \/ Outages /\ pc' = [pc EXCEPT ![r] = "readOnly"] /\ UNCHANGED <<since, verdict>>
  /\ UNCHANGED <<version, stale, entry, wpc, claim, seen>>

ReadDb(r) ==
  /\ pc[r] = "read"
  /\ seen' = [seen EXCEPT ![r] = version]
  /\ pc' = [pc EXCEPT ![r] = "set"]
  /\ UNCHANGED <<version, stale, entry, wpc, claim, since, verdict>>

ReadDbOnly(r) ==
  /\ pc[r] = "readOnly"
  /\ Answer(r, version)
  /\ UNCHANGED <<version, stale, entry, wpc, claim, seen>>

\* No Redis client, an unreadable database or a deleted user: no check.
Skip(r) ==
  /\ Outages /\ pc[r] \in {"get", "read", "readOnly"}
  /\ pc' = [pc EXCEPT ![r] = "idle"]
  /\ since' = [since EXCEPT ![r] = 0]
  /\ verdict' = [verdict EXCEPT ![r] = "unchecked"]
  /\ UNCHANGED <<version, stale, entry, wpc, claim, seen>>

Filled(r) == entry' = [version |-> seen[r], life |-> Ttl]

\* SET ... EX, then the comparison.
Set(r) ==
  /\ pc[r] = "set"
  /\ Filled(r) \/ (Outages /\ UNCHANGED entry)
  /\ Answer(r, seen[r])
  /\ UNCHANGED <<version, stale, wpc, claim, seen>>

Tick ==
  /\ \A r \in Req : pc[r] # "idle" => since[r] < Latency
  /\ since' = [r \in Req |-> IF pc[r] = "idle" THEN 0 ELSE since[r] + 1]
  /\ stale' = [v \in Version |-> IF v < version /\ stale[v] <= Horizon THEN stale[v] + 1 ELSE stale[v]]
  /\ entry' = [entry EXCEPT !.life = IF @ > 0 THEN @ - 1 ELSE 0]
  /\ UNCHANGED <<version, wpc, pc, claim, seen, verdict>>

Authenticate(r) ==
  \/ \E v \in Version : Arrive(r, v)
  \/ Get(r) \/ ReadDb(r) \/ ReadDbOnly(r) \/ Skip(r) \/ Set(r)

Mutate(w) ==
  \/ Bump(w) \/ DelInTransaction(w)
  \/ Commit(w, "commit", "idle")      \* the caller's transaction
  \/ Commit(w, "del", "lateDel")      \* no transaction
  \/ LateDel(w) \/ Rollback(w)

Next == (\E r \in Req : Authenticate(r)) \/ (\E w \in Writer : Mutate(w)) \/ Tick

Spec == Init /\ [][Next]_vars
-----------------------------------------------------------------------------
(* Properties *)

\* Shapes; what the entry and the requests hold has been committed.
TypeOK ==
  /\ version \in Version
  /\ stale \in [Version -> 0..Horizon + 1]
  /\ entry \in Entry /\ entry.version <= version
  /\ wpc \in [Writer -> {"idle", "del", "commit", "lateDel"}]
  /\ pc \in [Req -> {"idle", "get", "read", "readOnly", "set"}]
  /\ claim \in [Req -> Version] /\ seen \in [Req -> Version]
  /\ \A r \in Req : claim[r] <= version /\ seen[r] <= version
  /\ since \in [Req -> 0..Latency]
  /\ verdict \in [Req -> {"none", "accepted", "rejected", "unchecked"}]

Answers(r, v) == pc[r] # "idle" /\ pc'[r] = "idle" /\ verdict'[r] = v

\* A revoked token is accepted, when it is checked at all, no longer than the
\* life of the entry plus the latency of one request after the revocation
\* committed, whatever reads, fills, deletions and commits overlap.
RevokedInTime ==
  [][\A r \in Req : Answers(r, "accepted") => claim[r] = version \/ stale[claim[r]] <= Horizon]_vars

\* A token of the current version is refused only that long after a change.
RefusedOnlyAfterChange ==
  [][\A r \in Req : Answers(r, "rejected") /\ claim[r] = version
       => version > 0 /\ stale[version - 1] <= Horizon]_vars

\* The inductive invariant behind both: one writer holds the row's lock ...
RowLock ==
  \A w \in Writer : wpc[w] \in {"del", "commit"} =>
    version < MaxVersion /\ \A x \in Writer \ {w} : wpc[x] \notin {"del", "commit"}

\* ... and the entry, and a version about to be filled in, were current when
\* they were read.
EntryAge ==
  /\ entry.life > 0 /\ entry.version < version => stale[entry.version] + entry.life <= Horizon
  /\ \A r \in Req : pc[r] = "set" /\ seen[r] < version => stale[seen[r]] <= since[r]
  /\ \A v \in Version : v >= version => stale[v] = 0
  /\ \A u, v \in 0..version : u < v => stale[v] <= stale[u]
=============================================================================
