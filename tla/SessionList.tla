---------------------------- MODULE SessionList ----------------------------
(***************************************************************************)
(* The list of a user's sessions that the console shows.  SessionManager   *)
(* answers it from Redis when it can, from the table otherwise, and keeps  *)
(* what the table said for an hour; its writers delete the kept list after *)
(* their statement.  Only the manager of the /auth routes is built with a  *)
(* Redis client: the others change the table and leave the list alone.     *)
(* Redis commands fail softly, and a process may stop between two steps.   *)
(*                                                                         *)
(* One user, in a tenant that can be suspended.  A row that a rotation has *)
(* used stays listed: the query asks for revoked_at and expires_at alone.  *)
(***************************************************************************)
EXTENDS Integers, FiniteSets

CONSTANTS
  Session,
  Caller,    \* requests at work at the same time
  Life,      \* EX: how long Redis keeps a list
  Delay      \* bound: the time between two steps of a request

VARIABLES
  session,   \* the table sessions: "none", "live", "revoked", "expired"
  kept,      \* the list in Redis and what is left of its life
  call,      \* the requests
  gone,      \* history: time since a session stopped being live
  astray     \* history: sessions of which the kept list may be wrong, and nobody will say so

vars == <<session, kept, call, gone, astray>>

Idle == [at |-> "idle", set |-> {}, age |-> 0]   \* a request of no one
Longest == Life + Delay + 1
Listed == {s \in Session : session[s] = "live"}
Nothing == [list |-> {}, life |-> 0]

\* Sessions that two lists tell apart.
Differ(S, T) == (S \ T) \cup (T \ S)

TypeOK ==
  /\ session \in [Session -> {"none", "live", "revoked", "expired"}]
  /\ kept.list \subseteq Session /\ kept.life \in 0..Life
  /\ \A c \in Caller : /\ call[c].at \in {"idle", "missed", "read", "told", "del", "commit"}
                       /\ call[c].set \subseteq Session /\ call[c].age \in 0..Delay
  /\ gone \in [Session -> 0..Longest] /\ astray \subseteq Session

Init ==
  /\ \E n \in {{}} \cup {{s} : s \in Session} : session = [s \in Session |-> IF s \in n THEN "none" ELSE "live"]
  /\ kept = Nothing /\ call = [c \in Caller |-> Idle]
  /\ gone = [s \in Session |-> 0] /\ astray = {}

Go(c, at, S) == call' = [call EXCEPT ![c] = [at |-> at, set |-> S, age |-> 0]]
Done(c) == call' = [call EXCEPT ![c] = Idle]

-----------------------------------------------------------------------------
(* GET /sessions: read-through *)

\* The list is in Redis, or it is not, or Redis does not answer.
Ask(c) ==
  /\ call[c].at = "idle"
  /\ \/ kept.life > 0 /\ Go(c, "told", kept.list)
     \/ Go(c, "missed", {})
  /\ UNCHANGED <<session, kept, gone, astray>>

Select(c) ==
  /\ call[c].at = "missed"
  /\ Go(c, "read", Listed)
  /\ UNCHANGED <<session, kept, gone, astray>>

\* Faulty variant: SET without an expiry, which outlives any bound.
StoreForGood(c) ==
  /\ call[c].at = "read"
  /\ kept' \in {[list |-> call[c].set, life |-> Longest + Life], kept}
  /\ Go(c, "told", call[c].set)
  /\ UNCHANGED <<session, gone, astray>>

\* cacheSetList; the command may fail.
Store(c) ==
  /\ call[c].at = "read"
  /\ kept' \in {[list |-> call[c].set, life |-> Life], kept}
  /\ Go(c, "told", call[c].set)
  /\ UNCHANGED <<session, gone, astray>>

\* The answer arrives.
Read(c) ==
  /\ call[c].at = "told"
  /\ Done(c) /\ UNCHANGED <<session, kept, gone, astray>>

-----------------------------------------------------------------------------
(* The writers *)

\* What lists in the making have wrong about S; nobody corrects them once they are kept.
InTheMaking(S) ==
  UNION {Differ(call[c].set, Listed) \cap S : c \in {d \in Caller : call[d].at = "read"}}

Revoke(S) == session' = [s \in Session |-> IF s \in S \cap Listed THEN "revoked" ELSE session[s]]

\* Faulty variant: one session is revoked without a word to Redis.
RevokeQuietly(c, S) ==
  /\ call[c].at = "idle"
  /\ Revoke(S)
  /\ IF Cardinality(S) > 1 THEN Go(c, "del", S) ELSE Done(c)
  /\ UNCHANGED <<kept, gone, astray>>

\* The /auth routes: /logout and /sessions/revoke revoke one session, revoke-others all but
\* one, a password change and a replayed token all of them.
RevokeAtHome(c, S) ==
  /\ call[c].at = "idle"
  /\ Revoke(S)
  /\ Go(c, "del", S)
  /\ UNCHANGED <<kept, gone, astray>>

\* A successful rotation adds a row.
Rotate(c, s) ==
  /\ call[c].at = "idle" /\ session[s] = "none" /\ Listed # {}
  /\ session' = [session EXCEPT ![s] = "live"]
  /\ Go(c, "del", {s})
  /\ UNCHANGED <<kept, gone, astray>>

\* cacheInvalidateUser: the command may fail, and a single session's user may not be found.
Forget(c) ==
  /\ call[c].at = "del"
  /\ \/ kept' = Nothing /\ astray' = astray \cup InTheMaking(call[c].set)
     \/ kept' = kept    /\ astray' = astray \cup call[c].set
  /\ Done(c)
  /\ UNCHANGED <<session, gone>>

\* Administrators, SCIM, a SAML or back-channel logout: managers without a Redis client.
RevokeAway ==
  /\ Revoke(Session)
  /\ astray' = astray \cup Listed
  /\ UNCHANGED <<kept, call, gone>>

\* Any login: the new row is announced by no manager.
Issue(s) ==
  /\ session[s] = "none"
  /\ session' = [session EXCEPT ![s] = "live"]
  /\ astray' = astray \cup {s}
  /\ UNCHANGED <<kept, call, gone>>

\* A tenant is suspended: the list is deleted before the transaction commits.
SuspendFirst(c) ==
  /\ call[c].at = "idle"
  /\ kept' \in {Nothing, kept}
  /\ Go(c, "commit", Session)
  /\ UNCHANGED <<session, gone, astray>>

\* What was kept or read since then is wrong.
SuspendLast(c) ==
  /\ call[c].at = "commit"
  /\ Revoke(Session)
  /\ astray' = astray \cup (Listed \cap (kept.list \cup UNION {call[d].set : d \in {e \in Caller : call[e].at = "read"}}))
  /\ Done(c)
  /\ UNCHANGED <<kept, gone>>

-----------------------------------------------------------------------------
\* A process stops; what it was going to delete stays.
Crash(c) ==
  /\ call[c].at \in {"missed", "read", "del", "commit"}
  /\ astray' = IF call[c].at = "del" THEN astray \cup call[c].set ELSE astray
  /\ Done(c)
  /\ UNCHANGED <<session, kept, gone>>

\* expires_at passes.
Expire(s) ==
  /\ session[s] = "live"
  /\ session' = [session EXCEPT ![s] = "expired"]
  /\ astray' = astray \cup {s}
  /\ UNCHANGED <<kept, call, gone>>

Tick ==
  /\ \A c \in Caller : call[c].at # "idle" => call[c].age < Delay
  /\ call' = [c \in Caller |-> IF call[c].at = "idle" THEN Idle ELSE [call[c] EXCEPT !.age = @ + 1]]
  /\ kept' = IF kept.life > 1 THEN [kept EXCEPT !.life = @ - 1] ELSE Nothing
  /\ gone' = [s \in Session |-> IF session[s] \in {"revoked", "expired"} /\ gone[s] < Longest THEN gone[s] + 1 ELSE gone[s]]
  /\ UNCHANGED <<session, astray>>

Next ==
  \/ \E c \in Caller : \/ Ask(c) \/ Select(c) \/ Store(c) \/ Read(c) \/ Forget(c)
                       \/ SuspendFirst(c) \/ SuspendLast(c) \/ Crash(c)
                       \/ \E s \in Session : RevokeAtHome(c, {s}) \/ RevokeAtHome(c, Session \ {s}) \/ Rotate(c, s)
                       \/ RevokeAtHome(c, Session)
  \/ RevokeAway \/ \E s \in Session : Issue(s) \/ Expire(s)
  \/ Tick

Spec == Init /\ [][Next]_vars

-----------------------------------------------------------------------------
\* The list in Redis is the table's, but for sessions whose deletion is still to come or that
\* are astray: changed by a manager without Redis, by a login or by time, by a writer whose
\* DEL got lost, or under the eyes of a reader that stored what it had read before.  What a
\* user does in Settings, with Redis at hand, shows at once.
WhatIsKeptIsTrue ==
  kept.life > 0 =>
    Differ(kept.list, Listed) \subseteq astray \cup UNION {call[c].set : c \in {d \in Caller : call[d].at = "del"}}

\* A session that has ended is gone from every answer after an hour, and the time a slow
\* reader may take: no lost deletion haunts the list (SessionManager.ts:64).  An answer that
\* is on its way has its own age.
GhostsFade ==
  \A c \in Caller : call[c].at = "told" => \A s \in call[c].set : gone[s] <= Life + Delay + call[c].age

\* The list a user is shown is true, or soon is.
ListsAreTrue == TypeOK /\ WhatIsKeptIsTrue /\ GhostsFade
=============================================================================
