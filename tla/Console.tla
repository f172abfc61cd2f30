------------------------------ MODULE Console ------------------------------
(***************************************************************************)
(* The session a browser holds for the admin console: the store of every   *)
(* window (stores/auth.ts), the copy zustand persists in localStorage and  *)
(* only a page load reads back, the HTTP client's interceptors             *)
(* (api/client.ts) with their one refresh at a time, and the doors that    *)
(* put a session into the store.  JavaScript runs to completion between    *)
(* awaits, so an action is what runs from an answer to the next await.     *)
(*                                                                         *)
(* A token pair is <<login, rotation>>.  The server's side of a rotation   *)
(* is SessionManager's, reduced to the state of each refresh token; the    *)
(* table itself is the module RefreshTokens.                               *)
(***************************************************************************)
EXTENDS Integers, FiniteSets

CONSTANTS
  Window,                \* tabs of one browser
  Slot,                  \* requests a window has in flight at once
  Scenes,                \* what may happen in a behaviour, see Init
  MaxLogin, MaxRotation, \* bounds on the sessions and on the rotations of each
  None                   \* no pair

VARIABLES
  scene,
  open,     \* the windows in use
  mem,      \* each window's store
  disk,     \* 'auth-storage' in localStorage
  call,     \* each window's two requests in flight
  flight,   \* refreshInFlight of each window
  row,      \* the server's state of every refresh token
  expired,  \* pairs whose access token the bearer gate refuses
  code,     \* the one-time code of a redirect: fresh, posted (exchangedOauthRef) or used
  burned, torn, ended  \* history: a replay was punished, a reload cut a refresh off,
                       \* logins that a 200 of /auth/logout has ended

vars == <<scene, open, mem, disk, call, flight, row, expired, code, burned, torn, ended>>

Pair == (1..MaxLogin) \X (1..MaxRotation)

NeedsBearer == {"data", "me", "logout"}
Doors == {"login", "passkey", "exchange", "verify"}
Kinds == NeedsBearer \cup Doors

Store == [pair: Pair \cup {None}, in: BOOLEAN, mfa: BOOLEAN]
Saved == [pair: Pair \cup {None}, in: BOOLEAN]
Call == [kind: Kinds, body: Pair \cup {None}, bearer: Pair \cup {None}, tries: 1..2,
         at: {"wire", "waiting"}]
Idle == [at |-> "idle"]
Flight == [token: Pair \cup {None}, at: {"none", "sent", "rotated", "refused"}]
NoFlight == [token |-> None, at |-> "none"]

Init ==
  /\ scene \in Scenes
  /\ open \in {W \in SUBSET Window : Cardinality(W) = scene.windows}
  /\ mem = [w \in Window |-> [pair |-> <<1, 1>>, in |-> TRUE, mfa |-> FALSE]]
  /\ disk = [pair |-> <<1, 1>>, in |-> TRUE]
  /\ call = [w \in Window |-> [c \in Slot |-> Idle]]
  /\ flight = [w \in Window |-> NoFlight]
  /\ row = [t \in Pair |-> IF t = <<1, 1>> THEN "live" ELSE "none"]
  /\ expired = {}
  /\ code = "fresh"
  /\ burned = FALSE /\ torn = FALSE /\ ended = {}

-----------------------------------------------------------------------------
(* The store: every set() also rewrites localStorage, with what this window holds. *)

Save(w, m) ==
  /\ mem' = [mem EXCEPT ![w] = m]
  /\ disk' = [pair |-> m.pair, in |-> m.in]

SignedOut == [pair |-> None, in |-> FALSE, mfa |-> FALSE]

\* setTokens leaves the rest of the store alone.
WithPair(m, t) == [m EXCEPT !.pair = t, !.in = TRUE]

\* A step-up wipes the stale session; the passkey and SMS doors only set the token.
StepUp(m, kind) ==
  IF kind = "passkey" THEN [m EXCEPT !.mfa = TRUE] ELSE [SignedOut EXCEPT !.mfa = TRUE]

\* A forced password change wipes it too, and leaves a pending step-up.
PasswordChange(m) == [SignedOut EXCEPT !.mfa = m.mfa]

-----------------------------------------------------------------------------
(* Requests *)

\* A private page is shown, and calls the API, on a token or on isAuthenticated.
Shown(w) == mem[w].pair # None \/ mem[w].in

\* Faulty variant: the effect that exchanges the code does not remember it has.
MayExchangeAgain(w) == ~mem[w].mfa

\* An effect that runs again does not exchange the code again, nor does one that
\* finds a step-up pending.
MayExchange(w) == ~mem[w].mfa /\ code = "fresh"

MayBegin(w, kind) ==
  CASE kind = "data"     -> Shown(w)
    [] kind = "me"       -> mem[w].pair # None
    [] kind = "logout"   -> mem[w].pair # None
    [] kind = "verify"   -> mem[w].mfa
    [] kind = "exchange" -> MayExchange(w)
    [] OTHER             -> TRUE

Begin(w, c, kind) ==
  /\ w \in open /\ kind \in scene.kinds /\ call[w][c] = Idle /\ MayBegin(w, kind)
  /\ \A d \in Slot : call[w][d] # Idle => call[w][d].kind # kind \/ kind \in {"data", "exchange"}
  /\ call' = [call EXCEPT ![w][c] =
               [kind |-> kind, body |-> IF kind = "logout" THEN mem[w].pair ELSE None,
                bearer |-> mem[w].pair, tries |-> 1, at |-> "wire"]]
  /\ code' = IF kind = "exchange" /\ code = "fresh" THEN "posted" ELSE code
  /\ IF kind \in {"login", "verify"} THEN Save(w, mem[w]) ELSE UNCHANGED <<mem, disk>>
  /\ UNCHANGED <<scene, open, flight, row, expired, burned, torn, ended>>

NewLogin == {n \in 1..MaxLogin : row[<<n, 1>>] = "none"}

\* What the server does for a request it accepts, and what the window makes of the
\* answer: a session, a step-up, /auth/me's user, or the end of the session.
Accepted(w, q) ==
  CASE q.kind = "data"   -> UNCHANGED <<mem, disk, row, code, ended>>
    [] q.kind = "me"     -> Save(w, [mem[w] EXCEPT !.in = TRUE]) /\ UNCHANGED <<row, code, ended>>
    [] q.kind = "logout" -> /\ row' = [row EXCEPT ![q.body] = "revoked"]
                            /\ ended' = ended \cup {q.body[1]}
                            /\ Save(w, SignedOut)
                            /\ UNCHANGED code
    [] OTHER -> /\ code' = IF q.kind = "exchange" THEN "used" ELSE code
                /\ UNCHANGED ended
                /\ \/ \E n \in NewLogin :
                        /\ \A k \in NewLogin : n <= k
                        /\ row' = [row EXCEPT ![<<n, 1>>] = "live"]
                        /\ LET m == WithPair(mem[w], <<n, 1>>)
                           IN Save(w, IF q.kind \in {"login", "verify"} THEN [m EXCEPT !.mfa = FALSE]
                                                                       ELSE m)
                   \/ scene.stepUps /\ q.kind # "verify" /\ Save(w, StepUp(mem[w], q.kind)) /\ UNCHANGED row
                   \/ scene.stepUps /\ q.kind = "login" /\ Save(w, PasswordChange(mem[w])) /\ UNCHANGED row

Ok(w, c) ==
  LET q == call[w][c]
  IN /\ q.at = "wire"
     /\ q.kind \in NeedsBearer => q.bearer # None /\ q.bearer \notin expired
     /\ q.kind = "exchange" => code # "used"
     /\ Accepted(w, q)
     /\ call' = [call EXCEPT ![w][c] = Idle]
     /\ UNCHANGED <<scene, open, flight, expired, burned, torn>>

\* Faulty variant: every 401 sends a refresh of its own.
JoinAlone(w) == flight' = [flight EXCEPT ![w] = [token |-> mem[w].pair, at |-> "sent"]]

\* refreshInFlight ??= requestTokenPair(refreshToken)
Join(w) ==
  flight' = IF flight[w] # NoFlight THEN flight
            ELSE [flight EXCEPT ![w] = [token |-> mem[w].pair, at |-> "sent"]]

\* A request that waits for the refresh, and goes out again with its token: once.
Again(q) == [q EXCEPT !.tries = 2, !.at = "waiting"]
Resent(q, t) == [q EXCEPT !.at = "wire", !.bearer = t]

\* A 401: the bearer gate's, or a door's own word for a wrong password or code.
\* The interceptor takes either for an expired token, the first time.
Refused(w, c) ==
  LET q == call[w][c]
  IN /\ q.at = "wire"
     /\ q.kind \in NeedsBearer => q.bearer = None \/ q.bearer \in expired
     /\ q.kind = "exchange" => code = "used"
     /\ IF mem[w].pair # None /\ q.tries = 1
        THEN /\ call' = [call EXCEPT ![w][c] = Again(q)]
             /\ Join(w)
             /\ UNCHANGED <<mem, disk>>
        ELSE /\ call' = [call EXCEPT ![w][c] = Idle]
             /\ Save(w, SignedOut)
             /\ UNCHANGED flight
     /\ UNCHANGED <<scene, open, row, expired, code, burned, torn, ended>>

\* No answer within the timeout, whether or not the request arrived: a sign-out
\* clears the window all the same, the other failures keep what it holds.
Lost(w, c) ==
  LET q == call[w][c]
  IN /\ scene.drops /\ q.at = "wire"
     /\ call' = [call EXCEPT ![w][c] = Idle]
     /\ CASE q.kind = "logout"          -> Save(w, SignedOut)
          [] q.kind = "login"           -> Save(w, [mem[w] EXCEPT !.mfa = FALSE])
          [] q.kind \in {"me", "verify"} -> Save(w, mem[w])
          [] OTHER                      -> UNCHANGED <<mem, disk>>
     /\ \/ UNCHANGED <<row, code>>
        \/ /\ q.kind = "logout" /\ q.bearer \notin expired
           /\ row' = [row EXCEPT ![q.body] = "revoked"] /\ UNCHANGED code
        \/ q.kind = "exchange" /\ code' = "used" /\ UNCHANGED row
     /\ UNCHANGED <<scene, open, flight, expired, burned, torn, ended>>

-----------------------------------------------------------------------------
(* The refresh *)

Next1(t) == <<t[1], t[2] + 1>>

\* Faulty variant: the loser of a double fire is punished like a replay.
PunishedAtOnce(t) == row[t] \in {"spent", "lapsed"}

\* A used token is a replay once the grace window is over.
Punished(t) == row[t] = "lapsed"

\* POST /auth/refresh at the server: rotate, refuse, or revoke everything.
Rotated(t) ==
  CASE row[t] = "live" -> row' = [row EXCEPT ![t] = "spent", ![Next1(t)] = "live"]
    [] Punished(t)     -> row' = [s \in Pair |-> IF row[s] = "none" THEN "none" ELSE "revoked"]
    [] OTHER           -> UNCHANGED row

Rotate(w) ==
  LET t == flight[w].token
  IN /\ flight[w].at = "sent"
     /\ t[2] < MaxRotation
     /\ Rotated(t)
     /\ burned' = (burned \/ (row[t] # "live" /\ Punished(t)))
     /\ flight' = [flight EXCEPT ![w] = [token |-> t, at |-> IF row[t] = "live" THEN "rotated" ELSE "refused"]]
     /\ UNCHANGED <<scene, open, mem, disk, call, expired, code, torn, ended>>

Waiting(w) == {c \in Slot : call[w][c].at = "waiting"}

\* The new pair is stored, and every request that waited is sent again.
Resume(w) ==
  LET t == Next1(flight[w].token)
  IN /\ flight[w].at = "rotated"
     /\ Save(w, WithPair(mem[w], t))
     /\ call' = [call EXCEPT ![w] = [c \in Slot |->
                  IF c \in Waiting(w) THEN Resent(call[w][c], t) ELSE call[w][c]]]
     /\ flight' = [flight EXCEPT ![w] = NoFlight]
     /\ UNCHANGED <<scene, open, row, expired, code, burned, torn, ended>>

\* Faulty variant: a refresh that fails keeps the tokens for a later attempt.
AfterFailedKeeps(w) == mem[w]

\* Every request that waited logs the window out.
AfterFailed(w) == IF Waiting(w) = {} THEN mem[w] ELSE SignedOut

\* The refresh was refused, or its answer is lost, the rotation done or not.
Fail(w) ==
  /\ flight[w] # NoFlight
  /\ flight[w].at = "refused" \/ scene.drops
  /\ Save(w, AfterFailed(w))
  /\ call' = [call EXCEPT ![w] = [c \in Slot |-> IF c \in Waiting(w) THEN Idle ELSE call[w][c]]]
  /\ flight' = [flight EXCEPT ![w] = NoFlight]
  /\ UNCHANGED <<scene, open, row, expired, code, burned, torn, ended>>

-----------------------------------------------------------------------------
(* The page and the clock *)

\* A page load reads localStorage back and forgets what was in flight.
Reload(w) ==
  /\ scene.reloads /\ w \in open
  /\ mem' = [mem EXCEPT ![w] = [pair |-> disk.pair, in |-> disk.in, mfa |-> FALSE]]
  /\ call' = [call EXCEPT ![w] = [c \in Slot |-> Idle]]
  /\ flight' = [flight EXCEPT ![w] = NoFlight]
  /\ torn' = (torn \/ flight[w] # NoFlight)
  /\ UNCHANGED <<scene, open, disk, row, expired, code, burned, ended>>

\* Nothing but a token somebody can still present is worth the time that passes.
Held(t) == \E w \in open :
  \/ t \in {mem[w].pair, disk.pair, flight[w].token}
  \/ \E c \in Slot : call[w][c] # Idle /\ t \in {call[w][c].bearer, call[w][c].body}

\* A bearer lasts fifteen minutes, longer than the answer that brings it and the
\* requests that are sent again with it.
Expire(t) ==
  /\ t \notin expired /\ Held(t) /\ t[2] < MaxRotation
  /\ \A w \in Window : ~(flight[w].at = "rotated" /\ Next1(flight[w].token) = t)
  /\ \A w \in Window, c \in Slot :
       call[w][c] # Idle => ~(call[w][c].tries = 2 /\ call[w][c].bearer = t)
  /\ expired' = expired \cup {t}
  /\ UNCHANGED <<scene, open, mem, disk, call, flight, row, code, burned, torn, ended>>

\* REPLAY_GRACE_MS after a rotation: no answer to a refresh is that late.
GraceEnds(t) ==
  /\ row[t] = "spent" /\ Held(t) /\ ~scene.grace
  /\ row' = [row EXCEPT ![t] = "lapsed"]
  /\ UNCHANGED <<scene, open, mem, disk, call, flight, expired, code, burned, torn, ended>>

Next ==
  \/ \E w \in Window :
       \/ Rotate(w) \/ Resume(w) \/ Fail(w) \/ Reload(w)
       \/ \E c \in Slot :
            \/ \E kind \in Kinds : Begin(w, c, kind)
            \/ Ok(w, c) \/ Refused(w, c) \/ Lost(w, c)
  \/ \E t \in Pair : Expire(t) \/ GraceEnds(t)

Spec == Init /\ [][Next]_vars
-----------------------------------------------------------------------------
TypeOK ==
  /\ scene \in Scenes /\ open \subseteq Window
  /\ mem \in [Window -> Store] /\ disk \in Saved
  /\ call \in [Window -> [Slot -> Call \cup {Idle}]]
  /\ flight \in [Window -> Flight]
  /\ row \in [Pair -> {"none", "live", "spent", "lapsed", "revoked"}]
  /\ expired \subseteq Pair /\ code \in {"fresh", "posted", "used"}
  /\ burned \in BOOLEAN /\ torn \in BOOLEAN /\ ended \subseteq 1..MaxLogin

Untroubled == ~scene.drops /\ ~scene.reloads

\* A window that is alone, reaches the server and mistypes nothing never signs
\* itself out, however its requests, expiries, refreshes and redirects interleave.
LoneWindowStaysSignedIn ==
  ( /\ scene.windows = 1 /\ Untroubled /\ ~scene.stepUps
    /\ scene.kinds \subseteq {"data", "me", "exchange"} ) => \A w \in open : mem[w].pair # None

\* Two windows that refresh with the same token within the grace window cost one
\* of them its session, and never both: somebody holds the live token.
DoubleFireSparesAWindow ==
  (scene.windows = 2 /\ Untroubled /\ scene.grace /\ scene.kinds \subseteq {"data", "me"}) =>
    \E w \in open, t \in Pair :
      row[t] = "live" /\ (mem[w].pair = t \/ (flight[w].at = "rotated" /\ Next1(flight[w].token) = t))

\* Whatever fails, one window alone is never taken for a thief that replays a
\* token, except when a reload cuts a refresh off.
OwnRefreshNeverBurns == (scene.windows = 1 /\ ~torn) => ~burned

\* What the store and the handler say of a sign-out: once the server has answered
\* it, no token of that session can be used to refresh.
SignOutEndsTheSession == \A t \in Pair : t[1] \in ended => row[t] # "live"

\* No refresh of the console's own costs the user the session.
RefreshesCostNoSession ==
  TypeOK /\ LoneWindowStaysSignedIn /\ DoubleFireSparesAWindow /\ OwnRefreshNeverBurns
=============================================================================
