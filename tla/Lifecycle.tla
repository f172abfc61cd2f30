----------------------------- MODULE Lifecycle -----------------------------
(***************************************************************************)
(* A server process from its boot to its exit: the database pools that its *)
(* parts open, most of them when they first need one, and the shutdown     *)
(* that closes some while work is under way.  A signal fails the readiness *)
(* probe and closes the application: Fastify refuses new requests, waits   *)
(* for the connections of those at work and runs the onClose hooks, which  *)
(* stop the workers and end the pools, one after the other; the process    *)
(* exits.  A handler whose client has hung up is not waited for.           *)
(*                                                                         *)
(* A pool that ends lets the statements on it finish and refuses others.   *)
(* No hook ends the pools that buildApp and the route plugins open for     *)
(* themselves, and those that modules open for a request: here one of      *)
(* either kind.                                                            *)
(* The retention sweep, a tick of the webhook dispatcher and a tick of the *)
(* anchor worker are here only as far as their pools go.                   *)
(***************************************************************************)
EXTENDS Integers, FiniteSets, Sequences

CONSTANTS
  Caller,    \* requests at work at the same time
  Making,    \* bound: managers under construction at the same time
  Scenes     \* which requests arrive and which workers run

VARIABLES
  busy,      \* the scene
  phase,     \* "boot", "up", "draining", "closing", "hooks", "gone"
  code,      \* the exit code
  open,      \* pools that are open, by the part that owns them
  ref,       \* the parts that hold a pool
  memo,      \* the promise of the manager: "none", "pending", "kept"
  making,    \* managers under construction
  at,        \* where the requests are
  hungUp,    \* requests whose client has gone
  sweep, tick, anchor,  \* where the workers are
  stopped,   \* workers told to stop
  hook,      \* the onClose hook that runs
  late       \* history: parts that opened a pool while the hooks ran

vars == <<busy, phase, code, open, ref, memo, making, at, hungUp, sweep, tick, anchor, stopped, hook, late>>
server == <<busy, phase, code>>
pools == <<open, ref, late>>
managers == <<memo, making>>
requests == <<at, hungUp>>
workers == <<sweep, tick, anchor>>
chain == <<stopped, hook>>

\* The order in which the hooks run: the last one added is the first.
Hooks == <<"ready", "sweep", "tick", "anchor", "users", "auth">>
Hooked == {Hooks[i] : i \in 1..Len(Hooks)}
Unhooked == {"plugins", "module"}
Owner == Hooked \cup Unhooked
Worker == {"sweep", "tick", "anchor"}

TypeOK ==
  /\ phase \in {"boot", "up", "draining", "closing", "hooks", "gone"} /\ code \in 0..1
  /\ open \in [Owner -> 0..Making] /\ ref \in SUBSET Owner /\ late \in SUBSET Owner
  /\ memo \in {"none", "pending", "kept"} /\ making \in 0..Making
  /\ at \in [Caller -> {"idle", "users", "waiting", "auth", "ready", "module",
                       "on_users", "on_auth", "on_ready", "on_module"}]
  /\ hungUp \in SUBSET Caller
  /\ sweep \in {"idle", "audit", "between", "sessions"}
  /\ tick \in {"idle", "claimed", "posted"} /\ anchor \in {"idle", "fold", "export"}
  /\ stopped \in SUBSET Worker /\ hook \in 1..Len(Hooks) + 1

\* buildApp arms the timers and opens the pools of the OpenID adapter, of the audit log and of
\* the managers that its route plugins make as they are registered.
Init ==
  /\ busy \in Scenes /\ phase = "boot" /\ code = 0
  /\ open = [o \in Owner |-> IF o = "plugins" THEN 1 ELSE 0] /\ ref = {"plugins"} /\ late = {}
  /\ memo = "none" /\ making = 0
  /\ at = [c \in Caller |-> "idle"] /\ hungUp = {}
  /\ sweep = "idle" /\ tick = "idle" /\ anchor = "idle"
  /\ stopped = {} /\ hook = 1

Alive == phase # "gone"

\* isDraining: the signal has come.
Draining == phase \notin {"boot", "up"}

-----------------------------------------------------------------------------
(* Pools *)

\* A part that needs a pool has one, or opens it now.
Hold(o) ==
  IF o \in ref THEN UNCHANGED pools
  ELSE /\ open' = [open EXCEPT ![o] = @ + 1]
       /\ ref' = ref \cup {o}
       /\ late' = IF phase = "hooks" THEN late \cup {o} ELSE late

\* Faulty variant: the reference is dropped before the pool is ended through it.
LetGoTooSoon(o) == ref' = ref \ {o} /\ UNCHANGED open

\* Faulty variant: a part that never needed a pool ends one.
LetGoAnyway(o) == ref' = ref \ {o} /\ open' = [open EXCEPT ![o] = @ - 1]

\* closeDb: the pool held is ended and forgotten.
LetGo(o) ==
  /\ ref' = ref \ {o}
  /\ open' = IF o \in ref THEN [open EXCEPT ![o] = @ - 1] ELSE open

-----------------------------------------------------------------------------
(* Requests *)

\* New requests are refused once the application closes; a probe is told 503 as soon as
\* the process drains.
Arrive(c, what) ==
  /\ what \in busy /\ at[c] = "idle" /\ phase \in {"up", "draining"}
  /\ what = "ready" => ~Draining
  /\ at' = [at EXCEPT ![c] = what]
  /\ UNCHANGED <<server, pools, managers, hungUp, workers, chain>>

\* Faulty variant: the memo is of the value, which is there only after the import.
AskForTheValue(c) ==
  /\ at[c] = "users"
  /\ IF "users" \in ref
     THEN at' = [at EXCEPT ![c] = "on_users"] /\ UNCHANGED managers
     ELSE making < Making /\ making' = making + 1 /\ memo' = "pending" /\ at' = [at EXCEPT ![c] = "waiting"]
  /\ UNCHANGED <<server, pools, hungUp, workers, chain>>

\* getUserManager: the promise is kept before it is awaited.
AskManager(c) ==
  /\ at[c] = "users"
  /\ CASE memo = "kept"    -> at' = [at EXCEPT ![c] = "on_users"] /\ UNCHANGED managers
       [] memo = "pending" -> at' = [at EXCEPT ![c] = "waiting"] /\ UNCHANGED managers
       [] memo = "none"    -> /\ making < Making
                              /\ making' = making + 1 /\ memo' = "pending"
                              /\ at' = [at EXCEPT ![c] = "waiting"]
  /\ UNCHANGED <<server, pools, hungUp, workers, chain>>

Waiting(next) == at' = [c \in Caller |-> IF at[c] = "waiting" THEN next ELSE at[c]]

\* The import succeeds and the constructor opens a pool: all who wait share the manager.
Made ==
  /\ making > 0
  /\ making' = making - 1 /\ memo' = IF memo = "pending" THEN "kept" ELSE memo
  /\ open' = [open EXCEPT !["users"] = @ + 1]
  /\ ref' = ref \cup {"users"}
  /\ late' = IF phase = "hooks" THEN late \cup {"users"} ELSE late
  /\ Waiting("on_users")
  /\ UNCHANGED <<server, hungUp, workers, chain>>

\* Faulty variant: a rejected promise stays in the memo.
NotMadeForGood ==
  /\ making > 0
  /\ making' = making - 1 /\ UNCHANGED memo
  /\ Waiting("idle")
  /\ hungUp' = hungUp \ {c \in Caller : at[c] = "waiting"}
  /\ UNCHANGED <<server, pools, workers, chain>>

\* It fails: all who wait fail with it, and the next request tries again.
NotMade ==
  /\ making > 0
  /\ making' = making - 1 /\ memo' = "none"
  /\ Waiting("idle")
  /\ hungUp' = hungUp \ {c \in Caller : at[c] = "waiting"}
  /\ UNCHANGED <<server, pools, workers, chain>>

\* authDb, the pool of the readiness probe and that of a module: opened without waiting for
\* anything.
AskPool(c) ==
  /\ at[c] \in {"auth", "ready", "module"}
  /\ Hold(at[c])
  /\ at' = [at EXCEPT ![c] = CASE at[c] = "auth" -> "on_auth" [] at[c] = "ready" -> "on_ready" [] OTHER -> "on_module"]
  /\ UNCHANGED <<server, managers, hungUp, workers, chain>>

\* The statement ends; on a pool that has ended it fails.
Answer(c) ==
  /\ at[c] \in {"on_users", "on_auth", "on_ready", "on_module"}
  /\ at' = [at EXCEPT ![c] = "idle"] /\ hungUp' = hungUp \ {c}
  /\ UNCHANGED <<server, pools, managers, workers, chain>>

HangUp(c) ==
  /\ at[c] # "idle" /\ c \notin hungUp
  /\ hungUp' = hungUp \cup {c}
  /\ UNCHANGED <<server, pools, managers, at, workers, chain>>

Handle(c) == Alive /\ (AskManager(c) \/ AskPool(c) \/ Answer(c))
Build == Alive /\ (Made \/ NotMade)

-----------------------------------------------------------------------------
(* Workers.  A timer starts one, unless it has been stopped or is at work. *)

\* The sweep: two transactions; when the pool has ended in between, the second fails.
Sweep ==
  /\ Alive
  /\ \/ sweep = "idle" /\ "sweep" \in busy \ stopped /\ Hold("sweep") /\ sweep' = "audit"
     \/ sweep = "audit" /\ sweep' = "between" /\ UNCHANGED pools
     \/ sweep = "between" /\ sweep' = (IF open["sweep"] > 0 THEN "sessions" ELSE "idle") /\ UNCHANGED pools
     \/ sweep = "sessions" /\ sweep' = "idle" /\ UNCHANGED pools
  /\ UNCHANGED <<server, managers, requests, tick, anchor, chain>>

\* A tick of the dispatcher: rows are claimed, posted with no client of the pool in use, and
\* stamped with their outcome.
StartTick ==
  /\ Alive /\ tick = "idle" /\ "tick" \in busy \ stopped
  /\ Hold("tick") /\ tick' = "claimed"
  /\ UNCHANGED <<server, managers, requests, sweep, anchor, chain>>

\* Faulty variant: a tick that finds itself stopped does nothing more, not even end.
DispatchUntilStopped ==
  /\ Alive /\ "tick" \notin stopped
  /\ \/ tick = "claimed" /\ tick' \in {"posted", "idle"}
     \/ tick = "posted" /\ tick' = "idle"
  /\ UNCHANGED <<server, pools, managers, requests, sweep, anchor, chain>>

Dispatch ==
  /\ Alive
  /\ \/ tick = "claimed" /\ tick' \in {"posted", "idle"}
     \/ tick = "posted" /\ tick' = "idle"
  /\ UNCHANGED <<server, pools, managers, requests, sweep, anchor, chain>>

\* A tick of the anchor worker: a transaction, then the export, which asks for the pool
\* again.  When stop has ended it in the meantime, the export fails, or opens another one
\* once stop has forgotten it.
Anchor ==
  /\ Alive
  /\ \/ anchor = "idle" /\ "anchor" \in busy \ stopped /\ Hold("anchor") /\ anchor' = "fold"
     \/ anchor = "fold" /\ anchor' \in {"export", "idle"} /\ UNCHANGED pools
     \/ anchor = "export" /\ anchor' = "idle" /\ (Hold("anchor") \/ ("anchor" \in stopped /\ UNCHANGED pools))
  /\ UNCHANGED <<server, managers, requests, sweep, tick, chain>>

-----------------------------------------------------------------------------
(* From boot to exit *)

Listen ==
  /\ phase = "boot" /\ phase' = "up"
  /\ UNCHANGED <<busy, code, pools, managers, requests, workers, chain>>

\* SIGTERM or SIGINT: setDraining, then app.close.
Signal ==
  /\ phase \in {"boot", "up"} /\ phase' = "draining"
  /\ UNCHANGED <<busy, code, pools, managers, requests, workers, chain>>

\* Fastify: refuse requests, then wait for the connections of those that are at work.
Refuse ==
  /\ \/ phase = "draining" /\ phase' = "closing"
     \/ phase = "closing" /\ (\A c \in Caller \ hungUp : at[c] = "idle") /\ phase' = "hooks"
  /\ UNCHANGED <<busy, code, pools, managers, requests, workers, chain>>

Now(o) == phase = "hooks" /\ hook <= Len(Hooks) /\ Hooks[hook] = o

\* stop: no other run begins.
Halt(o) ==
  /\ Now(o) /\ o \notin stopped
  /\ stopped' = stopped \cup {o}
  /\ UNCHANGED <<server, pools, managers, requests, workers, hook>>

\* Faulty variant: the dispatcher's pool is ended without waiting for its tick.
UnusedButForTicks(o) ==
  CASE o = "sweep"  -> sweep \notin {"audit", "sessions"}
    [] o = "anchor" -> anchor # "fold"
    [] OTHER        -> \A c \in Caller : at[c] # "on_" \o o

\* What a hook waits for: the statements on the pool; the dispatcher's tick to its end.
Unused(o) ==
  CASE o = "sweep"  -> sweep \notin {"audit", "sessions"}
    [] o = "tick"   -> tick = "idle"
    [] o = "anchor" -> anchor # "fold"
    [] o = "users"  -> \A c \in Caller : at[c] # "on_users"
    [] o = "auth"   -> \A c \in Caller : at[c] # "on_auth"
    [] o = "ready"  -> \A c \in Caller : at[c] # "on_ready"

\* The hook ends the pool; resetManagers forgets the promise first.
EndPool(o) ==
  /\ Now(o) /\ (o \in Worker => o \in stopped) /\ Unused(o)
  /\ LetGo(o)
  /\ memo' = IF o = "users" THEN "none" ELSE memo
  /\ hook' = hook + 1
  /\ UNCHANGED <<server, late, making, requests, workers, stopped>>

Exit ==
  /\ phase = "hooks" /\ hook > Len(Hooks)
  /\ phase' = "gone"
  /\ UNCHANGED <<busy, code, pools, managers, requests, workers, chain>>

\* An uncaught exception, an unhandled rejection, or a port that is taken.
Die ==
  /\ Alive /\ phase' = "gone" /\ code' = 1
  /\ UNCHANGED <<busy, pools, managers, requests, workers, chain>>

Close == Refuse \/ (\E o \in Worker : Halt(o)) \/ (\E o \in Hooked : EndPool(o)) \/ Exit

Next ==
  \/ Listen \/ Signal \/ Close \/ Die
  \/ \E c \in Caller : Handle(c) \/ HangUp(c) \/ \E what \in {"users", "auth", "ready", "module"} : Arrive(c, what)
  \/ Build \/ Sweep \/ StartTick \/ Dispatch \/ Anchor
  \/ phase = "gone" /\ UNCHANGED vars

\* The event loop runs what is ready, statements end and receivers answer or time out.
Fairness ==
  /\ WF_vars(Close) /\ WF_vars(Build) /\ WF_vars(Dispatch) /\ WF_vars(Sweep) /\ WF_vars(Anchor)
  /\ \A c \in Caller : WF_vars(Handle(c))

-----------------------------------------------------------------------------
\* However many requests come first at the same time, a part opens one pool (managers.ts:38);
\* only handlers that outlive the reset of the managers may open others.
OnePoolEach == \A o \in Owner \ late : open[o] <= 1

\* Who waits for a manager waits for one that is being made: a failed import is not kept for
\* ever (managers.ts:41).
NoFailureIsKept == \A c \in Caller : at[c] = "waiting" => making > 0

\* What the dispatcher has posted it stamps, in a pool that is still open: a shutdown never
\* cuts a delivery half-way (webhook-dispatcher.ts:344).
OutcomesLand ==
  /\ tick = "posted" => open["tick"] > 0
  /\ phase = "gone" /\ code = 0 => tick = "idle"

\* An orderly exit leaves open the pools that no hook ends, those of the plugins always; of
\* the others, at most one opened while the hooks ran (app.ts:326-332 has the hooks close what
\* buildApp starts).
ExitLeavesUnhooked ==
  phase = "gone" /\ code = 0 =>
    open["plugins"] > 0 /\ \A o \in Hooked : open[o] > 0 => o \in late

\* A signal ends the process, whatever was at work.
ShutdownEnds == phase = "draining" ~> phase = "gone"

\* The pools of a process: each part has one, which lasts as long as the work that needs it;
\* and the hooks end their own, no others.
PoolsServeTheWork == TypeOK /\ OnePoolEach /\ NoFailureIsKept /\ OutcomesLand /\ ExitLeavesUnhooked
=============================================================================
