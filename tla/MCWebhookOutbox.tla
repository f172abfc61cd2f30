-------------------------- MODULE MCWebhookOutbox --------------------------
(* Small instances of WebhookOutbox, where endpoints and processes are
   interchangeable; and, in behaviours of its own, of Lifecycle.  The part that a
   behaviour is not about stays in its initial state. *)
EXTENDS WebhookOutbox, TLC

CONSTANTS
  Parts,    \* what behaviours are about
  Making,   \* bound of Lifecycle
  Scenes    \* the scenes of Lifecycle

VARIABLES part, busy, phase, code, open, ref, memo, making, at, hungUp, sweep, tick, anchor, stopped, hook, late

life == <<busy, phase, code, open, ref, memo, making, at, hungUp, sweep, tick, anchor, stopped, hook, late>>

\* Requests that need managers and pools, and the workers, a few at a time.
SmallScenes ==
  { {"users", "auth"}, {"users", "ready"}, {"users", "module"}, {"users", "tick"}, {"auth", "anchor"},
    {"sweep", "tick", "anchor"} }

Process == INSTANCE Lifecycle WITH Caller <- Node

Symmetry == Permutations(Endpoint) \cup Permutations(Node)

\* There may be two managers under construction: the one that the shutdown has forgotten, and
\* the next.
ASSUME LifecycleAssumption == Making \in Nat /\ Making >= 2

-----------------------------------------------------------------------------
HouseInit ==
  /\ part \in Parts
  /\ Init /\ Process!Init
  /\ part # "process" => busy = CHOOSE b \in Scenes : TRUE

HouseNext ==
  /\ UNCHANGED part
  /\ \/ part # "process" /\ Next /\ UNCHANGED life
     \/ part = "process" /\ Process!Next /\ UNCHANGED vars

HouseSpec == HouseInit /\ [][HouseNext]_<<part, vars, life>>

\* Fairness of the part at work.
InOutbox(A) == part = "outbox" /\ A
InProcess(A) == part = "process" /\ A

FairHouse ==
  /\ HouseSpec
  /\ WF_vars(InOutbox(Tick)) /\ \A n \in Node : WF_vars(InOutbox(Dispatch(n)))
  /\ WF_life(InProcess(Process!Close)) /\ WF_life(InProcess(Process!Build))
  /\ WF_life(InProcess(Process!Dispatch)) /\ WF_life(InProcess(Process!Sweep)) /\ WF_life(InProcess(Process!Anchor))
  /\ \A n \in Node : WF_life(InProcess(Process!Handle(n)))

\* Stated in Lifecycle.
PoolsServeTheWork == Process!PoolsServeTheWork
ShutdownEnds == Process!ShutdownEnds
=============================================================================
