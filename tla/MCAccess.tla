------------------------------ MODULE MCAccess ------------------------------
(* Small instances of Access, two kinds of edits at a time; and, in behaviours of
   their own, of Options with the nodes of Access, of SessionList and of AuditChain.
   A part that a behaviour is not about is parked: its variables are 0, or as they
   begin. *)
EXTENDS Access, TLC

CONSTANTS
  Name, Value, Mask, Sensitive, MaxWrites,  \* of Options
  Life, Delay,                              \* of SessionList
  MaxRow, MaxTime, DayLength, Grace, MaxDelay, Batch, RetentionDays, MaxAltered, LogScenes  \* of AuditChain

VARIABLES
  table, copy, loading, writing, mail, writes, behind,
  session, list, call, gone, astray,
  clock, doing, logged, buffer, flight, row, anchors, file, worker, eraser, receipt, events,
  sweeper, check, missed, untidy, raced

Settings == INSTANCE Options

Sessions == INSTANCE SessionList WITH
  Session <- Key, Caller <- Editor, kept <- list

Log == INSTANCE AuditChain WITH Scenes <- LogScenes, scene <- doing

options == <<table, copy, loading, writing, mail, writes, behind>>
sessions == <<session, list, call, gone, astray>>
log == <<clock, doing, logged, buffer, flight, row, anchors, file, worker, eraser, receipt,
         events, sweeper, check, missed, untidy, raced>>

SmallScenes == { {"moves"}, {"roles", "delete"}, {"assign", "delete"}, {"create", "assign"}, {"default", "keys"}, {"options"},
                 {"sessions"}, {"log"} }

\* What happens together in the audit log.
SmallLogScenes ==
  { {"buffer", "faults"}, {"chain", "faults", "legacy"}, {"chain", "erase", "verify", "legacy"},
    {"chain", "erase", "faults"}, {"chain", "sweep", "verify"}, {"chain", "alter", "verify"},
    {"chain", "erase", "sweep", "verify"} }

SmallOffer == { [p \in Perm |-> IF p = KeyPerm THEN 0 ELSE 1], [p \in Perm |-> 3] }

ASSUME HouseAssumption == Life \in Nat \ {0} /\ Delay \in Nat /\ MaxWrites \in Nat

\* The worker leaves rows alone for longer than an entry is on its way.
ASSUME LogAssumption ==
  /\ MaxRow \in Nat \ {0} /\ MaxTime \in Nat /\ DayLength \in Nat \ {0} /\ Batch \in Nat \ {0}
  /\ Grace \in Nat /\ MaxDelay \in 0..Grace /\ RetentionDays \in Nat

Elsewhere == scene \in {{"options"}, {"sessions"}, {"log"}}

SessionsParked == session = 0 /\ list = 0 /\ call = 0 /\ gone = 0 /\ astray = 0

LogParked ==
  /\ clock = 0 /\ doing = 0 /\ logged = 0 /\ buffer = 0 /\ flight = 0 /\ row = 0 /\ anchors = 0
  /\ file = 0 /\ worker = 0 /\ eraser = 0 /\ receipt = 0 /\ events = 0 /\ sweeper = 0 /\ check = 0
  /\ missed = 0 /\ untidy = 0 /\ raced = 0

NodeInit ==
  /\ Init
  /\ Elsewhere => userRoles = {} /\ groupRoles = {} /\ role[Low].parent = None
  /\ Settings!Init
  /\ IF "sessions" \in scene THEN Sessions!Init ELSE SessionsParked
  /\ IF "log" \in scene THEN Log!Init ELSE LogParked

NodeNext ==
  IF "options" \in scene THEN Settings!Next /\ UNCHANGED <<vars, sessions, log>>
  ELSE IF "sessions" \in scene THEN Sessions!Next /\ UNCHANGED <<vars, options, log>>
  ELSE IF "log" \in scene THEN Log!Next /\ UNCHANGED <<vars, options, sessions>>
  ELSE Next /\ UNCHANGED <<options, sessions, log>>

NodeSpec == NodeInit /\ [][NodeNext]_<<vars, options, sessions, log>> /\ Fairness

\* What is kept in processes and in Redis beside the tables is true, or soon is: options that
\* have been written (stated in Options) and sessions (in SessionList).
CopiesAreTrue ==
  /\ Settings!TypeOK /\ Settings!WritesReachTheNodes
  /\ "sessions" \in scene => Sessions!ListsAreTrue

\* Stated in AuditChain.
LogIsWhole == "log" \in scene => Log!LogIsWhole
VerifierIsRight == "log" \in scene => Log!VerifierIsRight
\* An erasure leaves nothing of the person in the log, and takes nothing from its proofs.
ErasureLeavesTheProofs == []["log" \in scene => Log!ProofsKept /\ Log!Forgotten]_<<vars, log>>
=============================================================================
