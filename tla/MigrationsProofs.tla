------------------------- MODULE MigrationsProofs --------------------------
(***************************************************************************)
(* Proofs about the two parts that MCConsole hosts beside RefreshTokens:   *)
(* Migrations (Chain), for any number of processes, a chain of any length, *)
(* images of any age, failures and crashes; and Console (Browser), for any *)
(* number of requests, of sign-ins and of rotations.                       *)
(***************************************************************************)
EXTENDS MCConsole, FiniteSetTheorems, WellFoundedInduction, TLAPS

-----------------------------------------------------------------------------
(* The inductive invariant *)

\* A process runs a command of the scene; a session of the script that reads the ledger or
\* applies a file holds the lock ...
SessionsHoldTheLock ==
  \A p \in Req :
    /\ run[p].cmd \in plot.commands \cup {"idle"}
    /\ run[p].at \in {"lock", "stamp", "probe", "apply"} => run[p].cmd = "script"
    /\ run[p].at \in {"stamp", "probe", "apply"} => holder = p
    /\ run[p].at \in {"plan", "work"} => run[p].cmd \in {"up", "down", "downTo"}
    /\ run[p].stamped => run[p].cmd = "script"

\* ... so that the file it is about to apply is not there yet, and no process that only
\* meets other scripts fails ...
NothingInTheWay ==
  (plot.commands = {"script"} /\ ~plot.faults /\ ~Chain!Legacy) =>
    \A p \in Req :
      /\ run[p].at # "failed"
      /\ run[p].at = "apply" => \A f \in run[p].todo : f \notin ledger

\* ... and what lies before a file that is left to apply has been applied or is left too.
TodoIsUpward ==
  (plot.commands \subseteq {"script", "up"} /\ ~Chain!Legacy) =>
    \A p \in Req : run[p].at \in {"apply", "work"} =>
      \A f \in run[p].todo : \A g \in 1..f : g \in run[p].todo \cup ledger

ChainInv ==
  /\ Chain!TypeOK /\ SessionsHoldTheLock /\ NothingInTheWay /\ TodoIsUpward
  /\ Chain!LedgerIsTheSchema /\ Chain!NoFileIsSkipped /\ Chain!BehindIsLoud

-----------------------------------------------------------------------------
\* A set of numbers that is not empty has a least member (FiniteSetsExt!Min).
LEMMA MinIsLeast ==
  ASSUME NEW S \in SUBSET Nat, S # {}
  PROVE  Chain!Min(S) \in S /\ \A y \in S : Chain!Min(S) <= y
<1> DEFINE R == OpToRel(<, Nat)
<1>1. IsWellFoundedOn(R, Nat)
  BY NatLessThanWellFounded
<1>2. R = {ss \in Nat \X Nat : ss[1] < ss[2]}
  BY DEF OpToRel
<1> HIDE DEF R
<1>3. PICK x \in S : \A y \in S : <<y, x>> \notin R
  BY <1>1, WFMin
<1>4. \A y \in Nat : y < x => <<y, x>> \in R
  BY <1>2
<1>5. \A y \in S : y \in Nat /\ ~(y < x)
  BY <1>3, <1>4
<1>6. \A y \in S : x <= y
  BY <1>5
<1> QED
  BY <1>6 DEF Chain!Min

\* The invariant holds of a new chain and of a volume that the chain has not built.
LEMMA InitChain == Chain!Init => ChainInv
<1> SUFFICES ASSUME Chain!Init PROVE ChainInv
  OBVIOUS
<1>1. plot \in [commands : SUBSET (Chain!Command \ {"idle"}), images : SUBSET (1..MaxFile),
                built : 0..MaxFile, faults : BOOLEAN, crashes : BOOLEAN]
  BY HouseAssumption DEF Chain!Init
<1>2. Chain!Asleep \in [cmd : Chain!Command, at : {"idle", "lock", "stamp", "probe", "apply", "sentinels", "plan",
                                       "work", "done", "failed"},
                  todo : SUBSET (1..MaxFile), stamped : BOOLEAN]
  BY DEF Chain!Asleep, Chain!Command
<1>3. Chain!TypeOK
  <2>1. schema \subseteq 1..MaxFile
    BY HouseAssumption, <1>1 DEF Chain!Init
  <2>2. run \in [Req -> [cmd : Chain!Command,
                           at : {"idle", "lock", "stamp", "probe", "apply", "sentinels", "plan",
                                 "work", "done", "failed"},
                           todo : SUBSET (1..MaxFile), stamped : BOOLEAN]]
    BY <1>2 DEF Chain!Init
  <2>3. crashes \in 0..MaxCrashes
    BY HouseAssumption DEF Chain!Init
  <2> QED
    BY <2>1, <2>2, <2>3 DEF Chain!Init, Chain!TypeOK
<1>4. \A p \in Req : run[p].at = "idle" /\ run[p].cmd = "idle" /\ ~run[p].stamped
  BY DEF Chain!Init, Chain!Asleep
<1>5. Chain!LedgerIsTheSchema
  BY <1>1 DEF Chain!Init, Chain!LedgerIsTheSchema, Chain!Legacy
<1> QED
  BY <1>3, <1>4, <1>5 DEF Chain!Init, ChainInv, SessionsHoldTheLock, NothingInTheWay, TodoIsUpward,
     Chain!NoFileIsSkipped, Chain!BehindIsLoud

\* What a process may be at.
RunType == [cmd : Chain!Command,
            at : {"idle", "lock", "stamp", "probe", "apply", "sentinels", "plan", "work", "done", "failed"},
            todo : SUBSET (1..MaxFile), stamped : BOOLEAN]

\* Where the process p may go: what the invariant says of p after a step to r.
Sound(p, r) ==
  /\ r \in RunType
  /\ r.cmd \in plot.commands \cup {"idle"}
  /\ r.at \in {"lock", "stamp", "probe", "apply"} => r.cmd = "script"
  /\ r.at \in {"plan", "work"} => r.cmd \in {"up", "down", "downTo"}
  /\ r.stamped => r.cmd = "script"
  /\ r.at \in {"stamp", "probe", "apply"} => holder' = p
  /\ (plot.commands = {"script"} /\ ~plot.faults /\ ~Chain!Legacy) =>
       r.at # "failed" /\ (r.at = "apply" => \A f \in r.todo : f \notin ledger')
  /\ (plot.commands \subseteq {"script", "up"} /\ ~Chain!Legacy /\ r.at \in {"apply", "work"}) =>
       \A f \in r.todo : \A g \in 1..f : g \in r.todo \cup ledger'
  /\ (plot.commands \subseteq {"script", "up"} /\ Chain!Legacy /\ r.at = "done" /\ r.stamped) =>
       warned' \/ Chain!Files(p) \subseteq schema'

\* Any step moves one process, p, to a place r that is sound for it; it takes the lock from
\* nobody else, and changes the ledger under nobody's lock but its own.
LEMMA OneMoves ==
  ASSUME ChainInv, NEW p \in Req, NEW r, Sound(p, r),
         run' = [run EXCEPT ![p] = r], UNCHANGED <<plot, image>>,
         schema' \subseteq 1..MaxFile, ledger' \subseteq 1..MaxFile,
         holder' \in Req \cup {NoToken}, warned' \in BOOLEAN, crashes' \in 0..MaxCrashes,
         \A q \in Req \ {p} : holder = q => holder' = q,
         warned => warned',
         plot.commands = {"script"} => ledger' = ledger \/ holder = p,
         plot.commands \subseteq {"script", "up"} => ledger \subseteq ledger' /\ schema \subseteq schema',
         ~Chain!Legacy => ledger' = schema',
         (plot.commands \subseteq {"script", "up"} /\ ~Chain!Legacy) => \A f \in ledger' : 1..f \subseteq ledger'
  PROVE  ChainInv'
<1>1. run'[p] = r /\ \A q \in Req \ {p} : run'[q] = run[q]
  BY DEF ChainInv, Chain!TypeOK
<1>2. Chain!TypeOK'
  BY DEF ChainInv, Chain!TypeOK, Sound, RunType
<1>3. SessionsHoldTheLock'
  BY <1>1 DEF ChainInv, SessionsHoldTheLock, Sound
<1>4. NothingInTheWay'
  <2> SUFFICES ASSUME plot.commands = {"script"}, ~plot.faults, ~Chain!Legacy, NEW q \in Req
               PROVE  /\ run'[q].at # "failed"
                      /\ run'[q].at = "apply" => \A f \in run'[q].todo : f \notin ledger'
    BY DEF NothingInTheWay, Chain!Legacy
  <2>1. CASE q = p
    BY <1>1, <2>1 DEF Sound
  <2>2. CASE q # p
    BY <1>1, <2>2 DEF ChainInv, NothingInTheWay, SessionsHoldTheLock
  <2> QED
    BY <2>1, <2>2
<1>5. TodoIsUpward'
  <2> SUFFICES ASSUME plot.commands \subseteq {"script", "up"}, ~Chain!Legacy, NEW q \in Req,
                      run'[q].at \in {"apply", "work"},
                      NEW f \in run'[q].todo, NEW g \in 1..f
               PROVE  g \in run'[q].todo \cup ledger'
    BY DEF TodoIsUpward, Chain!Legacy
  <2>1. CASE q = p
    BY <1>1, <2>1 DEF Sound
  <2>2. CASE q # p
    BY <1>1, <2>2 DEF ChainInv, TodoIsUpward
  <2> QED
    BY <2>1, <2>2
<1>6. Chain!LedgerIsTheSchema' /\ Chain!NoFileIsSkipped'
  BY DEF Chain!LedgerIsTheSchema, Chain!NoFileIsSkipped, Chain!Legacy
<1>7. Chain!BehindIsLoud'
  <2> SUFFICES ASSUME plot.commands \subseteq {"script", "up"}, Chain!Legacy, NEW q \in Req,
                      run'[q].at = "done", run'[q].stamped, ~(1..image[q] \subseteq schema')
               PROVE  warned'
    BY DEF Chain!BehindIsLoud, Chain!Legacy, Chain!Files
  <2>1. CASE q = p
    BY <1>1, <2>1 DEF Sound, Chain!Files
  <2>2. CASE q # p
    BY <1>1, <2>2 DEF ChainInv, Chain!BehindIsLoud, Chain!Files
  <2> QED
    BY <2>1, <2>2
<1> QED
  BY <1>2, <1>3, <1>4, <1>5, <1>6, <1>7 DEF ChainInv

\* Whatever a process runs, a file that goes through is the next one, and one that does not
\* ends the run.
LEMMA ApplyingIsSound ==
  ASSUME ChainInv, NEW p \in Req,
         run[p].at \in {"apply", "work"}, run[p].cmd \in {"script", "up"}, run[p].todo # {},
         Chain!Apply(p, Chain!Min(run[p].todo)), UNCHANGED <<plot, image, warned, crashes>>
  PROVE  ChainInv'
<1> DEFINE f == Chain!Min(run[p].todo)
<1>1. run[p] \in RunType /\ run[p].todo \in SUBSET (1..MaxFile)
  BY DEF ChainInv, Chain!TypeOK, RunType
<1>2. f \in run[p].todo /\ (\A g \in run[p].todo : f <= g) /\ f \in 1..MaxFile
  BY <1>1, MinIsLeast
<1> HIDE DEF f
<1>3. CASE /\ ~Chain!Collides(f) /\ Chain!Commit(f) /\ UNCHANGED holder
           /\ run' = [run EXCEPT ![p].todo = @ \ {f}]
  <2> DEFINE r == [run[p] EXCEPT !.todo = @ \ {f}]
  <2>1. run' = [run EXCEPT ![p] = r]
    BY <1>3
  <2>2. /\ r \in RunType /\ r.cmd = run[p].cmd /\ r.at = run[p].at /\ r.todo = run[p].todo \ {f}
        /\ r.stamped = run[p].stamped
    BY <1>1 DEF RunType
  <2> HIDE DEF r
  <2>3. ledger' = ledger \cup {f} /\ schema' = schema \cup {f} /\ UNCHANGED holder
    BY <1>3 DEF Chain!Commit
  <2>4. Sound(p, r)
    BY <1>2, <2>2, <2>3 DEF Sound, ChainInv, SessionsHoldTheLock, NothingInTheWay, TodoIsUpward
  <2>5. plot.commands = {"script"} => holder = p
    BY DEF ChainInv, SessionsHoldTheLock
  <2>6. (plot.commands \subseteq {"script", "up"} /\ ~Chain!Legacy) => \A g \in ledger' : 1..g \subseteq ledger'
    <3> SUFFICES ASSUME plot.commands \subseteq {"script", "up"}, ~Chain!Legacy, NEW g \in ledger',
                        NEW h \in 1..g
                 PROVE  h \in ledger'
      OBVIOUS
    <3>1. CASE g \in ledger
      BY <2>3, <3>1 DEF ChainInv, Chain!NoFileIsSkipped
    <3>2. CASE g = f
      <4>1. h \in run[p].todo \cup ledger
        BY <1>2, <3>2 DEF ChainInv, TodoIsUpward
      <4>2. h \in run[p].todo => h = f
        BY <1>1, <1>2, <3>2
      <4> QED
        BY <2>3, <4>1, <4>2
    <3> QED
      BY <2>3, <3>1, <3>2
  <2>7. ledger' \subseteq 1..MaxFile /\ schema' \subseteq 1..MaxFile /\ (~Chain!Legacy => ledger' = schema')
    BY <1>2, <2>3 DEF ChainInv, Chain!TypeOK, Chain!LedgerIsTheSchema
  <2> QED
    BY <2>1, <2>3, <2>4, <2>5, <2>6, <2>7, OneMoves DEF ChainInv, Chain!TypeOK
<1>4. CASE /\ Chain!Collides(f) \/ plot.faults
           /\ run' = [run EXCEPT ![p] = Chain!Failed(p, f)]
           /\ holder' = IF holder = p THEN NoToken ELSE holder
           /\ UNCHANGED <<schema, ledger>>
  <2> DEFINE r == Chain!Failed(p, f)
  <2>1. r \in RunType /\ r.cmd = run[p].cmd /\ r.at = "failed" /\ r.stamped = run[p].stamped
    BY <1>1 DEF RunType, Chain!Failed
  <2>2. (plot.commands = {"script"} /\ ~Chain!Legacy) => ~Chain!Collides(f) \/ plot.faults
    BY <1>2 DEF Chain!Collides, ChainInv, NothingInTheWay, Chain!LedgerIsTheSchema, SessionsHoldTheLock
  <2> HIDE DEF r
  <2>3. Sound(p, r)
    BY <1>4, <2>1, <2>2 DEF Sound, ChainInv, SessionsHoldTheLock
  <2>4. run' = [run EXCEPT ![p] = r]
    BY <1>4 DEF r
  <2> QED
    BY <1>4, <2>3, <2>4, OneMoves DEF ChainInv, Chain!TypeOK, Chain!LedgerIsTheSchema, Chain!NoFileIsSkipped
<1> QED
  BY <1>3, <1>4 DEF Chain!Apply, f

\* Every step preserves the invariant.
LEMMA NextChain == ChainInv /\ [Chain!Next]_(Chain!chainVars) => ChainInv'
<1> SUFFICES ASSUME ChainInv, [Chain!Next]_(Chain!chainVars) PROVE ChainInv'
  OBVIOUS
<1> USE DEF ChainInv
<1>0. \A p \in Req : run[p] \in RunType
  BY DEF Chain!TypeOK, RunType
<1>1. ASSUME NEW p \in Req, NEW cmd \in Chain!Command \ {"idle"}, Chain!Start(p, cmd) PROVE ChainInv'
  <2> DEFINE r == [Chain!Asleep EXCEPT !.cmd = cmd, !.at = IF cmd = "script" THEN "lock" ELSE "plan"]
  <2>1. Sound(p, r)
    BY <1>1 DEF Chain!Start, Sound, RunType, Chain!Asleep, Chain!Command
  <2>2. run' = [run EXCEPT ![p] = r]
    BY <1>1 DEF Chain!Start
  <2> HIDE DEF r
  <2> QED
    BY <1>1, <2>1, <2>2, OneMoves DEF Chain!Start, Chain!TypeOK, Chain!LedgerIsTheSchema, Chain!NoFileIsSkipped
<1>2. ASSUME NEW p \in Req, Chain!Lock(p) PROVE ChainInv'
  <2> DEFINE r == [run[p] EXCEPT !.at = "stamp"]
  <2>1. Sound(p, r)
    BY <1>0, <1>2 DEF Chain!Lock, Sound, RunType, SessionsHoldTheLock
  <2>2. run' = [run EXCEPT ![p] = r]
    BY <1>2 DEF Chain!Lock, Chain!At
  <2> HIDE DEF r
  <2>3. \A q \in Req \ {p} : holder # q
    BY HouseAssumption, <1>2 DEF Chain!Lock, Chain!MayLock
  <2> QED
    BY <1>2, <2>1, <2>2, <2>3, OneMoves DEF Chain!Lock, Chain!TypeOK, Chain!LedgerIsTheSchema, Chain!NoFileIsSkipped
<1>3. ASSUME NEW p \in Req, Chain!LockTimeout(p) PROVE ChainInv'
  <2> DEFINE r == [run[p] EXCEPT !.at = "failed"]
  <2>1. Sound(p, r)
    BY <1>0, <1>3 DEF Chain!LockTimeout, Sound, RunType, SessionsHoldTheLock
  <2>2. run' = [run EXCEPT ![p] = r]
    BY <1>3 DEF Chain!LockTimeout, Chain!At
  <2> HIDE DEF r
  <2> QED
    BY <1>3, <2>1, <2>2, OneMoves DEF Chain!LockTimeout, Chain!TypeOK, Chain!LedgerIsTheSchema, Chain!NoFileIsSkipped
<1>4. ASSUME NEW p \in Req, Chain!Stamp(p) PROVE ChainInv'
  <2> DEFINE stamps == ledger = {} /\ 1 \in schema
             r == [run[p] EXCEPT !.at = "probe", !.stamped = stamps]
  <2>1. Sound(p, r)
    BY <1>0, <1>4, ZenonT(60) DEF Chain!Stamp, Sound, RunType, SessionsHoldTheLock
  <2>2. run' = [run EXCEPT ![p] = r]
    BY <1>4 DEF Chain!Stamp
  <2>3. ~Chain!Legacy => ~stamps
    BY DEF Chain!LedgerIsTheSchema
  <2>4. ledger' = IF stamps THEN Chain!Files(p) ELSE ledger
    BY <1>4 DEF Chain!Stamp
  <2>5. Chain!Files(p) \subseteq 1..MaxFile
    BY HouseAssumption DEF Chain!Files, Chain!TypeOK
  <2>6. holder = p
    BY <1>4 DEF Chain!Stamp, SessionsHoldTheLock
  <2> HIDE DEF r, stamps
  <2>7. stamps => ledger = {}
    BY DEF stamps
  <2> QED
    BY <1>4, <2>1, <2>2, <2>3, <2>4, <2>5, <2>6, <2>7, OneMoves DEF Chain!Stamp, Chain!TypeOK, Chain!LedgerIsTheSchema, Chain!NoFileIsSkipped
<1>5. ASSUME NEW p \in Req, Chain!Probe(p) PROVE ChainInv'
  <2>1. Chain!Ahead(p) \in SUBSET (1..MaxFile) /\ Chain!Ahead(p) \in SUBSET Nat
    BY HouseAssumption DEF Chain!Ahead, Chain!Files, Chain!TypeOK
  <2>2. CASE Chain!Ahead(p) = {}
    <3> DEFINE r == [run[p] EXCEPT !.at = IF run[p].stamped THEN "sentinels" ELSE "done"]
    <3>1. Sound(p, r)
      BY <1>0, <1>5 DEF Chain!Probe, Sound, RunType, SessionsHoldTheLock
    <3>2. run' = [run EXCEPT ![p] = r]
      BY <1>5, <2>2 DEF Chain!Probe, Chain!At
    <3> HIDE DEF r
    <3> QED
      BY <1>5, <2>2, <3>1, <3>2, OneMoves DEF Chain!Probe, Chain!TypeOK, Chain!LedgerIsTheSchema, Chain!NoFileIsSkipped
  <2>3. CASE Chain!Ahead(p) # {}
    <3> DEFINE f == Chain!Min(Chain!Ahead(p))
               r == [run[p] EXCEPT !.at = "apply", !.todo = {f}]
    <3>1. f \in Chain!Ahead(p) /\ \A g \in Chain!Ahead(p) : f <= g
      BY <2>1, <2>3, MinIsLeast
    <3>2. run' = [run EXCEPT ![p] = r] /\ UNCHANGED holder
      BY <1>5, <2>3 DEF Chain!Probe
    <3> HIDE DEF f
    <3>3. \A g \in 1..f : g \in {f} \cup ledger
      <4> TAKE g \in 1..f
      <4>1. f \in 1..image[p] /\ image[p] \in Nat
        BY <3>1 DEF Chain!Ahead, Chain!Files, Chain!TypeOK
      <4>2. g \in Chain!Files(p)
        BY <4>1 DEF Chain!Files
      <4> QED
        BY <3>1, <4>1, <4>2 DEF Chain!Ahead
    <3>4. Sound(p, r)
      BY <1>0, <1>5, <2>1, <3>1, <3>2, <3>3, ZenonT(60) DEF Chain!Probe, Sound, RunType, SessionsHoldTheLock, Chain!Ahead
    <3> HIDE DEF r
    <3> QED
      BY <1>5, <3>2, <3>4, OneMoves DEF Chain!Probe, Chain!TypeOK, Chain!LedgerIsTheSchema, Chain!NoFileIsSkipped
  <2> QED
    BY <2>2, <2>3
<1>6. ASSUME NEW p \in Req, Chain!ApplyFile(p) PROVE ChainInv'
  <2>1. CASE run[p].todo = {}
    <3> DEFINE r == [run[p] EXCEPT !.at = "probe"]
    <3>1. Sound(p, r)
      BY <1>0, <1>6, <2>1 DEF Chain!ApplyFile, Sound, RunType, SessionsHoldTheLock
    <3>2. run' = [run EXCEPT ![p] = r]
      BY <1>6, <2>1 DEF Chain!ApplyFile, Chain!At
    <3> HIDE DEF r
    <3> QED
      BY <1>6, <2>1, <3>1, <3>2, OneMoves DEF Chain!ApplyFile, Chain!TypeOK, Chain!LedgerIsTheSchema, Chain!NoFileIsSkipped
  <2>2. CASE run[p].todo # {}
    BY <1>6, <2>2, ApplyingIsSound DEF Chain!ApplyFile
  <2> QED
    BY <2>1, <2>2
<1>7. ASSUME NEW p \in Req, Chain!CheckSentinels(p) PROVE ChainInv'
  <2> DEFINE r == [run[p] EXCEPT !.at = "done"]
  <2>1. Sound(p, r)
    BY <1>0, <1>7 DEF Chain!CheckSentinels, Chain!Sentinels, Sound, RunType, SessionsHoldTheLock
  <2>2. run' = [run EXCEPT ![p] = r]
    BY <1>7 DEF Chain!CheckSentinels, Chain!At
  <2> HIDE DEF r
  <2> QED
    BY <1>7, <2>1, <2>2, OneMoves DEF Chain!CheckSentinels, Chain!TypeOK, Chain!LedgerIsTheSchema, Chain!NoFileIsSkipped
<1>8. ASSUME NEW p \in Req, Chain!Plan(p) PROVE ChainInv'
  <2>1. PICK todo : /\ Chain!Work(p, todo)
                    /\ \/ todo = {}
                       \/ run[p].cmd = "up" /\ todo \in {Chain!Files(p) \ ledger, Chain!Files(p)}
                       \/ run[p].cmd \in {"down", "downTo"} /\ todo \subseteq Chain!Files(p)
    <3>1. CASE run[p].cmd = "up" /\ Chain!Work(p, Chain!Files(p) \ ledger)
      BY <3>1
    <3>2. CASE run[p].cmd = "up" /\ Chain!Work(p, Chain!Files(p))
      BY <3>2
    <3>3. CASE run[p].cmd = "down" /\ Chain!Work(p, {f \in ledger \cap Chain!Files(p) : \A g \in ledger : g <= f})
      <4> DEFINE last == {f \in ledger \cap Chain!Files(p) : \A g \in ledger : g <= f}
      <4>1. last \subseteq Chain!Files(p)
        OBVIOUS
      <4> HIDE DEF last
      <4> QED
        BY <3>3, <4>1 DEF last
    <3>4. ASSUME NEW t \in 1..MaxFile, run[p].cmd = "downTo", Chain!Work(p, Chain!Above(t) \cap Chain!Files(p)) 
          PROVE  \E todo : /\ Chain!Work(p, todo)
                           /\ \/ todo = {}
                              \/ run[p].cmd = "up" /\ todo \in {Chain!Files(p) \ ledger, Chain!Files(p)}
                              \/ run[p].cmd \in {"down", "downTo"} /\ todo \subseteq Chain!Files(p)
      <4> DEFINE after == Chain!Above(t) \cap Chain!Files(p)
      <4>1. after \subseteq Chain!Files(p)
        OBVIOUS
      <4> HIDE DEF after
      <4> QED
        BY <3>4, <4>1 DEF after
    <3>5. CASE Chain!Work(p, {})
      BY <3>5
    <3> QED
      BY <1>8, <3>1, <3>2, <3>3, <3>4, <3>5 DEF Chain!Plan
  <2>2. Chain!Files(p) \subseteq 1..MaxFile
    BY HouseAssumption DEF Chain!Files, Chain!TypeOK
  <2> DEFINE r == [run[p] EXCEPT !.at = "work", !.todo = todo]
  <2>3. run[p].cmd = "up" => \A f \in todo : \A g \in 1..f : g \in todo \cup ledger
    <3> SUFFICES ASSUME run[p].cmd = "up", NEW f \in todo, NEW g \in 1..f PROVE g \in todo \cup ledger
      OBVIOUS
    <3>1. f \in Chain!Files(p) /\ image[p] \in Nat
      BY <2>1 DEF Chain!TypeOK
    <3>2. g \in Chain!Files(p)
      BY <3>1 DEF Chain!Files
    <3> QED
      BY <2>1, <3>2
  <2>4. r \in RunType /\ r.cmd = run[p].cmd /\ r.at = "work" /\ r.todo = todo /\ r.stamped = run[p].stamped
    BY <1>0, <2>1, <2>2 DEF RunType
  <2>5. run[p].cmd # "script" /\ ~run[p].stamped /\ run[p].cmd \in plot.commands \cup {"idle"}
    BY <1>8 DEF Chain!Plan, SessionsHoldTheLock
  <2>8. plot.commands \subseteq {"script", "up"} => run[p].cmd = "up"
    BY <1>8, <2>5 DEF Chain!Plan, SessionsHoldTheLock
  <2>6. run' = [run EXCEPT ![p] = r]
    BY <2>1 DEF Chain!Work
  <2> HIDE DEF r
  <2>7. Sound(p, r)
    BY <1>8, <2>3, <2>4, <2>5, <2>8 DEF Chain!Plan, Sound, SessionsHoldTheLock
  <2> QED
    BY <1>8, <2>6, <2>7, OneMoves DEF Chain!Plan, Chain!TypeOK, Chain!LedgerIsTheSchema, Chain!NoFileIsSkipped
<1>9. ASSUME NEW p \in Req, Chain!ExecuteMigration(p) PROVE ChainInv'
  <2>1. CASE run[p].todo = {}
    <3> DEFINE r == [run[p] EXCEPT !.at = "done"]
    <3>1. Sound(p, r)
      BY <1>0, <1>9, <2>1 DEF Chain!ExecuteMigration, Sound, RunType, SessionsHoldTheLock
    <3>2. run' = [run EXCEPT ![p] = r]
      BY <1>9, <2>1 DEF Chain!ExecuteMigration, Chain!At
    <3> HIDE DEF r
    <3> QED
      BY <1>9, <2>1, <3>1, <3>2, OneMoves DEF Chain!ExecuteMigration, Chain!TypeOK, Chain!LedgerIsTheSchema, Chain!NoFileIsSkipped
  <2>2. CASE run[p].todo # {}
    BY <1>9, <2>2, ApplyingIsSound DEF Chain!ExecuteMigration
  <2> QED
    BY <2>1, <2>2
<1>10. ASSUME NEW p \in Req, Chain!RollbackMigration(p) PROVE ChainInv'
  <2>1. PICK f : /\ run[p].cmd \in {"down", "downTo"} /\ run[p].at = "work"
                 /\ \/ Chain!At(p, "done") /\ UNCHANGED <<schema, ledger>>
                    \/ /\ schema' = schema \ {f} /\ ledger' = ledger \ {f}
                       /\ run' = [run EXCEPT ![p].todo = @ \ {f}]
                    \/ run' = [run EXCEPT ![p] = Chain!Failed(p, f)] /\ UNCHANGED <<schema, ledger>>
    BY <1>10 DEF Chain!RollbackMigration
  <2>2. run[p].cmd \in plot.commands /\ ~run[p].stamped
    BY <2>1 DEF SessionsHoldTheLock
  <2>3. PICK r \in RunType : r.cmd = run[p].cmd /\ r.stamped = run[p].stamped /\ r.at \in {"done", "work", "failed"} /\ run' = [run EXCEPT ![p] = r]
    <3>1. CASE Chain!At(p, "done")
      <4>1. [run[p] EXCEPT !.at = "done"] \in RunType
        BY <1>0 DEF RunType
      <4> QED
        BY <1>0, <3>1, <4>1 DEF Chain!At, RunType
    <3>2. CASE run' = [run EXCEPT ![p].todo = @ \ {f}]
      <4>1. [run[p] EXCEPT !.todo = @ \ {f}] \in RunType
        BY <1>0 DEF RunType
      <4> QED
        BY <1>0, <2>1, <3>2, <4>1 DEF RunType
    <3>3. CASE run' = [run EXCEPT ![p] = Chain!Failed(p, f)]
      <4>1. Chain!Failed(p, f) \in RunType /\ Chain!Failed(p, f).cmd = run[p].cmd /\ Chain!Failed(p, f).at = "failed"
            /\ Chain!Failed(p, f).stamped = run[p].stamped
        BY <1>0 DEF RunType, Chain!Failed
      <4> QED
        BY <3>3, <4>1
    <3> QED
      BY <2>1, <3>1, <3>2, <3>3
  <2>4. Sound(p, r)
    BY <2>1, <2>2, <2>3 DEF Sound
  <2> QED
    <3>1. UNCHANGED <<plot, image, holder, warned, crashes>>
      BY <1>10 DEF Chain!RollbackMigration
    <3>2. /\ schema \subseteq 1..MaxFile /\ ledger \subseteq 1..MaxFile /\ holder \in Req \cup {NoToken}
          /\ warned \in BOOLEAN /\ crashes \in 0..MaxCrashes
      BY DEF ChainInv, Chain!TypeOK
    <3>3. schema' \subseteq 1..MaxFile /\ ledger' \subseteq 1..MaxFile
      BY <2>1, <3>2
    <3>4. ~(plot.commands \subseteq {"script", "up"})
      BY <2>1, <2>2
    <3>5. ~Chain!Legacy => ledger' = schema'
      BY <2>1 DEF ChainInv, Chain!LedgerIsTheSchema
    <3>6. /\ holder' \in Req \cup {NoToken} /\ warned' \in BOOLEAN /\ crashes' \in 0..MaxCrashes
          /\ \A q \in Req \ {p} : holder = q => holder' = q
          /\ warned => warned'
      BY <3>1, <3>2
    <3>7. plot.commands # {"script"}
      BY <3>4
    <3> QED
      BY <2>3, <2>4, <3>1, <3>3, <3>4, <3>5, <3>6, <3>7, OneMoves
<1>11. ASSUME NEW p \in Req, Chain!Crash(p) PROVE ChainInv'
  <2>1. Sound(p, Chain!Asleep)
    BY DEF Sound, RunType, Chain!Asleep, Chain!Command
  <2>2. crashes' \in 0..MaxCrashes
    BY HouseAssumption, <1>11 DEF Chain!Crash, Chain!TypeOK
  <2> QED
    BY <1>11, <2>1, <2>2, OneMoves DEF Chain!Crash, Chain!TypeOK, Chain!LedgerIsTheSchema, Chain!NoFileIsSkipped
<1>12. CASE UNCHANGED Chain!chainVars
  BY <1>12 DEF Chain!chainVars, Chain!TypeOK, SessionsHoldTheLock, NothingInTheWay, TodoIsUpward,
     Chain!LedgerIsTheSchema, Chain!NoFileIsSkipped, Chain!BehindIsLoud, Chain!Legacy, Chain!Files
<1> QED
  BY <1>1, <1>2, <1>3, <1>4, <1>5, <1>6, <1>7, <1>8, <1>9, <1>10, <1>11, <1>12 DEF Chain!Next

-----------------------------------------------------------------------------
\* The ledger is the schema on what the chain has built, files go through once and in order,
\* replicas that boot together all succeed, and a stamped volume that lacks files is loud:
\* for any chain, any number of processes and of crashes.
THEOREM ChainHolds == HouseSpec => []ChainIsApplied
<1> DEFINE Inv == part = "migrations" => ChainInv
<1>1. HouseInit => Inv
  BY InitChain DEF HouseInit
<1>2. Inv /\ [HouseNext]_<<part, vars, consoleVars, migrationVars>> => Inv'
  <2> SUFFICES ASSUME Inv, [HouseNext]_<<part, vars, consoleVars, migrationVars>>, part' = "migrations"
               PROVE  ChainInv'
    OBVIOUS
  <2>1. part = "migrations" /\ [Chain!Next]_(Chain!chainVars)
    BY DEF HouseNext, migrationVars, Chain!chainVars
  <2> QED
    BY <2>1, NextChain
<1>3. Inv => ChainIsApplied
  BY DEF ChainIsApplied, ChainInv, Chain!ChainIsApplied, NothingInTheWay, Chain!LosersSucceed
<1> QED
  BY <1>1, <1>2, <1>3, PTL DEF HouseSpec
-----------------------------------------------------------------------------
(* The session of the console (Browser) *)

\* A token that windows and requests may know: the server has made it.
Known(t, rs) == t = NoToken \/ (t \in Browser!Pair /\ rs[t] # "none")

RequestFits(q, kinds, rs) ==
  q = Browser!Idle \/
    /\ q \in Browser!Call /\ q.kind \in kinds
    /\ q.kind = "logout" => q.body # NoToken
    /\ q.at = "waiting" => q.tries = 2
    /\ Known(q.bearer, rs) /\ Known(q.body, rs)

FlightFits(f, rs) ==
  f = Browser!NoFlight \/
    /\ f \in Browser!Flight /\ f.at # "none"
    /\ f.token \in Browser!Pair /\ rs[f.token] # "none"
    /\ f.at = "rotated" => f.token[2] < MaxRotation /\ rs[Browser!Next1(f.token)] # "none"

\* What a window holds and waits for; a refresh is for somebody who waits.
WindowFits(m, k, f, kinds, rs) ==
  /\ m \in Browser!Store /\ Known(m.pair, rs)
  /\ k \in [Slot -> Browser!Call \cup {Browser!Idle}]
  /\ \A c \in Slot : RequestFits(k[c], kinds, rs)
  /\ f \in Browser!Flight /\ FlightFits(f, rs)
  /\ f # Browser!NoFlight => \E c \in Slot : k[c].at = "waiting"

States == {"none", "live", "spent", "lapsed", "revoked"}

\* The successor of a token that can still be rotated has not been made.
RowsFit(rs) ==
  /\ rs \in [Browser!Pair -> States]
  /\ \A t \in Browser!Pair :
       t[2] < MaxRotation /\ rs[t] \in {"none", "live"} => rs[Browser!Next1(t)] = "none"

Made(rs) == {t \in Browser!Pair : rs[t] # "none"}

WindowsFit ==
  /\ screen \in Talks /\ open \subseteq Req
  /\ (screen.windows = 1) => \E w \in Req : open = {w}
  /\ (screen.windows = 2) => open # {}
  /\ mem \in [Req -> Browser!Store] /\ refresh \in [Req -> Browser!Flight]
  /\ call \in [Req -> [Slot -> Browser!Call \cup {Browser!Idle}]]
  /\ \A w \in open : WindowFits(mem[w], call[w], refresh[w], screen.kinds, serverRow)
  /\ \A w \in Req \ open : refresh[w] = Browser!NoFlight /\ \A c \in Slot : call[w][c] = Browser!Idle
  /\ disk \in Browser!Saved /\ Known(disk.pair, serverRow)
  /\ RowsFit(serverRow) /\ expired \subseteq Made(serverRow)
  /\ code \in {"fresh", "posted", "used"}
  /\ burned \in BOOLEAN /\ torn \in BOOLEAN /\ ended \subseteq 1..MaxLogin

\* One window alone presents a token only while the server would rotate it, or has revoked it.
Usable == {"live", "revoked"}

OwnFits(m, f, d, rs) ==
  /\ d.pair = m.pair
  /\ m.pair # NoToken => rs[m.pair] \in Usable \/ (f.at = "rotated" /\ f.token = m.pair)
  /\ f.at = "sent" => rs[f.token] \in Usable
  /\ f.at = "rotated" => rs[Browser!Next1(f.token)] \in Usable

OwnTokens ==
  (screen.windows = 1 /\ ~torn) =>
    ~burned /\ \A w \in open : OwnFits(mem[w], refresh[w], disk, serverRow)

\* A request that is sent again carries a bearer that is good.
SentAgain(k, f, old) ==
  /\ f.at = "rotated" => Browser!Next1(f.token) \notin old
  /\ \A c \in Slot : (k[c].at = "wire" /\ k[c].tries = 2) => k[c].bearer \notin old \cup {NoToken}

LoneScene ==
  /\ screen.windows = 1 /\ Browser!Untroubled /\ ~screen.stepUps
  /\ screen.kinds \subseteq {"data", "me", "exchange"}

LoneFits(m, k, f, cd) ==
  /\ m.pair # NoToken /\ f.at # "refused"
  /\ \A c \in Slot : k[c] # Browser!Idle =>
       /\ k[c].bearer # NoToken
       /\ k[c].kind = "exchange" =>
            /\ cd = "posted" /\ k[c].at = "wire"
            /\ \A b \in Slot : (k[b] # Browser!Idle /\ k[b].kind = "exchange") => b = c

\* A window alone always has a token, and the code is exchanged by one request.
LoneTokens ==
  LoneScene =>
    /\ ~torn /\ \A t \in Browser!Pair : serverRow[t] # "revoked"
    /\ \A w \in open : LoneFits(mem[w], call[w], refresh[w], code) /\ SentAgain(call[w], refresh[w], expired)

TwoScene ==
  screen.windows = 2 /\ Browser!Untroubled /\ screen.grace /\ screen.kinds \subseteq {"data", "me"}

TwoFits(m, f, rs) ==
  /\ f # Browser!NoFlight => f.token = m.pair
  /\ f.at = "refused" => rs[f.token] # "live"

\* Of two windows, each refreshes with the token it has, and only who is late is refused.
TwoTokens ==
  TwoScene =>
    /\ \A t \in Browser!Pair : serverRow[t] \in {"none", "live", "spent"}
    /\ \A w \in open : TwoFits(mem[w], refresh[w], serverRow) /\ SentAgain(call[w], refresh[w], expired)

\* A window has token t, or an answer that brings it.
Has(m, f, t) == m.pair = t \/ (f.at = "rotated" /\ Browser!Next1(f.token) = t)

SomebodyHas ==
  TwoScene => \E w \in open, t \in Browser!Pair : serverRow[t] = "live" /\ Has(mem[w], refresh[w], t)

BrowserInv == WindowsFit /\ OwnTokens /\ LoneTokens /\ TwoTokens /\ SomebodyHas

-----------------------------------------------------------------------------
LEMMA PairFacts ==
  /\ \A t \in Browser!Pair : t[1] \in 1..MaxLogin /\ t[2] \in 1..MaxRotation /\ t # NoToken
  /\ \A t \in Browser!Pair : t[2] < MaxRotation => Browser!Next1(t) \in Browser!Pair /\ Browser!Next1(t) # t
  /\ \A n \in 1..MaxLogin : <<n, 1>> \in Browser!Pair
<1>1. MaxLogin \in Nat \ {0} /\ MaxRotation \in Nat \ {0} /\ NoToken \notin Browser!Pair
  BY HouseAssumption
<1> QED
  BY <1>1 DEF Browser!Pair, Browser!Next1

LEMMA InitBrowser == Browser!Init => BrowserInv
<1> SUFFICES ASSUME Browser!Init PROVE BrowserInv
  OBVIOUS
<1> DEFINE T == <<1, 1>>
<1>0. T \in Browser!Pair /\ T # NoToken /\ T[2] = 1
  BY PairFacts, HouseAssumption
<1>1. \A S : Browser!Cardinality(S) = Cardinality(S)
  BY DEF Browser!Cardinality, Cardinality
<1>2. screen \in Talks /\ open \subseteq Req /\ Cardinality(open) = screen.windows
  BY <1>1 DEF Browser!Init
<1>3. IsFiniteSet(open)
  BY <1>2, FS_Subset, HouseAssumption
<1>4. screen.windows = 1 => \E w \in Req : open = {w}
  <2> SUFFICES ASSUME screen.windows = 1 PROVE \E w \in Req : open = {w}
    OBVIOUS
  <2>1. PICK w : open = {w}
    BY <1>2, <1>3, FS_Singleton
  <2> QED
    BY <1>2, <2>1
<1>5. screen.windows = 2 => open # {}
  BY <1>2, FS_EmptySet
<1>6. \A w \in Req : mem[w] = [pair |-> T, in |-> TRUE, mfa |-> FALSE] /\ refresh[w] = Browser!NoFlight
                     /\ call[w] = [c \in Slot |-> Browser!Idle]
  BY DEF Browser!Init
<1>7. serverRow = [t \in Browser!Pair |-> IF t = T THEN "live" ELSE "none"]
  BY DEF Browser!Init
<1>8. RowsFit(serverRow)
  BY <1>0, <1>7, PairFacts DEF RowsFit, States, Browser!Next1
<1>9. /\ mem \in [Req -> Browser!Store] /\ refresh \in [Req -> Browser!Flight]
      /\ call \in [Req -> [Slot -> Browser!Call \cup {Browser!Idle}]]
      /\ disk \in Browser!Saved /\ disk.pair = T
  BY <1>0 DEF Browser!Init, Browser!Store, Browser!Saved, Browser!Flight, Browser!NoFlight
<1>10. ASSUME NEW w \in Req PROVE WindowFits(mem[w], call[w], refresh[w], screen.kinds, serverRow)
  <2>1. Known(mem[w].pair, serverRow)
    BY <1>0, <1>6, <1>7 DEF Known
  <2>2. \A c \in Slot : RequestFits(call[w][c], screen.kinds, serverRow)
    BY <1>6 DEF RequestFits
  <2>3. FlightFits(refresh[w], serverRow) /\ refresh[w] = Browser!NoFlight
    BY <1>6 DEF FlightFits
  <2>4. mem[w] \in Browser!Store /\ refresh[w] \in Browser!Flight /\ call[w] \in [Slot -> Browser!Call \cup {Browser!Idle}]
    BY <1>9
  <2> QED
    BY <2>1, <2>2, <2>3, <2>4 DEF WindowFits
<1>11. WindowsFit
  BY <1>0, <1>2, <1>4, <1>5, <1>6, <1>7, <1>8, <1>9, <1>10 DEF WindowsFit, Browser!Init, Known, Made
<1>12. \A w \in Req : refresh[w].at = "none" /\ mem[w].pair = T /\ serverRow[T] = "live"
  BY <1>0, <1>6, <1>7 DEF Browser!NoFlight
<1>13. OwnTokens
  BY <1>2, <1>9, <1>12 DEF OwnTokens, OwnFits, Usable, Browser!Init
<1>14. \A w \in Req : SentAgain(call[w], refresh[w], expired)
  BY <1>6, <1>12 DEF SentAgain, Browser!Idle
<1>15. LoneTokens
  BY <1>0, <1>2, <1>6, <1>7, <1>12, <1>14 DEF LoneTokens, LoneFits, Browser!Init
<1>16. TwoTokens
  BY <1>2, <1>6, <1>7, <1>12, <1>14 DEF TwoTokens, TwoFits
<1>17. SomebodyHas
  BY <1>0, <1>2, <1>5, <1>12 DEF SomebodyHas, TwoScene, Has
<1> QED
  BY <1>11, <1>13, <1>15, <1>16, <1>17 DEF BrowserInv

-----------------------------------------------------------------------------
\* The server's rows lose no token.
LEMMA KnownStays ==
  ASSUME NEW rs, NEW rt, \A t \in Browser!Pair : rs[t] # "none" => rt[t] # "none"
  PROVE  /\ \A t : Known(t, rs) => Known(t, rt)
         /\ \A m, k, f, kinds : WindowFits(m, k, f, kinds, rs) => WindowFits(m, k, f, kinds, rt)
<1>1. \A t : Known(t, rs) => Known(t, rt)
  BY DEF Known
<1>2. \A q, kinds : RequestFits(q, kinds, rs) => RequestFits(q, kinds, rt)
  BY <1>1 DEF RequestFits
<1>3. \A f : FlightFits(f, rs) => FlightFits(f, rt)
  <2> SUFFICES ASSUME NEW f, FlightFits(f, rs), f # Browser!NoFlight PROVE FlightFits(f, rt)
    BY DEF FlightFits
  <2>1. f.token \in Browser!Pair /\ rs[f.token] # "none"
    BY DEF FlightFits
  <2>2. f.at = "rotated" => f.token[2] < MaxRotation /\ Browser!Next1(f.token) \in Browser!Pair /\ rs[Browser!Next1(f.token)] # "none"
    BY <2>1, PairFacts DEF FlightFits
  <2> QED
    BY <2>1, <2>2 DEF FlightFits
<1> QED
  BY <1>1, <1>2, <1>3 DEF WindowFits

\* What a step leaves alone: everything but one window, the copy on disk, the rows and the
\* code.  (Without an answer from the server, the rows are the same.)
Moves(w, m, k, f, d, rs) ==
  /\ screen' = screen /\ open' = open
  /\ mem' = [mem EXCEPT ![w] = m] /\ call' = [call EXCEPT ![w] = k] /\ refresh' = [refresh EXCEPT ![w] = f]
  /\ disk' = d /\ serverRow' = rs /\ expired' = expired
  /\ burned' \in BOOLEAN /\ torn' \in BOOLEAN /\ ended' \subseteq 1..MaxLogin
  /\ code' \in {"fresh", "posted", "used"}

LEMMA WindowMoves ==
  ASSUME BrowserInv, NEW w \in open, NEW m, NEW k, NEW f, NEW d, NEW rs,
         Moves(w, m, k, f, d, rs),
         WindowFits(m, k, f, screen.kinds, rs), d \in Browser!Saved, Known(d.pair, rs),
         RowsFit(rs), \A t \in Browser!Pair : serverRow[t] # "none" => rs[t] # "none",
         (screen.windows = 1 /\ ~torn') => ~burned' /\ OwnFits(m, f, d, rs),
         LoneScene => /\ ~torn' /\ \A t \in Browser!Pair : rs[t] # "revoked"
                      /\ LoneFits(m, k, f, code') /\ SentAgain(k, f, expired),
         TwoScene => /\ \A t \in Browser!Pair : rs[t] \in {"none", "live", "spent"}
                     /\ TwoFits(m, f, rs) /\ SentAgain(k, f, expired)
                     /\ \A v \in open \ {w} : TwoFits(mem[v], refresh[v], rs),
         TwoScene => \E t \in Browser!Pair :
           rs[t] = "live" /\ (Has(m, f, t) \/ \E v \in open \ {w} : Has(mem[v], refresh[v], t))
  PROVE  BrowserInv'
<1>0. WindowsFit /\ open \subseteq Req /\ w \in Req
  BY DEF BrowserInv, WindowsFit
<1>1. /\ mem'[w] = m /\ call'[w] = k /\ refresh'[w] = f
      /\ \A v \in Req \ {w} : mem'[v] = mem[v] /\ call'[v] = call[v] /\ refresh'[v] = refresh[v]
  BY <1>0 DEF WindowsFit, Moves
<1>2. /\ screen' = screen /\ open' = open /\ serverRow' = rs /\ disk' = d /\ expired' = expired
  BY DEF Moves
<1>3. WindowsFit'
  <2>1. \A v \in open' : WindowFits(mem'[v], call'[v], refresh'[v], screen'.kinds, serverRow')
    <3> SUFFICES ASSUME NEW v \in open PROVE WindowFits(mem'[v], call'[v], refresh'[v], screen.kinds, rs)
      BY <1>2
    <3>1. CASE v = w
      BY <1>1, <3>1
    <3>2. CASE v # w
      <4>1. WindowFits(mem[v], call[v], refresh[v], screen.kinds, rs)
        BY <1>0, KnownStays DEF WindowsFit
      <4> QED
        BY <1>0, <1>1, <3>2, <4>1
    <3> QED
      BY <3>1, <3>2
  <2>2. \A v \in Req \ open : refresh'[v] = Browser!NoFlight /\ \A c \in Slot : call'[v][c] = Browser!Idle
    BY <1>0, <1>1 DEF WindowsFit
  <2>3. m \in Browser!Store /\ k \in [Slot -> Browser!Call \cup {Browser!Idle}] /\ f \in Browser!Flight
    BY DEF WindowFits
  <2>4. /\ mem' \in [Req -> Browser!Store] /\ refresh' \in [Req -> Browser!Flight]
        /\ call' \in [Req -> [Slot -> Browser!Call \cup {Browser!Idle}]]
    BY <1>0, <2>3 DEF WindowsFit, Moves
  <2>5. expired' \subseteq Made(serverRow')
    BY <1>0, <1>2 DEF WindowsFit, Made
  <2>6. screen' \in Talks /\ (screen'.windows = 1 => \E v \in Req : open' = {v}) /\ (screen'.windows = 2 => open' # {})
    BY <1>0, <1>2 DEF WindowsFit
  <2>7. disk' \in Browser!Saved /\ Known(disk'.pair, serverRow') /\ RowsFit(serverRow')
    BY <1>2
  <2>8. /\ code' \in {"fresh", "posted", "used"}
        /\ burned' \in BOOLEAN /\ torn' \in BOOLEAN /\ ended' \subseteq 1..MaxLogin
    BY DEF Moves
  <2> QED
    BY <1>0, <1>2, <2>1, <2>2, <2>4, <2>5, <2>6, <2>7, <2>8 DEF WindowsFit
<1>4. screen.windows = 1 => open = {w}
  BY <1>0 DEF WindowsFit
<1>5. OwnTokens'
  BY <1>1, <1>2, <1>4 DEF OwnTokens
<1>6. LoneTokens'
  <2> SUFFICES ASSUME LoneScene PROVE LoneTokens'
    BY <1>2 DEF LoneTokens, LoneScene, Browser!Untroubled
  <2>1. open' = {w}
    BY <1>2, <1>4 DEF LoneScene
  <2> QED
    BY <1>1, <1>2, <2>1 DEF LoneTokens
<1>7. TwoTokens'
  <2> SUFFICES ASSUME TwoScene PROVE TwoTokens'
    BY <1>2 DEF TwoTokens, TwoScene, Browser!Untroubled
  <2>1. \A v \in open : SentAgain(call[v], refresh[v], expired)
    BY DEF BrowserInv, TwoTokens
  <2>2. \A v \in open' : TwoFits(mem'[v], refresh'[v], serverRow') /\ SentAgain(call'[v], refresh'[v], expired')
    BY <1>0, <1>1, <1>2, <2>1
  <2> QED
    BY <1>2, <2>2 DEF TwoTokens
<1>8. SomebodyHas'
  <2> SUFFICES ASSUME TwoScene PROVE SomebodyHas'
    BY <1>2 DEF SomebodyHas, TwoScene, Browser!Untroubled
  <2>1. PICK t \in Browser!Pair : rs[t] = "live" /\ (Has(m, f, t) \/ \E v \in open \ {w} : Has(mem[v], refresh[v], t))
    OBVIOUS
  <2>2. \E v \in open : Has(mem'[v], refresh'[v], t)
    BY <1>0, <1>1, <2>1
  <2> QED
    BY <1>2, <2>1, <2>2 DEF SomebodyHas
<1> QED
  BY <1>3, <1>5, <1>6, <1>7, <1>8 DEF BrowserInv
-----------------------------------------------------------------------------
\* What a window may be.
LEMMA WindowIs ==
  ASSUME BrowserInv, NEW w \in open
  PROVE  /\ w \in Req /\ mem[w] \in Browser!Store /\ Known(mem[w].pair, serverRow)
         /\ WindowFits(mem[w], call[w], refresh[w], screen.kinds, serverRow)
         /\ call[w] \in [Slot -> Browser!Call \cup {Browser!Idle}]
         /\ \A c \in Slot : RequestFits(call[w][c], screen.kinds, serverRow)
         /\ mem = [mem EXCEPT ![w] = mem[w]] /\ call = [call EXCEPT ![w] = call[w]]
         /\ refresh = [refresh EXCEPT ![w] = refresh[w]]
         /\ (screen.windows = 1 => open = {w})
<1>1. WindowsFit
  BY DEF BrowserInv
<1>2. w \in Req /\ WindowFits(mem[w], call[w], refresh[w], screen.kinds, serverRow)
  BY <1>1 DEF WindowsFit
<1>3. mem = [mem EXCEPT ![w] = mem[w]] /\ call = [call EXCEPT ![w] = call[w]] /\ refresh = [refresh EXCEPT ![w] = refresh[w]]
  BY <1>1 DEF WindowsFit
<1>4. screen.windows = 1 => open = {w}
  BY <1>1 DEF WindowsFit
<1> QED
  BY <1>2, <1>3, <1>4 DEF WindowFits

\* A request that is under way belongs to a window that is open.
LEMMA RequestsAreOpen ==
  ASSUME BrowserInv, NEW w \in Req, NEW c \in Slot, call[w][c].at \in {"wire", "waiting"}
  PROVE  w \in open /\ call[w][c] # Browser!Idle
<1>1. call[w][c] # Browser!Idle
  BY DEF Browser!Idle
<1> QED
  BY <1>1 DEF BrowserInv, WindowsFit

\* One request of a window changes.
LEMMA RequestChanges ==
  ASSUME BrowserInv, NEW w \in open, NEW c \in Slot, NEW q \in Browser!Call \cup {Browser!Idle}
  PROVE  LET k == [call[w] EXCEPT ![c] = q]
         IN /\ [call EXCEPT ![w][c] = q] = [call EXCEPT ![w] = k]
            /\ k \in [Slot -> Browser!Call \cup {Browser!Idle}]
            /\ k[c] = q /\ \A b \in Slot \ {c} : k[b] = call[w][b]
<1>1. call[w] \in [Slot -> Browser!Call \cup {Browser!Idle}]
  BY WindowIs
<1> QED
  BY <1>1

\* The other windows, while the rows stay.
LEMMA OthersStay ==
  ASSUME BrowserInv, NEW w \in open, NEW m, NEW f,
         \A t \in Browser!Pair : Has(mem[w], refresh[w], t) => Has(m, f, t)
  PROVE  TwoScene =>
           /\ \A t \in Browser!Pair : serverRow[t] \in {"none", "live", "spent"}
           /\ \A v \in open : TwoFits(mem[v], refresh[v], serverRow)
           /\ SentAgain(call[w], refresh[w], expired)
           /\ \E t \in Browser!Pair :
                serverRow[t] = "live" /\ (Has(m, f, t) \/ \E v \in open \ {w} : Has(mem[v], refresh[v], t))
<1> SUFFICES ASSUME TwoScene
             PROVE  /\ \A t \in Browser!Pair : serverRow[t] \in {"none", "live", "spent"}
                    /\ \A v \in open : TwoFits(mem[v], refresh[v], serverRow)
                    /\ SentAgain(call[w], refresh[w], expired)
                    /\ \E t \in Browser!Pair :
                         serverRow[t] = "live" /\ (Has(m, f, t) \/ \E v \in open \ {w} : Has(mem[v], refresh[v], t))
  OBVIOUS
<1>1. PICK v \in open, t \in Browser!Pair : serverRow[t] = "live" /\ Has(mem[v], refresh[v], t)
  BY DEF BrowserInv, SomebodyHas
<1>2. Has(m, f, t) \/ \E x \in open \ {w} : Has(mem[x], refresh[x], t)
  BY <1>1
<1> QED
  BY <1>1, <1>2 DEF BrowserInv, TwoTokens

LEMMA BeginKeeps ==
  ASSUME BrowserInv, NEW w \in Req, NEW c \in Slot, NEW kind \in Browser!Kinds, Browser!Begin(w, c, kind)
  PROVE  BrowserInv'
<1> DEFINE q == [kind |-> kind, body |-> IF kind = "logout" THEN mem[w].pair ELSE NoToken,
                 bearer |-> mem[w].pair, tries |-> 1, at |-> "wire"]
           k == [call[w] EXCEPT ![c] = q]
<1>1. w \in open /\ kind \in screen.kinds /\ call[w][c] = Browser!Idle /\ Browser!MayBegin(w, kind)
  BY DEF Browser!Begin
<1>2. mem[w] \in Browser!Store /\ Known(mem[w].pair, serverRow)
      /\ mem[w].pair \in Browser!Pair \cup {NoToken}
  BY <1>1, WindowIs DEF Browser!Store
<1>3. q \in Browser!Call
  BY <1>2 DEF Browser!Call
<1>4. kind = "logout" => mem[w].pair # NoToken
  BY <1>1 DEF Browser!MayBegin
<1>5. RequestFits(q, screen.kinds, serverRow)
  BY <1>1, <1>2, <1>3, <1>4 DEF RequestFits, Known
<1>6. q # Browser!Idle /\ q.at = "wire" /\ q.tries = 1 /\ q.kind = kind /\ q.bearer = mem[w].pair
  BY DEF Browser!Idle
<1> HIDE DEF q
<1>7. /\ [call EXCEPT ![w][c] = q] = [call EXCEPT ![w] = k] /\ k \in [Slot -> Browser!Call \cup {Browser!Idle}]
      /\ k[c] = q /\ \A b \in Slot \ {c} : k[b] = call[w][b]
  BY <1>1, <1>3, RequestChanges
<1> HIDE DEF k
<1>8. call' = [call EXCEPT ![w] = k]
  BY <1>7 DEF Browser!Begin, q
<1>9. /\ screen' = screen /\ open' = open /\ refresh' = refresh /\ serverRow' = serverRow /\ expired' = expired
      /\ burned' = burned /\ torn' = torn /\ ended' = ended
      /\ mem' = mem /\ disk' \in {disk, [pair |-> mem[w].pair, in |-> mem[w].in]}
      /\ code' = IF kind = "exchange" /\ code = "fresh" THEN "posted" ELSE code
  BY <1>1, WindowIs DEF Browser!Begin, Browser!Save
<1>10. Moves(w, mem[w], k, refresh[w], disk', serverRow)
  BY <1>1, <1>8, <1>9, WindowIs DEF Moves, BrowserInv, WindowsFit
<1>11. disk' \in Browser!Saved /\ Known(disk'.pair, serverRow) /\ (disk.pair = mem[w].pair => disk'.pair = mem[w].pair)
  BY <1>2, <1>9 DEF BrowserInv, WindowsFit, Browser!Saved, Browser!Store
<1>12. WindowFits(mem[w], k, refresh[w], screen.kinds, serverRow)
  <2>1. \A b \in Slot : RequestFits(k[b], screen.kinds, serverRow)
    BY <1>1, <1>5, <1>7, WindowIs
  <2>2. refresh[w] # Browser!NoFlight => \E b \in Slot : k[b].at = "waiting"
    <3> SUFFICES ASSUME refresh[w] # Browser!NoFlight PROVE \E b \in Slot : k[b].at = "waiting"
      OBVIOUS
    <3>1. PICK b \in Slot : call[w][b].at = "waiting"
      BY <1>1, WindowIs DEF WindowFits
    <3>2. b # c
      BY <1>1, <3>1 DEF Browser!Idle
    <3> QED
      BY <1>7, <3>1, <3>2
  <2> QED
    BY <1>1, <1>7, <2>1, <2>2, WindowIs DEF WindowFits
<1>13. (screen.windows = 1 /\ ~torn') => ~burned' /\ OwnFits(mem[w], refresh[w], disk', serverRow)
  BY <1>1, <1>9, <1>11 DEF BrowserInv, OwnTokens, OwnFits
<1>14. SentAgain(call[w], refresh[w], expired) => SentAgain(k, refresh[w], expired)
  BY <1>6, <1>7 DEF SentAgain
<1>15. LoneScene => LoneFits(mem[w], k, refresh[w], code')
  <2> SUFFICES ASSUME LoneScene PROVE LoneFits(mem[w], k, refresh[w], code')
    OBVIOUS
  <2>1. LoneFits(mem[w], call[w], refresh[w], code)
    BY <1>1 DEF BrowserInv, LoneTokens
  <2>2. kind = "exchange" => code = "fresh" /\ code' = "posted"
    BY <1>1, <1>9 DEF Browser!MayBegin, Browser!MayExchange
  <2>3. kind = "exchange" => \A b \in Slot : call[w][b] # Browser!Idle => call[w][b].kind # "exchange"
    BY <2>1, <2>2 DEF LoneFits
  <2>4. code = "posted" => code' = "posted"
    BY <1>9
  <2> QED
    BY <1>1, <1>6, <1>7, <2>1, <2>2, <2>3, <2>4 DEF LoneFits
<1>16. TwoScene =>
         /\ \A t \in Browser!Pair : serverRow[t] \in {"none", "live", "spent"}
         /\ TwoFits(mem[w], refresh[w], serverRow) /\ SentAgain(k, refresh[w], expired)
         /\ \A v \in open \ {w} : TwoFits(mem[v], refresh[v], serverRow)
  BY <1>1, <1>14 DEF BrowserInv, TwoTokens
<1>17. TwoScene => \E t \in Browser!Pair : serverRow[t] = "live" /\
         (Has(mem[w], refresh[w], t) \/ \E v \in open \ {w} : Has(mem[v], refresh[v], t))
  BY <1>1, OthersStay
<1>18. LoneScene => /\ ~torn' /\ \A t \in Browser!Pair : serverRow[t] # "revoked"
                    /\ LoneFits(mem[w], k, refresh[w], code') /\ SentAgain(k, refresh[w], expired)
  BY <1>1, <1>9, <1>14, <1>15 DEF BrowserInv, LoneTokens
<1>19. RowsFit(serverRow)
  BY DEF BrowserInv, WindowsFit
<1> QED
  BY <1>1, <1>10, <1>11, <1>12, <1>13, <1>16, <1>17, <1>18, <1>19, WindowMoves
\* A request ends, with what its window makes of it.
LEMMA RequestEnds ==
  ASSUME BrowserInv, NEW w \in open, NEW c \in Slot, call[w][c].at = "wire"
  PROVE  LET k == [call[w] EXCEPT ![c] = Browser!Idle]
         IN /\ [call EXCEPT ![w][c] = Browser!Idle] = [call EXCEPT ![w] = k]
            /\ \A m, rs : (/\ m \in Browser!Store /\ Known(m.pair, rs)
                          /\ \A t \in Browser!Pair : serverRow[t] # "none" => rs[t] # "none")
                         => WindowFits(m, k, refresh[w], screen.kinds, rs)
            /\ SentAgain(call[w], refresh[w], expired) => SentAgain(k, refresh[w], expired)
            /\ \A m, cd : (LoneFits(mem[w], call[w], refresh[w], code) /\ m.pair # NoToken
                           /\ (cd = code \/ call[w][c].kind = "exchange"))
                         => LoneFits(m, k, refresh[w], cd)
<1> DEFINE k == [call[w] EXCEPT ![c] = Browser!Idle]
<1>1. /\ [call EXCEPT ![w][c] = Browser!Idle] = [call EXCEPT ![w] = k]
      /\ k \in [Slot -> Browser!Call \cup {Browser!Idle}]
      /\ k[c] = Browser!Idle /\ \A b \in Slot \ {c} : k[b] = call[w][b]
  BY RequestChanges
<1> HIDE DEF k
<1>2. call[w][c] # Browser!Idle /\ Browser!Idle.at = "idle"
  BY DEF Browser!Idle
<1>3. ASSUME NEW m, NEW rs, m \in Browser!Store, Known(m.pair, rs),
             \A t \in Browser!Pair : serverRow[t] # "none" => rs[t] # "none"
      PROVE  WindowFits(m, k, refresh[w], screen.kinds, rs)
  <2>1. WindowFits(mem[w], call[w], refresh[w], screen.kinds, rs)
    BY <1>3, KnownStays, WindowIs
  <2>2. \A b \in Slot : RequestFits(k[b], screen.kinds, rs)
    BY <1>1, <2>1 DEF WindowFits, RequestFits
  <2>3. refresh[w] # Browser!NoFlight => \E b \in Slot : k[b].at = "waiting"
    <3> SUFFICES ASSUME refresh[w] # Browser!NoFlight PROVE \E b \in Slot : k[b].at = "waiting"
      OBVIOUS
    <3>1. PICK b \in Slot : call[w][b].at = "waiting"
      BY <2>1 DEF WindowFits
    <3> QED
      BY <1>1, <3>1
  <2>4. refresh[w] \in Browser!Flight /\ FlightFits(refresh[w], rs)
    BY <2>1 DEF WindowFits
  <2> QED
    BY <1>1, <1>3, <2>2, <2>3, <2>4 DEF WindowFits
<1>4. SentAgain(call[w], refresh[w], expired) => SentAgain(k, refresh[w], expired)
  BY <1>1, <1>2 DEF SentAgain
<1>5. ASSUME NEW m, NEW cd, LoneFits(mem[w], call[w], refresh[w], code), m.pair # NoToken,
             cd = code \/ call[w][c].kind = "exchange"
      PROVE  LoneFits(m, k, refresh[w], cd)
  <2>1. CASE cd = code
    BY <1>1, <1>5, <2>1 DEF LoneFits
  <2>2. CASE call[w][c].kind = "exchange"
    <3>1. \A b \in Slot \ {c} : call[w][b] # Browser!Idle => call[w][b].kind # "exchange"
      BY <1>2, <1>5, <2>2 DEF LoneFits
    <3> QED
      BY <1>1, <1>5, <3>1 DEF LoneFits
  <2> QED
    BY <1>5, <2>1, <2>2
<1> QED
  BY <1>1, <1>3, <1>4, <1>5 DEF k

\* An answer that brings a session, one that brings none, and a sign-out.
LEMMA OkKeeps ==
  ASSUME BrowserInv, NEW w \in Req, NEW c \in Slot, Browser!Ok(w, c)
  PROVE  BrowserInv'
<1> DEFINE q == call[w][c]
           k == [call[w] EXCEPT ![c] = Browser!Idle]
           Of(m) == [pair |-> m.pair, in |-> m.in]
<1>1. q.at = "wire" /\ w \in open /\ q # Browser!Idle
  BY RequestsAreOpen DEF Browser!Ok
<1>2. /\ q \in Browser!Call /\ q.kind \in screen.kinds /\ (q.kind = "logout" => q.body # NoToken)
      /\ q.body \in Browser!Pair \cup {NoToken} /\ q.kind \in Browser!Kinds
  BY <1>1, WindowIs DEF RequestFits, Browser!Call
<1>3. /\ screen' = screen /\ open' = open /\ refresh' = refresh /\ expired' = expired
      /\ burned' = burned /\ torn' = torn /\ call' = [call EXCEPT ![w] = k]
  BY <1>1, RequestEnds DEF Browser!Ok
<1>4. Browser!Accepted(w, q)
  BY DEF Browser!Ok
<1>5. mem[w] \in Browser!Store /\ Known(mem[w].pair, serverRow) /\ RowsFit(serverRow)
      /\ ended \subseteq 1..MaxLogin /\ code \in {"fresh", "posted", "used"}
      /\ disk \in Browser!Saved /\ Known(disk.pair, serverRow) /\ refresh = [refresh EXCEPT ![w] = refresh[w]]
      /\ mem = [mem EXCEPT ![w] = mem[w]] /\ burned \in BOOLEAN /\ torn \in BOOLEAN
  BY <1>1, WindowIs DEF BrowserInv, WindowsFit
<1> DEFINE Bare(m) == m \in Browser!Store /\ Known(m.pair, serverRow)
           Stays ==
             \E m :
               /\ Bare(m) /\ m.pair = mem[w].pair /\ mem' = [mem EXCEPT ![w] = m]
               /\ disk' \in {disk, Of(m)} /\ serverRow' = serverRow /\ ended' = ended
               /\ code' = code \/ (code' = "used" /\ q.kind = "exchange")
           Leaves ==
             \E m :
               /\ Bare(m) /\ m.pair = NoToken /\ mem' = [mem EXCEPT ![w] = m]
               /\ disk' = Of(m) /\ ended' \subseteq 1..MaxLogin
               /\ serverRow' \in {serverRow, [serverRow EXCEPT ![q.body] = "revoked"]}
               /\ serverRow' # serverRow => q.kind = "logout"
               /\ q.kind = "logout" \/ (screen.stepUps /\ q.kind \in Browser!Doors)
               /\ code' \in {"fresh", "posted", "used"}
           Enters ==
             \E m : \E n \in 1..MaxLogin :
               /\ m \in Browser!Store /\ m.pair = <<n, 1>> /\ mem' = [mem EXCEPT ![w] = m]
               /\ disk' = Of(m) /\ serverRow[<<n, 1>>] = "none"
               /\ serverRow' = [serverRow EXCEPT ![<<n, 1>>] = "live"] /\ ended' = ended
               /\ code' = code \/ (code' = "used" /\ q.kind = "exchange")
               /\ q.kind \in Browser!Doors
<1>6. Stays \/ Leaves \/ Enters
  <2>1. CASE q.kind = "data"
    BY <1>4, <1>5, <2>1 DEF Browser!Accepted
  <2>2. CASE q.kind = "me"
    <3> DEFINE m == [mem[w] EXCEPT !.in = TRUE]
    <3>1. m \in Browser!Store /\ m.pair = mem[w].pair
      BY <1>5 DEF Browser!Store
    <3>2. Browser!Save(w, m) /\ serverRow' = serverRow /\ code' = code /\ ended' = ended
      BY <1>4, <2>2 DEF Browser!Accepted
    <3> HIDE DEF m
    <3> QED
      BY <1>5, <3>1, <3>2 DEF Browser!Save
  <2>3. CASE q.kind = "logout"
    <3>1. Browser!SignedOut \in Browser!Store /\ Browser!SignedOut.pair = NoToken
      BY DEF Browser!SignedOut, Browser!Store
    <3>2. /\ Browser!Save(w, Browser!SignedOut) /\ serverRow' = [serverRow EXCEPT ![q.body] = "revoked"]
          /\ code' = code /\ ended' = ended \cup {q.body[1]}
      BY <1>4, <2>3 DEF Browser!Accepted
    <3>3. q.body[1] \in 1..MaxLogin
      BY <1>2, <2>3, PairFacts
    <3> QED
      BY <1>5, <2>3, <3>1, <3>2, <3>3 DEF Browser!Save, Known
  <2>4. CASE q.kind \in Browser!Doors
    <3>0. q.kind \notin {"data", "me", "logout"}
      BY <2>4 DEF Browser!Doors
    <3>1. code' = (IF q.kind = "exchange" THEN "used" ELSE code) /\ ended' = ended
      BY <1>4, <3>0 DEF Browser!Accepted
    <3>2. CASE \E n \in Browser!NewLogin :
                 /\ serverRow' = [serverRow EXCEPT ![<<n, 1>>] = "live"]
                 /\ LET m == Browser!WithPair(mem[w], <<n, 1>>)
                    IN Browser!Save(w, IF q.kind \in {"login", "verify"} THEN [m EXCEPT !.mfa = FALSE] ELSE m)
      <4>1. PICK n \in Browser!NewLogin :
                 /\ serverRow' = [serverRow EXCEPT ![<<n, 1>>] = "live"]
                 /\ LET m == Browser!WithPair(mem[w], <<n, 1>>)
                    IN Browser!Save(w, IF q.kind \in {"login", "verify"} THEN [m EXCEPT !.mfa = FALSE] ELSE m)
        BY <3>2
      <4>2. n \in 1..MaxLogin /\ serverRow[<<n, 1>>] = "none" /\ <<n, 1>> \in Browser!Pair
        BY PairFacts DEF Browser!NewLogin
      <4> DEFINE p == <<n, 1>>
                 m1 == Browser!WithPair(mem[w], p)
                 m2 == [m1 EXCEPT !.mfa = FALSE]
      <4>3. m1 \in Browser!Store /\ m1.pair = p
        BY <1>5, <4>2 DEF Browser!WithPair, Browser!Store
      <4>4. m2 \in Browser!Store /\ m2.pair = p
        <5> HIDE DEF m1
        <5> QED
          BY <4>3 DEF Browser!Store
      <4>5. PICK m \in {m1, m2} : Browser!Save(w, m)
        BY <4>1
      <4> HIDE DEF m1, m2
      <4>6. m \in Browser!Store /\ m.pair = <<n, 1>> /\ mem' = [mem EXCEPT ![w] = m] /\ disk' = Of(m)
        BY <4>3, <4>4, <4>5 DEF Browser!Save
      <4> QED
        BY <2>4, <3>1, <4>1, <4>2, <4>6
    <3>3. CASE screen.stepUps /\ Browser!Save(w, Browser!StepUp(mem[w], q.kind)) /\ serverRow' = serverRow
      <4>1. CASE q.kind = "passkey"
        <5> DEFINE m == [mem[w] EXCEPT !.mfa = TRUE]
        <5>1. m \in Browser!Store /\ m.pair = mem[w].pair
          BY <1>5 DEF Browser!Store
        <5>2. Browser!Save(w, m)
          BY <3>3, <4>1 DEF Browser!StepUp
        <5> HIDE DEF m
        <5> QED
          BY <1>5, <3>1, <3>3, <5>1, <5>2 DEF Browser!Save
      <4>2. CASE q.kind # "passkey"
        <5> DEFINE m == [Browser!SignedOut EXCEPT !.mfa = TRUE]
        <5>1. m \in Browser!Store /\ m.pair = NoToken
          BY DEF Browser!Store, Browser!SignedOut
        <5>2. Browser!Save(w, m)
          BY <3>3, <4>2 DEF Browser!StepUp
        <5> HIDE DEF m
        <5>3. code' \in {"fresh", "posted", "used"} /\ Known(m.pair, serverRow)
          BY <1>5, <3>1, <5>1 DEF Known
        <5> QED
          BY <1>5, <2>4, <3>1, <3>3, <5>1, <5>2, <5>3 DEF Browser!Save
      <4> QED
        BY <4>1, <4>2
    <3>4. CASE screen.stepUps /\ Browser!Save(w, Browser!PasswordChange(mem[w])) /\ serverRow' = serverRow
      <4> DEFINE m == Browser!PasswordChange(mem[w])
      <4>1. m \in Browser!Store /\ m.pair = NoToken
        BY <1>5 DEF Browser!Store, Browser!SignedOut, Browser!PasswordChange
      <4> HIDE DEF m
      <4>2. code' \in {"fresh", "posted", "used"} /\ Known(m.pair, serverRow) /\ Browser!Save(w, m)
        BY <1>5, <3>1, <3>4, <4>1 DEF Known, m
      <4> QED
        BY <1>5, <2>4, <3>1, <3>4, <4>1, <4>2 DEF Browser!Save
    <3> QED
      BY <1>4, <3>0, <3>2, <3>3, <3>4 DEF Browser!Accepted
  <2> QED
    BY <1>2, <2>1, <2>2, <2>3, <2>4 DEF Browser!Kinds, Browser!NeedsBearer
<1>7. code' \in {"fresh", "posted", "used"}
  BY <1>5, <1>6
<1>8. \A m, d, rs : (/\ mem' = [mem EXCEPT ![w] = m] /\ disk' = d /\ serverRow' = rs
                    /\ ended' \subseteq 1..MaxLogin)
                   => Moves(w, m, k, refresh[w], d, rs)
  BY <1>3, <1>5, <1>7 DEF Moves
<1>9. ~(q.kind \in {"data", "me"} /\ q.kind \in {"logout"} \cup Browser!Doors)
  BY DEF Browser!Doors
<1> HIDE DEF k, q
<1>10. /\ \A m, rs : (/\ m \in Browser!Store /\ Known(m.pair, rs)
                     /\ \A t \in Browser!Pair : serverRow[t] # "none" => rs[t] # "none")
                    => WindowFits(m, k, refresh[w], screen.kinds, rs)
       /\ SentAgain(call[w], refresh[w], expired) => SentAgain(k, refresh[w], expired)
       /\ \A m, cd : (LoneFits(mem[w], call[w], refresh[w], code) /\ m.pair # NoToken
                      /\ (cd = code \/ q.kind = "exchange"))
                    => LoneFits(m, k, refresh[w], cd)
  BY <1>1, RequestEnds DEF k, q
<1>11. LoneScene => /\ ~torn' /\ \A t \in Browser!Pair : serverRow[t] # "revoked"
                    /\ LoneFits(mem[w], call[w], refresh[w], code) /\ SentAgain(k, refresh[w], expired)
  BY <1>1, <1>3, <1>10 DEF BrowserInv, LoneTokens
<1>12. (screen.windows = 1 /\ ~torn') => ~burned' /\ OwnFits(mem[w], refresh[w], disk, serverRow)
  BY <1>1, <1>3 DEF BrowserInv, OwnTokens
<1>13. \A m : m \in Browser!Store => Of(m) \in Browser!Saved
  BY DEF Browser!Store, Browser!Saved
<1>14. FlightFits(refresh[w], serverRow) /\ (refresh[w].at \in {"sent", "rotated"} => refresh[w] # Browser!NoFlight)
  BY <1>1, WindowIs DEF WindowFits, Browser!NoFlight
<1>15. CASE Stays
  <2>1. PICK m : /\ Bare(m) /\ m.pair = mem[w].pair /\ mem' = [mem EXCEPT ![w] = m]
                 /\ disk' \in {disk, Of(m)} /\ serverRow' = serverRow /\ ended' = ended
                 /\ code' = code \/ (code' = "used" /\ q.kind = "exchange")
    BY <1>15
  <2>2. Moves(w, m, k, refresh[w], disk', serverRow)
    BY <1>5, <1>8, <2>1
  <2>3. WindowFits(m, k, refresh[w], screen.kinds, serverRow)
    BY <1>10, <2>1
  <2>4. disk' \in Browser!Saved /\ Known(disk'.pair, serverRow) /\ (disk.pair = mem[w].pair => disk'.pair = m.pair)
    BY <1>5, <1>13, <2>1
  <2>5. (screen.windows = 1 /\ ~torn') => ~burned' /\ OwnFits(m, refresh[w], disk', serverRow)
    BY <1>12, <2>1, <2>4 DEF OwnFits
  <2>6. LoneScene => /\ ~torn' /\ \A t \in Browser!Pair : serverRow[t] # "revoked"
                     /\ LoneFits(m, k, refresh[w], code') /\ SentAgain(k, refresh[w], expired)
    BY <1>10, <1>11, <2>1 DEF LoneFits
  <2>7. \A t : Has(mem[w], refresh[w], t) => Has(m, refresh[w], t)
    BY <2>1 DEF Has
  <2>8. TwoScene =>
          /\ \A t \in Browser!Pair : serverRow[t] \in {"none", "live", "spent"}
          /\ \A v \in open : TwoFits(mem[v], refresh[v], serverRow)
          /\ SentAgain(k, refresh[w], expired)
          /\ \E t \in Browser!Pair :
               serverRow[t] = "live" /\ (Has(m, refresh[w], t) \/ \E v \in open \ {w} : Has(mem[v], refresh[v], t))
    BY <1>1, <1>10, <2>7, OthersStay
  <2>9. TwoScene => TwoFits(m, refresh[w], serverRow)
    BY <1>1, <2>1, <2>8 DEF TwoFits
  <2> QED
    BY <1>1, <1>5, <2>2, <2>3, <2>4, <2>5, <2>6, <2>8, <2>9, WindowMoves
<1>16. CASE Leaves
  <2>1. PICK m : /\ Bare(m) /\ m.pair = NoToken /\ mem' = [mem EXCEPT ![w] = m]
                 /\ disk' = Of(m) /\ ended' \subseteq 1..MaxLogin
                 /\ serverRow' \in {serverRow, [serverRow EXCEPT ![q.body] = "revoked"]}
                 /\ serverRow' # serverRow => q.kind = "logout"
                 /\ q.kind = "logout" \/ (screen.stepUps /\ q.kind \in Browser!Doors)
    BY <1>16
  <2>2. PICK rs : rs = serverRow'
    OBVIOUS
  <2>3. Moves(w, m, k, refresh[w], Of(m), rs)
    BY <1>8, <2>1, <2>2
  <2>4. serverRow \in [Browser!Pair -> States]
    BY <1>5 DEF RowsFit
  <2>5. rs = serverRow \/ (q.body \in Browser!Pair /\ serverRow[q.body] # "none" /\ rs = [serverRow EXCEPT ![q.body] = "revoked"])
    <3>1. q.kind = "logout" => q.body # NoToken /\ Known(q.body, serverRow)
      BY <1>1, WindowIs DEF RequestFits, q
    <3> QED
      BY <2>1, <2>2, <3>1 DEF Known
  <2>6. \A t \in Browser!Pair : rs[t] = serverRow[t] \/ (rs[t] = "revoked" /\ serverRow[t] # "none")
    BY <2>4, <2>5
  <2>7. rs \in [Browser!Pair -> States]
    BY <2>4, <2>5 DEF States
  <2>8. RowsFit(rs)
    <3> SUFFICES ASSUME NEW t \in Browser!Pair, t[2] < MaxRotation, rs[t] \in {"none", "live"}
                 PROVE rs[Browser!Next1(t)] = "none"
      BY <2>7 DEF RowsFit
    <3>1. serverRow[t] \in {"none", "live"}
      BY <2>6
    <3>2. serverRow[Browser!Next1(t)] = "none"
      BY <1>5, <3>1 DEF RowsFit
    <3> QED
      BY <2>6, <3>2, PairFacts
  <2>9. WindowFits(m, k, refresh[w], screen.kinds, rs) /\ Of(m) \in Browser!Saved /\ Known(Of(m).pair, rs)
    BY <1>10, <1>13, <2>1, <2>6 DEF Known
  <2>10. (screen.windows = 1 /\ ~torn') => ~burned' /\ OwnFits(m, refresh[w], Of(m), rs)
    <3> SUFFICES ASSUME OwnFits(mem[w], refresh[w], disk, serverRow) PROVE OwnFits(m, refresh[w], Of(m), rs)
      BY <1>12
    <3>1. refresh[w].at = "sent" => refresh[w].token \in Browser!Pair
      BY <1>14 DEF FlightFits
    <3>2. refresh[w].at = "rotated" => Browser!Next1(refresh[w].token) \in Browser!Pair
      BY <1>14, PairFacts DEF FlightFits
    <3> QED
      BY <2>1, <2>6, <3>1, <3>2 DEF OwnFits, Usable
  <2>11. ~LoneScene
    BY <1>2, <2>1 DEF LoneScene, Browser!Doors, q
  <2>12. ~TwoScene
    BY <1>2, <2>1 DEF TwoScene, Browser!Doors, q
  <2> QED
    BY <1>1, <2>3, <2>6, <2>8, <2>9, <2>10, <2>11, <2>12, WindowMoves
<1>17. CASE Enters
  <2>0. PICK m : \E n \in 1..MaxLogin :
               /\ m \in Browser!Store /\ m.pair = <<n, 1>> /\ mem' = [mem EXCEPT ![w] = m]
               /\ disk' = Of(m) /\ serverRow[<<n, 1>>] = "none"
               /\ serverRow' = [serverRow EXCEPT ![<<n, 1>>] = "live"] /\ ended' = ended
               /\ code' = code \/ (code' = "used" /\ q.kind = "exchange")
               /\ q.kind \in Browser!Doors
    BY <1>17
  <2>1. PICK n \in 1..MaxLogin :
               /\ m \in Browser!Store /\ m.pair = <<n, 1>> /\ mem' = [mem EXCEPT ![w] = m]
               /\ disk' = Of(m) /\ serverRow[<<n, 1>>] = "none"
               /\ serverRow' = [serverRow EXCEPT ![<<n, 1>>] = "live"] /\ ended' = ended
               /\ code' = code \/ (code' = "used" /\ q.kind = "exchange")
               /\ q.kind \in Browser!Doors
    BY <2>0
  <2>2. PICK rs : rs = serverRow'
    OBVIOUS
  <2>3. PICK p \in Browser!Pair : p = <<n, 1>> /\ p # NoToken /\ p[2] = 1
    BY PairFacts
  <2>4. Moves(w, m, k, refresh[w], Of(m), rs)
    BY <1>5, <1>8, <2>1, <2>2
  <2>5. serverRow \in [Browser!Pair -> States] /\ rs = [serverRow EXCEPT ![p] = "live"]
    BY <1>5, <2>1, <2>2, <2>3 DEF RowsFit
  <2>6. rs[p] = "live" /\ (\A t \in Browser!Pair : t # p => rs[t] = serverRow[t]) /\ serverRow[p] = "none"
    BY <2>1, <2>3, <2>5
  <2>7. RowsFit(rs)
    <3>1. rs \in [Browser!Pair -> States]
      BY <2>5 DEF States
    <3> SUFFICES ASSUME NEW t \in Browser!Pair, t[2] < MaxRotation, rs[t] \in {"none", "live"}
                 PROVE rs[Browser!Next1(t)] = "none"
      BY <3>1 DEF RowsFit
    <3>2. serverRow[Browser!Next1(t)] = "none" /\ Browser!Next1(t) \in Browser!Pair
      BY <1>5, <2>6, PairFacts DEF RowsFit
    <3>3. t[2] \in 1..MaxRotation
      BY PairFacts
    <3>4. Browser!Next1(t)[2] # 1
      BY <3>3 DEF Browser!Next1
    <3> QED
      BY <2>3, <2>6, <3>2, <3>4
  <2>8. \A t \in Browser!Pair : serverRow[t] # "none" => rs[t] # "none"
    BY <2>6
  <2>9. WindowFits(m, k, refresh[w], screen.kinds, rs) /\ Of(m) \in Browser!Saved /\ Known(Of(m).pair, rs)
    BY <1>10, <1>13, <2>1, <2>3, <2>6, <2>8 DEF Known
  <2>10. (screen.windows = 1 /\ ~torn') => ~burned' /\ OwnFits(m, refresh[w], Of(m), rs)
    <3> SUFFICES ASSUME OwnFits(mem[w], refresh[w], disk, serverRow) PROVE OwnFits(m, refresh[w], Of(m), rs)
      BY <1>12
    <3>1. refresh[w].at = "sent" => refresh[w].token \in Browser!Pair
      BY <1>14 DEF FlightFits
    <3>2. refresh[w].at = "rotated" => Browser!Next1(refresh[w].token) \in Browser!Pair
      BY <1>14, PairFacts DEF FlightFits
    <3> QED
      BY <2>1, <2>3, <2>6, <3>1, <3>2 DEF OwnFits, Usable
  <2>11. LoneScene => /\ ~torn' /\ \A t \in Browser!Pair : rs[t] # "revoked"
                      /\ LoneFits(m, k, refresh[w], code') /\ SentAgain(k, refresh[w], expired)
    <3>1. m.pair # NoToken
      BY <2>1, <2>3
    <3> QED
      BY <1>10, <1>11, <2>1, <2>6, <3>1
  <2>12. ~TwoScene
    BY <1>2, <2>1 DEF TwoScene, Browser!Doors, q
  <2> QED
    BY <1>1, <2>4, <2>7, <2>8, <2>9, <2>10, <2>11, <2>12, WindowMoves
<1> QED
  BY <1>6, <1>15, <1>16, <1>17
\* A window that is signed out.
LEMMA SignedOutIs ==
  /\ Browser!SignedOut \in Browser!Store /\ Browser!SignedOut.pair = NoToken
  /\ [pair |-> Browser!SignedOut.pair, in |-> Browser!SignedOut.in] \in Browser!Saved
BY DEF Browser!SignedOut, Browser!Store, Browser!Saved

\* A request that waits for a refresh, and one that is sent again with its token.
LEMMA AgainIs ==
  ASSUME NEW q \in Browser!Call
  PROVE  /\ Browser!Again(q) \in Browser!Call
         /\ Browser!Again(q).at = "waiting" /\ Browser!Again(q).tries = 2
         /\ Browser!Again(q).kind = q.kind /\ Browser!Again(q).bearer = q.bearer /\ Browser!Again(q).body = q.body
<1> DEFINE k == [q EXCEPT !.tries = 2]
           a == [k EXCEPT !.at = "waiting"]
<1>1. Browser!Again(q) = a
  BY DEF Browser!Again
<1>2. k \in Browser!Call /\ k.tries = 2 /\ k.kind = q.kind /\ k.bearer = q.bearer /\ k.body = q.body
  BY DEF Browser!Call
<1> HIDE DEF k
<1>3. /\ a \in Browser!Call /\ a.at = "waiting" /\ a.tries = k.tries
      /\ a.kind = k.kind /\ a.bearer = k.bearer /\ a.body = k.body
  BY <1>2 DEF Browser!Call
<1> HIDE DEF a
<1> QED
  BY <1>1, <1>2, <1>3

LEMMA ResentIs ==
  ASSUME NEW q \in Browser!Call, NEW t \in Browser!Pair
  PROVE  /\ Browser!Resent(q, t) \in Browser!Call
         /\ Browser!Resent(q, t).at = "wire" /\ Browser!Resent(q, t).tries = q.tries
         /\ Browser!Resent(q, t).kind = q.kind /\ Browser!Resent(q, t).bearer = t
         /\ Browser!Resent(q, t).body = q.body
<1> DEFINE k == [q EXCEPT !.at = "wire"]
           a == [k EXCEPT !.bearer = t]
<1>1. Browser!Resent(q, t) = a
  BY DEF Browser!Resent
<1>2. k \in Browser!Call /\ k.at = "wire" /\ k.tries = q.tries /\ k.kind = q.kind /\ k.body = q.body
  BY DEF Browser!Call
<1> HIDE DEF k
<1>3. /\ a \in Browser!Call /\ a.at = k.at /\ a.tries = k.tries
      /\ a.kind = k.kind /\ a.bearer = t /\ a.body = k.body
  BY <1>2 DEF Browser!Call
<1> HIDE DEF a
<1> QED
  BY <1>1, <1>2, <1>3

\* The first 401 waits for a refresh, the second ends the session.
LEMMA RefusedKeeps ==
  ASSUME BrowserInv, NEW w \in Req, NEW c \in Slot, Browser!Refused(w, c)
  PROVE  BrowserInv'
<1> DEFINE q == call[w][c]
<1>1. q.at = "wire" /\ w \in open /\ q # Browser!Idle
  BY RequestsAreOpen DEF Browser!Refused
<1>2. q \in Browser!Call /\ q.kind \in screen.kinds /\ RequestFits(q, screen.kinds, serverRow)
  BY <1>1, WindowIs DEF RequestFits
<1>3. /\ q.kind \in Browser!NeedsBearer => q.bearer = NoToken \/ q.bearer \in expired
      /\ q.kind = "exchange" => code = "used"
  BY DEF Browser!Refused
<1>4. /\ screen' = screen /\ open' = open /\ expired' = expired /\ serverRow' = serverRow
      /\ burned' = burned /\ torn' = torn /\ ended' = ended /\ code' = code
  BY DEF Browser!Refused
<1>5. /\ mem[w] \in Browser!Store /\ Known(mem[w].pair, serverRow) /\ RowsFit(serverRow)
      /\ ended \subseteq 1..MaxLogin /\ code \in {"fresh", "posted", "used"}
      /\ disk \in Browser!Saved /\ Known(disk.pair, serverRow)
      /\ burned \in BOOLEAN /\ torn \in BOOLEAN
  BY <1>1, WindowIs DEF BrowserInv, WindowsFit
<1>6. LoneScene => /\ ~torn' /\ \A t \in Browser!Pair : serverRow[t] # "revoked"
                   /\ LoneFits(mem[w], call[w], refresh[w], code) /\ SentAgain(call[w], refresh[w], expired)
  BY <1>1, <1>4 DEF BrowserInv, LoneTokens
<1>7. (screen.windows = 1 /\ ~torn') => ~burned' /\ OwnFits(mem[w], refresh[w], disk, serverRow)
  BY <1>1, <1>4 DEF BrowserInv, OwnTokens
<1>8. CASE mem[w].pair # NoToken /\ q.tries = 1
  <2> DEFINE a == Browser!Again(q)
             k == [call[w] EXCEPT ![c] = a]
             f == IF refresh[w] # Browser!NoFlight THEN refresh[w] ELSE [token |-> mem[w].pair, at |-> "sent"]
  <2>1. mem[w].pair \in Browser!Pair /\ serverRow[mem[w].pair] # "none"
    BY <1>5, <1>8 DEF Known
  <2>2. a \in Browser!Call /\ a.at = "waiting" /\ a.tries = 2 /\ a.kind = q.kind /\ a.bearer = q.bearer /\ a.body = q.body
    BY <1>2, AgainIs
  <2> HIDE DEF a
  <2>3. /\ [call EXCEPT ![w][c] = a] = [call EXCEPT ![w] = k]
        /\ k \in [Slot -> Browser!Call \cup {Browser!Idle}]
        /\ k[c] = a /\ \A b \in Slot \ {c} : k[b] = call[w][b]
    BY <1>1, <2>2, RequestChanges
  <2> HIDE DEF k
  <2>4. call' = [call EXCEPT ![w] = k] /\ mem' = mem /\ disk' = disk /\ Browser!Join(w)
    BY <1>8, <2>3 DEF Browser!Refused, a
  <2>5. refresh' = [refresh EXCEPT ![w] = f]
    BY <1>1, <2>4, WindowIs DEF Browser!Join
  <2>6. \/ refresh[w] # Browser!NoFlight /\ f = refresh[w]
        \/ refresh[w] = Browser!NoFlight /\ f = [token |-> mem[w].pair, at |-> "sent"]
    OBVIOUS
  <2>7. f \in Browser!Flight /\ FlightFits(f, serverRow)
    <3>1. CASE f = refresh[w]
      BY <1>1, <3>1, WindowIs DEF WindowFits
    <3>2. CASE f = [token |-> mem[w].pair, at |-> "sent"]
      BY <2>1, <3>2 DEF Browser!Flight, FlightFits
    <3> QED
      BY <2>6, <3>1, <3>2
  <2> HIDE DEF f
  <2>8. Moves(w, mem[w], k, f, disk, serverRow)
    BY <1>1, <1>4, <1>5, <2>4, <2>5, WindowIs DEF Moves
  <2>9. WindowFits(mem[w], k, f, screen.kinds, serverRow)
    <3>1. RequestFits(a, screen.kinds, serverRow)
      BY <1>1, <1>2, <2>2 DEF RequestFits
    <3>2. \A b \in Slot : RequestFits(k[b], screen.kinds, serverRow)
      BY <1>1, <2>3, <3>1, WindowIs
    <3> QED
      BY <1>5, <2>2, <2>3, <2>7, <3>2 DEF WindowFits
  <2>10. (screen.windows = 1 /\ ~torn') => ~burned' /\ OwnFits(mem[w], f, disk, serverRow)
    BY <1>7, <1>8, <2>6 DEF OwnFits, Browser!NoFlight
  <2>11. SentAgain(call[w], refresh[w], expired) => SentAgain(k, f, expired)
    BY <2>2, <2>3, <2>6 DEF SentAgain
  <2>12. LoneScene => LoneFits(mem[w], k, f, code)
    <3> SUFFICES ASSUME LoneScene PROVE LoneFits(mem[w], k, f, code)
      OBVIOUS
    <3>1. LoneFits(mem[w], call[w], refresh[w], code)
      BY <1>6
    <3>2. q.kind # "exchange" /\ q.bearer # NoToken
      BY <1>1, <1>3, <3>1 DEF LoneFits
    <3>3. f.at # "refused"
      BY <2>6, <3>1 DEF LoneFits
    <3> QED
      BY <2>2, <2>3, <3>1, <3>2, <3>3 DEF LoneFits
  <2>13. \A t : Has(mem[w], refresh[w], t) => Has(mem[w], f, t)
    BY <2>6 DEF Has, Browser!NoFlight
  <2>14. TwoScene =>
           /\ \A t \in Browser!Pair : serverRow[t] \in {"none", "live", "spent"}
           /\ \A v \in open : TwoFits(mem[v], refresh[v], serverRow)
           /\ SentAgain(k, f, expired)
           /\ \E t \in Browser!Pair :
                serverRow[t] = "live" /\ (Has(mem[w], f, t) \/ \E v \in open \ {w} : Has(mem[v], refresh[v], t))
    BY <1>1, <2>11, <2>13, OthersStay
  <2>15. TwoScene => TwoFits(mem[w], f, serverRow)
    BY <1>1, <2>6, <2>14 DEF TwoFits
  <2>16. LoneScene => /\ ~torn' /\ \A t \in Browser!Pair : serverRow[t] # "revoked"
                      /\ LoneFits(mem[w], k, f, code') /\ SentAgain(k, f, expired)
    BY <1>4, <1>6, <2>11, <2>12
  <2> QED
    BY <1>1, <1>5, <2>8, <2>9, <2>10, <2>14, <2>15, <2>16, WindowMoves
<1>9. CASE ~(mem[w].pair # NoToken /\ q.tries = 1)
  <2> DEFINE k == [call[w] EXCEPT ![c] = Browser!Idle]
             m == Browser!SignedOut
             d == [pair |-> m.pair, in |-> m.in]
  <2>1. mem' = [mem EXCEPT ![w] = m] /\ disk' = d /\ refresh' = refresh /\ call' = [call EXCEPT ![w] = k]
    BY <1>1, <1>9, RequestEnds DEF Browser!Refused, Browser!Save
  <2> HIDE DEF k
  <2>2. m \in Browser!Store /\ m.pair = NoToken /\ d \in Browser!Saved /\ d.pair = NoToken
    BY SignedOutIs
  <2> HIDE DEF m, d
  <2>3. Moves(w, m, k, refresh[w], d, serverRow)
    BY <1>1, <1>4, <1>5, <2>1, WindowIs DEF Moves
  <2>4. WindowFits(m, k, refresh[w], screen.kinds, serverRow) /\ Known(d.pair, serverRow)
    BY <1>1, <2>2, RequestEnds DEF Known, k
  <2>5. (screen.windows = 1 /\ ~torn') => ~burned' /\ OwnFits(m, refresh[w], d, serverRow)
    BY <1>7, <2>2 DEF OwnFits
  <2>6. q.tries \in {1, 2}
    BY <1>2 DEF Browser!Call
  <2>7. SentAgain(call[w], refresh[w], expired) /\ q.kind \in Browser!NeedsBearer => mem[w].pair = NoToken
    BY <1>1, <1>3, <1>9, <2>6 DEF SentAgain
  <2>8. ~LoneScene
    <3> SUFFICES ASSUME LoneScene PROVE FALSE
      OBVIOUS
    <3>1. q.kind # "exchange"
      BY <1>1, <1>3, <1>6 DEF LoneFits
    <3>2. q.kind \in Browser!NeedsBearer
      BY <1>2, <3>1 DEF LoneScene, Browser!NeedsBearer
    <3> QED
      BY <1>6, <2>7, <3>2 DEF LoneFits
  <2>9. TwoScene => mem[w].pair = NoToken
    <3> SUFFICES ASSUME TwoScene PROVE mem[w].pair = NoToken
      OBVIOUS
    <3>1. q.kind \in Browser!NeedsBearer
      BY <1>2 DEF TwoScene, Browser!NeedsBearer
    <3>2. SentAgain(call[w], refresh[w], expired)
      BY <1>1 DEF BrowserInv, TwoTokens
    <3> QED
      BY <2>7, <3>1, <3>2
  <2>10. TwoScene => \A t \in Browser!Pair : Has(mem[w], refresh[w], t) => Has(m, refresh[w], t)
    BY <2>2, <2>9 DEF Has
  <2>11. TwoScene =>
           /\ \A t \in Browser!Pair : serverRow[t] \in {"none", "live", "spent"}
           /\ \A v \in open : TwoFits(mem[v], refresh[v], serverRow)
           /\ SentAgain(k, refresh[w], expired)
           /\ \E t \in Browser!Pair :
                serverRow[t] = "live" /\ (Has(m, refresh[w], t) \/ \E v \in open \ {w} : Has(mem[v], refresh[v], t))
    BY <1>1, <2>10, OthersStay, RequestEnds DEF k
  <2>12. TwoScene => TwoFits(m, refresh[w], serverRow)
    BY <1>1, <2>2, <2>9, <2>11 DEF TwoFits
  <2> QED
    BY <1>1, <1>5, <2>2, <2>3, <2>4, <2>5, <2>8, <2>11, <2>12, WindowMoves
<1> QED
  BY <1>8, <1>9
\* No answer, when the network drops one: the request may have been served.
LEMMA LostKeeps ==
  ASSUME BrowserInv, NEW w \in Req, NEW c \in Slot, Browser!Lost(w, c)
  PROVE  BrowserInv'
<1> DEFINE q == call[w][c]
           k == [call[w] EXCEPT ![c] = Browser!Idle]
           Of(x) == [pair |-> x.pair, in |-> x.in]
<1>1. q.at = "wire" /\ w \in open /\ q # Browser!Idle
  BY RequestsAreOpen DEF Browser!Lost
<1>2. RequestFits(q, screen.kinds, serverRow)
  BY <1>1, WindowIs
<1>3. /\ screen' = screen /\ open' = open /\ expired' = expired /\ refresh' = refresh
      /\ burned' = burned /\ torn' = torn /\ ended' = ended /\ code' \in {code, "used"}
      /\ call' = [call EXCEPT ![w] = k] /\ screen.drops
  BY <1>1, RequestEnds DEF Browser!Lost
<1>4. /\ mem[w] \in Browser!Store /\ Known(mem[w].pair, serverRow) /\ RowsFit(serverRow)
      /\ ended \subseteq 1..MaxLogin /\ code \in {"fresh", "posted", "used"}
      /\ disk \in Browser!Saved /\ Known(disk.pair, serverRow)
      /\ burned \in BOOLEAN /\ torn \in BOOLEAN
      /\ refresh = [refresh EXCEPT ![w] = refresh[w]] /\ mem = [mem EXCEPT ![w] = mem[w]]
  BY <1>1, WindowIs DEF BrowserInv, WindowsFit
<1>5. \E m \in Browser!Store :
        /\ m.pair \in {mem[w].pair, NoToken} /\ mem' = [mem EXCEPT ![w] = m]
        /\ disk' = Of(m) \/ (disk' = disk /\ m.pair = mem[w].pair)
  <2>1. CASE Browser!Save(w, Browser!SignedOut)
    BY <2>1, SignedOutIs DEF Browser!Save
  <2>2. CASE Browser!Save(w, mem[w])
    BY <1>4, <2>2 DEF Browser!Save
  <2>3. CASE Browser!Save(w, [mem[w] EXCEPT !.mfa = FALSE])
    <3> DEFINE m == [mem[w] EXCEPT !.mfa = FALSE]
    <3>1. m \in Browser!Store /\ m.pair = mem[w].pair
      BY <1>4 DEF Browser!Store
    <3>2. Browser!Save(w, m)
      BY <2>3
    <3> HIDE DEF m
    <3> QED
      BY <3>1, <3>2 DEF Browser!Save
  <2>4. CASE mem' = mem /\ disk' = disk
    BY <1>4, <2>4
  <2> QED
    BY <2>1, <2>2, <2>3, <2>4 DEF Browser!Lost
<1>6. PICK m \in Browser!Store :
        /\ m.pair \in {mem[w].pair, NoToken} /\ mem' = [mem EXCEPT ![w] = m]
        /\ disk' = Of(m) \/ (disk' = disk /\ m.pair = mem[w].pair)
  BY <1>5
<1>7. serverRow' = serverRow \/ (q.kind = "logout" /\ serverRow' = [serverRow EXCEPT ![q.body] = "revoked"])
  BY DEF Browser!Lost
<1>8. PICK rs : rs = serverRow'
  OBVIOUS
<1>9. serverRow \in [Browser!Pair -> States]
  BY <1>4 DEF RowsFit
<1>10. \/ rs = serverRow
       \/ q.body \in Browser!Pair /\ serverRow[q.body] # "none" /\ rs = [serverRow EXCEPT ![q.body] = "revoked"]
  BY <1>1, <1>2, <1>7, <1>8 DEF RequestFits, Known
<1> HIDE DEF q
<1>11. rs \in [Browser!Pair -> States]
  BY <1>9, <1>10 DEF States
<1>12. \A t \in Browser!Pair : rs[t] = serverRow[t] \/ (rs[t] = "revoked" /\ serverRow[t] # "none")
  BY <1>9, <1>10
<1>13. RowsFit(rs)
  <2> SUFFICES ASSUME NEW t \in Browser!Pair, t[2] < MaxRotation, rs[t] \in {"none", "live"}
               PROVE rs[Browser!Next1(t)] = "none"
    BY <1>11 DEF RowsFit
  <2>1. serverRow[t] \in {"none", "live"}
    BY <1>12
  <2>2. serverRow[Browser!Next1(t)] = "none"
    BY <1>4, <2>1 DEF RowsFit
  <2> QED
    BY <1>12, <2>2, PairFacts
<1>14. Known(m.pair, rs) /\ disk' \in Browser!Saved /\ Known(disk'.pair, rs)
       /\ (disk.pair = mem[w].pair => disk'.pair = m.pair)
  <2>1. Of(m) \in Browser!Saved
    BY <1>6 DEF Browser!Store, Browser!Saved
  <2> QED
    BY <1>4, <1>6, <1>12, <2>1 DEF Known
<1>15. WindowFits(m, k, refresh[w], screen.kinds, rs)
  BY <1>1, <1>6, <1>12, <1>14, RequestEnds DEF q
<1> HIDE DEF k
<1>16. Moves(w, m, k, refresh[w], disk', rs)
  <2>1. code' \in {"fresh", "posted", "used"} /\ refresh' = [refresh EXCEPT ![w] = refresh[w]]
    BY <1>3, <1>4
  <2> QED
    BY <1>3, <1>4, <1>6, <1>8, <2>1 DEF Moves
<1>17. FlightFits(refresh[w], serverRow) /\ (refresh[w].at \in {"sent", "rotated"} => refresh[w] # Browser!NoFlight)
  BY <1>1, WindowIs DEF WindowFits, Browser!NoFlight
<1>18. (screen.windows = 1 /\ ~torn') => ~burned' /\ OwnFits(m, refresh[w], disk', rs)
  <2> SUFFICES ASSUME screen.windows = 1, ~torn' PROVE ~burned' /\ OwnFits(m, refresh[w], disk', rs)
    OBVIOUS
  <2>1. ~burned' /\ OwnFits(mem[w], refresh[w], disk, serverRow)
    BY <1>1, <1>3 DEF BrowserInv, OwnTokens
  <2>2. refresh[w].at = "sent" => refresh[w].token \in Browser!Pair
    BY <1>17 DEF FlightFits
  <2>3. refresh[w].at = "rotated" => Browser!Next1(refresh[w].token) \in Browser!Pair
    BY <1>17, PairFacts DEF FlightFits
  <2>4. m.pair # NoToken => m.pair \in Browser!Pair /\ m.pair = mem[w].pair
    BY <1>6, <1>14 DEF Known
  <2> QED
    BY <1>12, <1>14, <2>1, <2>2, <2>3, <2>4 DEF OwnFits, Usable
<1>19. ~LoneScene /\ ~TwoScene
  BY <1>3 DEF LoneScene, TwoScene, Browser!Untroubled
<1> QED
  BY <1>1, <1>12, <1>13, <1>14, <1>15, <1>16, <1>18, <1>19, WindowMoves

\* The server rotates a token that is live; it punishes one whose grace has passed.
LEMMA RotateKeeps ==
  ASSUME BrowserInv, NEW w \in Req, Browser!Rotate(w)
  PROVE  BrowserInv'
<1> DEFINE t == refresh[w].token
           n == Browser!Next1(t)
           f == [token |-> t, at |-> IF serverRow[t] = "live" THEN "rotated" ELSE "refused"]
<1>1. refresh[w].at = "sent" /\ t[2] < MaxRotation /\ refresh[w] # Browser!NoFlight
  BY DEF Browser!Rotate, Browser!NoFlight
<1>2. w \in open
  BY <1>1 DEF BrowserInv, WindowsFit
<1>3. WindowFits(mem[w], call[w], refresh[w], screen.kinds, serverRow)
  BY <1>2, WindowIs
<1>4. t \in Browser!Pair /\ serverRow[t] # "none"
  BY <1>1, <1>3 DEF WindowFits, FlightFits
<1>5. n \in Browser!Pair /\ n # t
  BY <1>1, <1>4, PairFacts
<1>6. /\ screen' = screen /\ open' = open /\ expired' = expired /\ refresh' = [refresh EXCEPT ![w] = f]
      /\ torn' = torn /\ ended' = ended /\ code' = code /\ mem' = mem /\ call' = call /\ disk' = disk
      /\ burned' = (burned \/ (serverRow[t] # "live" /\ Browser!Punished(t))) /\ Browser!Rotated(t)
  BY DEF Browser!Rotate
<1>7. /\ mem[w] \in Browser!Store /\ Known(mem[w].pair, serverRow) /\ RowsFit(serverRow)
      /\ serverRow \in [Browser!Pair -> States]
      /\ ended \subseteq 1..MaxLogin /\ code \in {"fresh", "posted", "used"}
      /\ disk \in Browser!Saved /\ Known(disk.pair, serverRow)
      /\ burned \in BOOLEAN /\ torn \in BOOLEAN /\ expired \subseteq Made(serverRow)
      /\ call = [call EXCEPT ![w] = call[w]] /\ mem = [mem EXCEPT ![w] = mem[w]]
  BY <1>2, WindowIs DEF BrowserInv, WindowsFit, RowsFit
<1>8. PICK rs : rs = serverRow'
  OBVIOUS
<1> DEFINE Spends == /\ serverRow[t] = "live" /\ rs = [serverRow EXCEPT ![t] = "spent", ![n] = "live"]
           Punishes == /\ serverRow[t] = "lapsed" /\ rs = [s \in Browser!Pair |-> IF serverRow[s] = "none" THEN "none" ELSE "revoked"]
           Refuses == serverRow[t] \notin {"live", "lapsed"} /\ rs = serverRow
<1>9. Spends \/ Punishes \/ Refuses
  BY <1>6, <1>8 DEF Browser!Rotated, Browser!Punished
<1>10. burned' = (burned \/ serverRow[t] = "lapsed")
  BY <1>6, <1>7 DEF Browser!Punished
<1>11. f.token = t /\ f.at = (IF serverRow[t] = "live" THEN "rotated" ELSE "refused") /\ f # Browser!NoFlight
       /\ f \in Browser!Flight
  BY <1>4 DEF Browser!Flight, Browser!NoFlight
<1> HIDE DEF f
<1>12. Spends => /\ rs \in [Browser!Pair -> States] /\ rs[t] = "spent" /\ rs[n] = "live" /\ serverRow[n] = "none"
                 /\ \A x \in Browser!Pair : x \notin {t, n} => rs[x] = serverRow[x]
  <2> SUFFICES ASSUME Spends
               PROVE  /\ rs \in [Browser!Pair -> States] /\ rs[t] = "spent" /\ rs[n] = "live" /\ serverRow[n] = "none"
                      /\ \A x \in Browser!Pair : x \notin {t, n} => rs[x] = serverRow[x]
    OBVIOUS
  <2>1. serverRow[n] = "none"
    BY <1>1, <1>4, <1>7 DEF RowsFit
  <2> HIDE DEF n, t
  <2>2. rs = [[serverRow EXCEPT ![t] = "spent"] EXCEPT ![n] = "live"]
    OBVIOUS
  <2> QED
    BY <1>4, <1>5, <1>7, <2>1, <2>2 DEF States
<1>13. Punishes => /\ rs \in [Browser!Pair -> States]
                   /\ \A x \in Browser!Pair : rs[x] = IF serverRow[x] = "none" THEN "none" ELSE "revoked"
  BY DEF States
<1>14. \A x \in Browser!Pair : serverRow[x] # "none" => rs[x] # "none"
  BY <1>9, <1>12, <1>13
<1>15. RowsFit(rs)
  <2>1. rs \in [Browser!Pair -> States]
    BY <1>7, <1>9, <1>12, <1>13
  <2> SUFFICES ASSUME NEW x \in Browser!Pair, x[2] < MaxRotation, rs[x] \in {"none", "live"}
               PROVE rs[Browser!Next1(x)] = "none"
    BY <2>1 DEF RowsFit
  <2>2. Browser!Next1(x) \in Browser!Pair /\ Browser!Next1(x) # x
    BY PairFacts
  <2>3. CASE Spends
    <3>1. serverRow[Browser!Next1(x)] = "none"
      <4>1. CASE x = n
        BY <1>7, <1>12, <2>3, <4>1 DEF RowsFit
      <4>2. CASE x # n
        BY <1>7, <1>12, <2>3, <4>2 DEF RowsFit
      <4> QED
        BY <4>1, <4>2
    <3>2. Browser!Next1(x) # t
      BY <1>4, <3>1
    <3>3. Browser!Next1(x) # n
      <4>1. Browser!Next1(x) = n => x = t
        <5>1. x \in (1..MaxLogin) \X (1..MaxRotation) /\ t \in (1..MaxLogin) \X (1..MaxRotation)
          BY <1>4 DEF Browser!Pair
        <5>2. x[1] = t[1] /\ x[2] + 1 = t[2] + 1 => x[2] = t[2]
          BY <5>1, HouseAssumption
        <5>3. x = <<x[1], x[2]>> /\ t = <<t[1], t[2]>>
          BY <5>1
        <5> HIDE DEF t
        <5> QED
          BY <5>2, <5>3 DEF Browser!Next1, n
      <4> QED
        BY <1>12, <2>3, <4>1
    <3> QED
      BY <1>12, <2>2, <2>3, <3>1, <3>2, <3>3
  <2>4. CASE Punishes
    BY <1>7, <1>13, <2>2, <2>4 DEF RowsFit
  <2>5. CASE Refuses
    BY <1>7, <2>5 DEF RowsFit
  <2> QED
    BY <1>9, <2>3, <2>4, <2>5
<1>16. FlightFits(f, rs)
  <2>1. rs[t] # "none"
    BY <1>4, <1>14
  <2>2. f.at = "rotated" => rs[n] # "none"
    BY <1>9, <1>11, <1>12
  <2> QED
    BY <1>1, <1>4, <1>11, <2>1, <2>2 DEF FlightFits
<1>17. WindowFits(mem[w], call[w], f, screen.kinds, rs) /\ Known(disk.pair, rs)
  <2>1. WindowFits(mem[w], call[w], refresh[w], screen.kinds, rs) /\ Known(disk.pair, rs)
    BY <1>3, <1>7, <1>14, KnownStays
  <2> QED
    BY <1>1, <1>11, <1>16, <2>1 DEF WindowFits
<1>18. Moves(w, mem[w], call[w], f, disk, rs)
  BY <1>6, <1>7, <1>8 DEF Moves
<1>19. (screen.windows = 1 /\ ~torn) =>
         ~burned /\ OwnFits(mem[w], refresh[w], disk, serverRow) /\ serverRow[t] \in Usable
  BY <1>1, <1>2 DEF BrowserInv, OwnTokens, OwnFits
<1>20. (screen.windows = 1 /\ ~torn') => ~burned' /\ OwnFits(mem[w], f, disk, rs)
  <2> SUFFICES ASSUME screen.windows = 1, ~torn PROVE ~burned' /\ OwnFits(mem[w], f, disk, rs)
    BY <1>6
  <2>1. ~burned' /\ (Spends \/ Refuses)
    BY <1>9, <1>10, <1>19 DEF Usable
  <2>2. disk.pair = mem[w].pair /\ (mem[w].pair # NoToken => mem[w].pair \in Browser!Pair /\ serverRow[mem[w].pair] \in Usable)
    BY <1>1, <1>7, <1>19 DEF OwnFits, Known
  <2>3. CASE Spends
    <3>1. mem[w].pair # NoToken => rs[mem[w].pair] \in Usable \/ mem[w].pair = t
      BY <1>12, <2>2, <2>3 DEF Usable
    <3> QED
      BY <1>11, <1>12, <2>1, <2>2, <2>3, <3>1 DEF OwnFits, Usable
  <2>4. CASE Refuses
    BY <1>11, <2>1, <2>2, <2>4 DEF OwnFits
  <2> QED
    BY <2>1, <2>3, <2>4
<1>21. SentAgain(call[w], refresh[w], expired) => SentAgain(call[w], f, expired)
  <2>1. f.at = "rotated" => n \notin expired
    BY <1>7, <1>9, <1>11, <1>12 DEF Made
  <2> QED
    BY <1>11, <2>1 DEF SentAgain
<1>22. LoneScene => /\ ~torn' /\ \A x \in Browser!Pair : rs[x] # "revoked"
                    /\ LoneFits(mem[w], call[w], f, code') /\ SentAgain(call[w], f, expired)
  <2> SUFFICES ASSUME LoneScene
               PROVE /\ ~torn' /\ \A x \in Browser!Pair : rs[x] # "revoked"
                     /\ LoneFits(mem[w], call[w], f, code') /\ SentAgain(call[w], f, expired)
    OBVIOUS
  <2>1. /\ ~torn /\ (\A x \in Browser!Pair : serverRow[x] # "revoked")
        /\ LoneFits(mem[w], call[w], refresh[w], code) /\ SentAgain(call[w], refresh[w], expired)
    BY <1>2 DEF BrowserInv, LoneTokens
  <2>2. serverRow[t] = "live"
    BY <1>4, <1>19, <2>1 DEF Usable, LoneScene
  <2>3. Spends
    BY <1>9, <2>2
  <2> QED
    BY <1>6, <1>11, <1>12, <1>21, <2>1, <2>2, <2>3 DEF LoneFits
<1>23. TwoScene => /\ \A x \in Browser!Pair : rs[x] \in {"none", "live", "spent"}
                   /\ TwoFits(mem[w], f, rs) /\ SentAgain(call[w], f, expired)
                   /\ \A v \in open \ {w} : TwoFits(mem[v], refresh[v], rs)
  <2> SUFFICES ASSUME TwoScene
               PROVE /\ \A x \in Browser!Pair : rs[x] \in {"none", "live", "spent"}
                     /\ TwoFits(mem[w], f, rs) /\ SentAgain(call[w], f, expired)
                     /\ \A v \in open \ {w} : TwoFits(mem[v], refresh[v], rs)
    OBVIOUS
  <2>1. /\ \A x \in Browser!Pair : serverRow[x] \in {"none", "live", "spent"}
        /\ \A v \in open : TwoFits(mem[v], refresh[v], serverRow) /\ SentAgain(call[v], refresh[v], expired)
    BY DEF BrowserInv, TwoTokens
  <2>2. ~Punishes
    BY <1>4, <2>1
  <2>3. \A x \in Browser!Pair : rs[x] \in {"none", "live", "spent"}
    BY <1>9, <1>12, <2>1, <2>2
  <2>4. TwoFits(mem[w], f, rs)
    BY <1>1, <1>2, <1>9, <1>11, <2>1, <2>2 DEF TwoFits
  <2>5. ASSUME NEW v \in open PROVE TwoFits(mem[v], refresh[v], rs)
    <3>1. refresh[v].at = "refused" => refresh[v].token \in Browser!Pair /\ serverRow[refresh[v].token] # "none"
      BY <2>5, WindowIs DEF WindowFits, FlightFits, Browser!NoFlight
    <3> QED
      BY <1>9, <1>12, <2>1, <2>2, <3>1 DEF TwoFits
  <2> QED
    BY <1>2, <1>21, <2>1, <2>3, <2>4, <2>5
<1>24. TwoScene => \E x \in Browser!Pair :
         rs[x] = "live" /\ (Has(mem[w], f, x) \/ \E v \in open \ {w} : Has(mem[v], refresh[v], x))
  <2> SUFFICES ASSUME TwoScene
               PROVE \E x \in Browser!Pair :
                 rs[x] = "live" /\ (Has(mem[w], f, x) \/ \E v \in open \ {w} : Has(mem[v], refresh[v], x))
    OBVIOUS
  <2>1. CASE Spends
    BY <1>5, <1>11, <1>12, <2>1 DEF Has
  <2>2. CASE Refuses
    <3>1. PICK v \in open, x \in Browser!Pair : serverRow[x] = "live" /\ Has(mem[v], refresh[v], x)
      BY DEF BrowserInv, SomebodyHas
    <3>2. TwoFits(mem[w], refresh[w], serverRow)
      BY <1>2 DEF BrowserInv, TwoTokens
    <3>3. v # w
      BY <1>1, <2>2, <3>1, <3>2 DEF TwoFits, Has
    <3> QED
      BY <2>2, <3>1, <3>3
  <2>3. ~Punishes
    BY <1>4 DEF BrowserInv, TwoTokens
  <2> QED
    BY <1>9, <2>1, <2>2, <2>3
<1> QED
  BY <1>2, <1>7, <1>14, <1>15, <1>17, <1>18, <1>20, <1>22, <1>23, <1>24, WindowMoves
\* The answer to a refresh arrives: the pair is stored, and who waited goes on.
LEMMA ResumeKeeps ==
  ASSUME BrowserInv, NEW w \in Req, Browser!Resume(w)
  PROVE  BrowserInv'
<1> DEFINE t == Browser!Next1(refresh[w].token)
           m == Browser!WithPair(mem[w], t)
           k == [c \in Slot |-> IF c \in Browser!Waiting(w) THEN Browser!Resent(call[w][c], t) ELSE call[w][c]]
           d == [pair |-> m.pair, in |-> m.in]
           f == Browser!NoFlight
<1>1. refresh[w].at = "rotated" /\ refresh[w] # Browser!NoFlight
  BY DEF Browser!Resume, Browser!NoFlight
<1>2. w \in open
  BY <1>1 DEF BrowserInv, WindowsFit
<1>3. WindowFits(mem[w], call[w], refresh[w], screen.kinds, serverRow)
  BY <1>2, WindowIs
<1>4. t \in Browser!Pair /\ t # NoToken /\ serverRow[t] # "none" /\ refresh[w].token \in Browser!Pair /\ refresh[w].token[2] < MaxRotation
  BY <1>1, <1>3, PairFacts DEF WindowFits, FlightFits
<1>5. /\ screen' = screen /\ open' = open /\ expired' = expired /\ refresh' = [refresh EXCEPT ![w] = f]
      /\ torn' = torn /\ ended' = ended /\ code' = code /\ burned' = burned /\ serverRow' = serverRow
      /\ mem' = [mem EXCEPT ![w] = m] /\ call' = [call EXCEPT ![w] = k] /\ disk' = d
  BY DEF Browser!Resume, Browser!Save
<1>6. /\ mem[w] \in Browser!Store /\ RowsFit(serverRow)
      /\ ended \subseteq 1..MaxLogin /\ code \in {"fresh", "posted", "used"}
      /\ burned \in BOOLEAN /\ torn \in BOOLEAN
  BY <1>2, WindowIs DEF BrowserInv, WindowsFit
<1>7. m \in Browser!Store /\ m.pair = t /\ d \in Browser!Saved /\ d.pair = t
  <2>1. mem[w] \in Browser!Store
    BY <1>6
  <2> DEFINE x == [mem[w] EXCEPT !.pair = t]
             y == [x EXCEPT !.in = TRUE]
  <2>2. m = y
    BY DEF Browser!WithPair
  <2> HIDE DEF t
  <2>3. x \in Browser!Store /\ x.pair = t
    BY <1>4, <2>1 DEF Browser!Store
  <2> HIDE DEF x
  <2>4. y \in Browser!Store /\ y.pair = t
    BY <2>3 DEF Browser!Store
  <2> HIDE DEF m, y
  <2> QED
    BY <2>2, <2>4 DEF Browser!Store, Browser!Saved
<1>8. \A c \in Slot : RequestFits(call[w][c], screen.kinds, serverRow) /\ call[w][c] \in Browser!Call \cup {Browser!Idle}
  BY <1>3 DEF WindowFits
<1>9. ASSUME NEW c \in Slot
      PROVE  \/ call[w][c].at # "waiting" /\ k[c] = call[w][c]
             \/ /\ call[w][c].at = "waiting" /\ k[c] \in Browser!Call /\ call[w][c] # Browser!Idle
                /\ k[c].at = "wire" /\ k[c].kind = call[w][c].kind /\ k[c].bearer = t
                /\ k[c].body = call[w][c].body
  <2>1. CASE call[w][c].at = "waiting"
    <3>1. call[w][c] \in Browser!Call /\ call[w][c] # Browser!Idle
      BY <1>8, <2>1 DEF Browser!Idle
    <3>2. k[c] = Browser!Resent(call[w][c], t)
      BY <2>1 DEF Browser!Waiting
    <3> HIDE DEF k, t
    <3> QED
      BY <1>4, <2>1, <3>1, <3>2, ResentIs
  <2>2. CASE call[w][c].at # "waiting"
    BY <2>2 DEF Browser!Waiting
  <2> QED
    BY <2>1, <2>2
<1>10. k \in [Slot -> Browser!Call \cup {Browser!Idle}]
  <2>1. \A c \in Slot : k[c] \in Browser!Call \cup {Browser!Idle}
    <3> HIDE DEF k
    <3> QED
      BY <1>8, <1>9
  <2> QED
    BY <2>1
<1> HIDE DEF k, m, d, t
<1>11. \A c \in Slot : RequestFits(k[c], screen.kinds, serverRow)
  <2> SUFFICES ASSUME NEW c \in Slot PROVE RequestFits(k[c], screen.kinds, serverRow)
    OBVIOUS
  <2>1. Known(t, serverRow)
    BY <1>4 DEF Known
  <2> QED
    BY <1>8, <1>9, <2>1 DEF RequestFits
<1>12. f \in Browser!Flight /\ FlightFits(f, serverRow) /\ f.at = "none"
  BY DEF Browser!Flight, Browser!NoFlight, FlightFits
<1>13. WindowFits(m, k, f, screen.kinds, serverRow) /\ Known(d.pair, serverRow)
  BY <1>4, <1>7, <1>10, <1>11, <1>12 DEF WindowFits, Known
<1> HIDE DEF f
<1>14. Moves(w, m, k, f, d, serverRow)
  BY <1>5, <1>6 DEF Moves
<1>15. (screen.windows = 1 /\ ~torn') => ~burned' /\ OwnFits(m, f, d, serverRow)
  <2> SUFFICES ASSUME screen.windows = 1, ~torn PROVE ~burned' /\ OwnFits(m, f, d, serverRow)
    BY <1>5
  <2>1. ~burned /\ OwnFits(mem[w], refresh[w], disk, serverRow)
    BY <1>2 DEF BrowserInv, OwnTokens
  <2>2. serverRow[t] \in Usable
    BY <1>1, <2>1 DEF OwnFits, t
  <2> QED
    BY <1>5, <1>7, <1>12, <2>1, <2>2 DEF OwnFits
<1>16. SentAgain(call[w], refresh[w], expired) => SentAgain(k, f, expired)
  <2> SUFFICES ASSUME SentAgain(call[w], refresh[w], expired) PROVE SentAgain(k, f, expired)
    OBVIOUS
  <2>1. t \notin expired
    BY <1>1 DEF SentAgain, t
  <2> QED
    BY <1>4, <1>9, <1>12, <2>1 DEF SentAgain
<1>17. LoneScene => /\ ~torn' /\ \A x \in Browser!Pair : serverRow[x] # "revoked"
                    /\ LoneFits(m, k, f, code') /\ SentAgain(k, f, expired)
  <2> SUFFICES ASSUME LoneScene PROVE /\ ~torn' /\ \A x \in Browser!Pair : serverRow[x] # "revoked"
                                      /\ LoneFits(m, k, f, code') /\ SentAgain(k, f, expired)
    OBVIOUS
  <2>1. /\ ~torn /\ (\A x \in Browser!Pair : serverRow[x] # "revoked")
        /\ LoneFits(mem[w], call[w], refresh[w], code) /\ SentAgain(call[w], refresh[w], expired)
    BY <1>2 DEF BrowserInv, LoneTokens
  <2>2. \A c \in Slot : call[w][c].at = "waiting" => call[w][c].kind # "exchange"
    BY <1>9, <2>1 DEF LoneFits
  <2>3. ASSUME NEW c \in Slot, k[c] # Browser!Idle
        PROVE  k[c].bearer # NoToken /\ (k[c].kind = "exchange" => k[c] = call[w][c])
    BY <1>4, <1>9, <2>1, <2>2, <2>3 DEF LoneFits
  <2>4. LoneFits(m, k, f, code)
    BY <1>4, <1>7, <1>12, <2>1, <2>3 DEF LoneFits
  <2> QED
    BY <1>5, <1>16, <2>1, <2>4
<1>18. ASSUME TwoScene
       PROVE  /\ \A x \in Browser!Pair : serverRow[x] \in {"none", "live", "spent"}
              /\ TwoFits(m, f, serverRow) /\ SentAgain(k, f, expired)
              /\ \A v \in open \ {w} : TwoFits(mem[v], refresh[v], serverRow)
              /\ \E x \in Browser!Pair :
                   serverRow[x] = "live" /\ (Has(m, f, x) \/ \E v \in open \ {w} : Has(mem[v], refresh[v], x))
  <2>1. /\ \A x \in Browser!Pair : serverRow[x] \in {"none", "live", "spent"}
        /\ \A v \in open : TwoFits(mem[v], refresh[v], serverRow) /\ SentAgain(call[v], refresh[v], expired)
    BY <1>18 DEF BrowserInv, TwoTokens
  <2>2. TwoFits(m, f, serverRow)
    BY <1>12 DEF TwoFits, f
  <2>3. serverRow[refresh[w].token] # "live"
    BY <1>4, <1>6 DEF RowsFit, t
  <2>4. PICK v \in open, x \in Browser!Pair : serverRow[x] = "live" /\ Has(mem[v], refresh[v], x)
    BY <1>18 DEF BrowserInv, SomebodyHas
  <2>5. v = w => x = t
    BY <1>1, <1>2, <2>1, <2>3, <2>4 DEF Has, TwoFits, t
  <2>6. Has(m, f, x) \/ \E y \in open \ {w} : Has(mem[y], refresh[y], x)
    BY <1>7, <2>4, <2>5 DEF Has
  <2> QED
    BY <1>2, <1>16, <2>1, <2>2, <2>4, <2>6
<1> QED
  BY <1>2, <1>6, <1>7, <1>13, <1>14, <1>15, <1>17, <1>18, WindowMoves

\* A refresh that fails signs the window out.
LEMMA FailKeeps ==
  ASSUME BrowserInv, NEW w \in Req, Browser!Fail(w)
  PROVE  BrowserInv'
<1> DEFINE m == Browser!SignedOut
           k == [c \in Slot |-> IF c \in Browser!Waiting(w) THEN Browser!Idle ELSE call[w][c]]
           d == [pair |-> m.pair, in |-> m.in]
           f == Browser!NoFlight
<1>1. refresh[w] # Browser!NoFlight /\ (refresh[w].at = "refused" \/ screen.drops)
  BY DEF Browser!Fail
<1>2. w \in open
  BY <1>1 DEF BrowserInv, WindowsFit
<1>3. WindowFits(mem[w], call[w], refresh[w], screen.kinds, serverRow)
  BY <1>2, WindowIs
<1>4. Browser!Waiting(w) # {}
  BY <1>1, <1>3 DEF WindowFits, Browser!Waiting
<1>5. /\ screen' = screen /\ open' = open /\ expired' = expired /\ refresh' = [refresh EXCEPT ![w] = f]
      /\ torn' = torn /\ ended' = ended /\ code' = code /\ burned' = burned /\ serverRow' = serverRow
      /\ mem' = [mem EXCEPT ![w] = m] /\ call' = [call EXCEPT ![w] = k] /\ disk' = d
  BY <1>4 DEF Browser!Fail, Browser!Save, Browser!AfterFailed
<1>6. /\ RowsFit(serverRow) /\ ended \subseteq 1..MaxLogin /\ code \in {"fresh", "posted", "used"}
      /\ burned \in BOOLEAN /\ torn \in BOOLEAN
  BY DEF BrowserInv, WindowsFit
<1>7. m \in Browser!Store /\ m.pair = NoToken /\ d \in Browser!Saved /\ d.pair = NoToken
  BY SignedOutIs
<1>8. \A c \in Slot : k[c] = Browser!Idle \/ (k[c] = call[w][c] /\ call[w][c].at # "waiting")
  BY DEF Browser!Waiting
<1>9. k \in [Slot -> Browser!Call \cup {Browser!Idle}]
  BY <1>3 DEF WindowFits
<1> HIDE DEF k, m, d
<1>10. f \in Browser!Flight /\ FlightFits(f, serverRow) /\ f.at = "none"
  BY DEF Browser!Flight, Browser!NoFlight, FlightFits
<1>11. WindowFits(m, k, f, screen.kinds, serverRow) /\ Known(d.pair, serverRow)
  <2>1. \A c \in Slot : RequestFits(k[c], screen.kinds, serverRow)
    BY <1>3, <1>8 DEF WindowFits, RequestFits
  <2> QED
    BY <1>7, <1>9, <1>10, <2>1 DEF WindowFits, Known
<1>12. Moves(w, m, k, f, d, serverRow)
  BY <1>5, <1>6 DEF Moves
<1>13. (screen.windows = 1 /\ ~torn') => ~burned' /\ OwnFits(m, f, d, serverRow)
  BY <1>2, <1>5, <1>7, <1>10 DEF OwnFits, BrowserInv, OwnTokens
<1>14. ~LoneScene
  BY <1>1, <1>2 DEF BrowserInv, LoneTokens, LoneFits, LoneScene, Browser!Untroubled
<1>15. ASSUME TwoScene
       PROVE  /\ \A x \in Browser!Pair : serverRow[x] \in {"none", "live", "spent"}
              /\ TwoFits(m, f, serverRow) /\ SentAgain(k, f, expired)
              /\ \A v \in open \ {w} : TwoFits(mem[v], refresh[v], serverRow)
              /\ \E x \in Browser!Pair :
                   serverRow[x] = "live" /\ (Has(m, f, x) \/ \E v \in open \ {w} : Has(mem[v], refresh[v], x))
  <2>1. /\ \A x \in Browser!Pair : serverRow[x] \in {"none", "live", "spent"}
        /\ \A v \in open : TwoFits(mem[v], refresh[v], serverRow) /\ SentAgain(call[v], refresh[v], expired)
    BY <1>15 DEF BrowserInv, TwoTokens
  <2>2. refresh[w].at = "refused"
    BY <1>1, <1>15 DEF TwoScene, Browser!Untroubled
  <2>3. TwoFits(m, f, serverRow)
    BY <1>10 DEF TwoFits
  <2>4. SentAgain(k, f, expired)
    BY <1>2, <1>8, <1>10, <2>1 DEF SentAgain, Browser!Idle
  <2>5. PICK v \in open, x \in Browser!Pair : serverRow[x] = "live" /\ Has(mem[v], refresh[v], x)
    BY <1>15 DEF BrowserInv, SomebodyHas
  <2>6. v # w
    BY <1>1, <1>2, <2>1, <2>2, <2>5 DEF Has, TwoFits
  <2> QED
    BY <2>1, <2>3, <2>4, <2>5, <2>6
<1> QED
  BY <1>2, <1>6, <1>7, <1>11, <1>12, <1>13, <1>14, <1>15, WindowMoves

\* A page load: what is on disk, and nothing in flight.
LEMMA ReloadKeeps ==
  ASSUME BrowserInv, NEW w \in Req, Browser!Reload(w)
  PROVE  BrowserInv'
<1> DEFINE m == [pair |-> disk.pair, in |-> disk.in, mfa |-> FALSE]
           k == [c \in Slot |-> Browser!Idle]
           f == Browser!NoFlight
<1>1. w \in open /\ screen.reloads
  BY DEF Browser!Reload
<1>2. /\ screen' = screen /\ open' = open /\ expired' = expired /\ refresh' = [refresh EXCEPT ![w] = f]
      /\ torn' = (torn \/ refresh[w] # Browser!NoFlight) /\ ended' = ended /\ code' = code /\ burned' = burned
      /\ serverRow' = serverRow
      /\ mem' = [mem EXCEPT ![w] = m] /\ call' = [call EXCEPT ![w] = k] /\ disk' = disk
  BY DEF Browser!Reload
<1>3. /\ RowsFit(serverRow) /\ ended \subseteq 1..MaxLogin /\ code \in {"fresh", "posted", "used"}
      /\ burned \in BOOLEAN /\ torn \in BOOLEAN /\ disk \in Browser!Saved /\ Known(disk.pair, serverRow)
  BY DEF BrowserInv, WindowsFit
<1>4. m \in Browser!Store /\ m.pair = disk.pair
  BY <1>3 DEF Browser!Saved, Browser!Store
<1>5. f \in Browser!Flight /\ FlightFits(f, serverRow) /\ f.at = "none"
  BY DEF Browser!Flight, Browser!NoFlight, FlightFits
<1>6. WindowFits(m, k, f, screen.kinds, serverRow)
  <2>1. k \in [Slot -> Browser!Call \cup {Browser!Idle}] /\ \A c \in Slot : RequestFits(k[c], screen.kinds, serverRow)
    BY DEF RequestFits
  <2> HIDE DEF m, k
  <2> QED
    BY <1>3, <1>4, <1>5, <2>1 DEF WindowFits
<1> HIDE DEF m, k
<1>7. Moves(w, m, k, f, disk, serverRow)
  BY <1>2, <1>3 DEF Moves
<1>8. (screen.windows = 1 /\ ~torn') => ~burned' /\ OwnFits(m, f, disk, serverRow)
  <2> SUFFICES ASSUME screen.windows = 1, ~torn' PROVE ~burned' /\ OwnFits(m, f, disk, serverRow)
    OBVIOUS
  <2>0. ~torn /\ refresh[w] = Browser!NoFlight
    <3>1. ~(torn \/ refresh[w] # Browser!NoFlight)
      BY <1>2
    <3> QED
      BY <3>1
  <2>1. ~torn /\ refresh[w].at = "none"
    BY <2>0 DEF Browser!NoFlight
  <2>2. ~burned /\ OwnFits(mem[w], refresh[w], disk, serverRow)
    BY <1>1, <2>1 DEF BrowserInv, OwnTokens
  <2> QED
    BY <1>2, <1>4, <1>5, <2>1, <2>2 DEF OwnFits
<1>9. ~LoneScene /\ ~TwoScene
  BY <1>1 DEF LoneScene, TwoScene, Browser!Untroubled
<1> QED
  BY <1>1, <1>3, <1>6, <1>7, <1>8, <1>9, WindowMoves
\* A bearer runs out: one that somebody may present, and none that was just handed out.
LEMMA ExpireKeeps ==
  ASSUME BrowserInv, NEW t \in Browser!Pair, Browser!Expire(t)
  PROVE  BrowserInv'
<1>1. /\ screen' = screen /\ open' = open /\ mem' = mem /\ disk' = disk /\ call' = call /\ refresh' = refresh
      /\ serverRow' = serverRow /\ code' = code /\ burned' = burned /\ torn' = torn /\ ended' = ended
      /\ expired' = expired \cup {t}
  BY DEF Browser!Expire
<1>2. serverRow[t] # "none"
  <2>1. t # NoToken
    BY PairFacts
  <2>2. PICK w \in open :
          \/ t \in {mem[w].pair, disk.pair, refresh[w].token}
          \/ \E c \in Slot : call[w][c] # Browser!Idle /\ t \in {call[w][c].bearer, call[w][c].body}
    BY DEF Browser!Expire, Browser!Held
  <2>3. WindowFits(mem[w], call[w], refresh[w], screen.kinds, serverRow) /\ Known(disk.pair, serverRow)
    BY DEF BrowserInv, WindowsFit
  <2>4. CASE t = mem[w].pair \/ t = disk.pair
    BY <2>1, <2>3, <2>4 DEF WindowFits, Known
  <2>5. CASE t = refresh[w].token
    BY <2>1, <2>3, <2>5 DEF WindowFits, FlightFits, Browser!NoFlight
  <2>6. CASE \E c \in Slot : call[w][c] # Browser!Idle /\ t \in {call[w][c].bearer, call[w][c].body}
    BY <2>1, <2>3, <2>6 DEF WindowFits, RequestFits, Known
  <2> QED
    BY <2>2, <2>4, <2>5, <2>6
<1>3. WindowsFit'
  <2>1. WindowsFit
    BY DEF BrowserInv
  <2>2. expired' \subseteq Made(serverRow')
    BY <1>1, <1>2, <2>1 DEF WindowsFit, Made
  <2> QED
    BY <1>1, <2>1, <2>2 DEF WindowsFit
<1>4. OwnTokens'
  BY <1>1 DEF BrowserInv, OwnTokens
<1>5. ASSUME NEW w \in open, SentAgain(call[w], refresh[w], expired) PROVE SentAgain(call[w], refresh[w], expired')
  <2>1. w \in Req
    BY <1>5 DEF BrowserInv, WindowsFit
  <2>2. refresh[w].at = "rotated" => Browser!Next1(refresh[w].token) # t
    BY <2>1 DEF Browser!Expire
  <2>3. \A c \in Slot : call[w][c].at = "wire" /\ call[w][c].tries = 2 => call[w][c].bearer # t
    BY <2>1 DEF Browser!Expire, Browser!Idle
  <2> QED
    BY <1>1, <1>5, <2>2, <2>3 DEF SentAgain
<1>6. LoneTokens'
  BY <1>1, <1>5 DEF BrowserInv, LoneTokens, LoneScene, Browser!Untroubled
<1>7. TwoTokens'
  BY <1>1, <1>5 DEF BrowserInv, TwoTokens, TwoScene, Browser!Untroubled
<1>8. SomebodyHas'
  BY <1>1 DEF BrowserInv, SomebodyHas, TwoScene, Browser!Untroubled
<1> QED
  BY <1>3, <1>4, <1>6, <1>7, <1>8 DEF BrowserInv

LEMMA GraceEndsKeeps ==
  ASSUME BrowserInv, NEW t \in Browser!Pair, Browser!GraceEnds(t)
  PROVE  BrowserInv'
<1>1. /\ screen' = screen /\ open' = open /\ mem' = mem /\ disk' = disk /\ call' = call /\ refresh' = refresh
      /\ code' = code /\ burned' = burned /\ torn' = torn /\ ended' = ended /\ expired' = expired
      /\ serverRow[t] = "spent" /\ ~screen.grace /\ serverRow' = [serverRow EXCEPT ![t] = "lapsed"]
  BY DEF Browser!GraceEnds
<1>2. PICK rs : rs = serverRow'
  OBVIOUS
<1>3. WindowsFit /\ RowsFit(serverRow) /\ serverRow \in [Browser!Pair -> States]
  BY DEF BrowserInv, WindowsFit, RowsFit
<1>4. rs \in [Browser!Pair -> States] /\ rs[t] = "lapsed" /\ \A x \in Browser!Pair \ {t} : rs[x] = serverRow[x]
  BY <1>1, <1>2, <1>3 DEF States
<1>5. \A x \in Browser!Pair : serverRow[x] # "none" => rs[x] # "none"
  BY <1>4
<1>6. RowsFit(rs)
  BY <1>1, <1>3, <1>4, PairFacts DEF RowsFit
<1>7. WindowsFit'
  <2>1. \A w \in open : WindowFits(mem[w], call[w], refresh[w], screen.kinds, rs)
    BY <1>3, <1>5, KnownStays DEF WindowsFit
  <2>2. Known(disk.pair, rs)
    BY <1>3, <1>5, KnownStays DEF WindowsFit
  <2>3. expired \subseteq Made(rs)
    BY <1>3, <1>5 DEF WindowsFit, Made
  <2> QED
    BY <1>1, <1>2, <1>3, <1>6, <2>1, <2>2, <2>3 DEF WindowsFit
<1>8. OwnTokens'
  <2> SUFFICES ASSUME screen.windows = 1, ~torn, NEW w \in open PROVE ~burned /\ OwnFits(mem[w], refresh[w], disk, rs)
    BY <1>1, <1>2, <1>3 DEF OwnTokens, WindowsFit
  <2>1. ~burned /\ OwnFits(mem[w], refresh[w], disk, serverRow)
    BY DEF BrowserInv, OwnTokens
  <2>2. WindowFits(mem[w], call[w], refresh[w], screen.kinds, serverRow)
    BY <1>3 DEF WindowsFit
  <2>3. mem[w].pair # NoToken => mem[w].pair \in Browser!Pair
    BY <2>2 DEF WindowFits, Known
  <2>4. refresh[w].at \in {"sent", "rotated"} => refresh[w].token \in Browser!Pair
    BY <2>2 DEF WindowFits, FlightFits, Browser!NoFlight
  <2>5. refresh[w].at = "rotated" => Browser!Next1(refresh[w].token) \in Browser!Pair
    BY <2>2, PairFacts DEF WindowFits, FlightFits, Browser!NoFlight
  <2> QED
    BY <1>1, <1>4, <2>1, <2>3, <2>4, <2>5 DEF OwnFits, Usable
<1>9. LoneTokens'
  <2> SUFFICES ASSUME LoneScene PROVE LoneTokens'
    BY <1>1 DEF LoneTokens, LoneScene, Browser!Untroubled
  <2>1. \A x \in Browser!Pair : rs[x] # "revoked"
    BY <1>4 DEF BrowserInv, LoneTokens
  <2> QED
    BY <1>1, <1>2, <2>1 DEF BrowserInv, LoneTokens
<1>10. ~TwoScene /\ ~TwoScene'
  BY <1>1 DEF TwoScene
<1> QED
  BY <1>7, <1>8, <1>9, <1>10 DEF BrowserInv, TwoTokens, SomebodyHas

LEMMA NextBrowser == BrowserInv /\ [Browser!Next]_(Browser!vars) => BrowserInv'
<1> SUFFICES ASSUME BrowserInv, [Browser!Next]_(Browser!vars) PROVE BrowserInv'
  OBVIOUS
<1>1. CASE UNCHANGED Browser!vars
  <2>1. WindowsFit' = WindowsFit /\ OwnTokens' = OwnTokens
    BY <1>1 DEF Browser!vars, WindowsFit, OwnTokens
  <2>2. LoneTokens' = LoneTokens
    BY <1>1 DEF Browser!vars, LoneTokens, LoneScene, Browser!Untroubled
  <2>3. TwoTokens' = TwoTokens /\ SomebodyHas' = SomebodyHas
    BY <1>1 DEF Browser!vars, TwoTokens, SomebodyHas, TwoScene, Browser!Untroubled
  <2> QED
    BY <2>1, <2>2, <2>3 DEF BrowserInv
<1>2. ASSUME NEW w \in Req, Browser!Rotate(w) \/ Browser!Resume(w) \/ Browser!Fail(w) \/ Browser!Reload(w) PROVE BrowserInv'
  BY <1>2, RotateKeeps, ResumeKeeps, FailKeeps, ReloadKeeps
<1>3. ASSUME NEW w \in Req, NEW c \in Slot, NEW kind \in Browser!Kinds, Browser!Begin(w, c, kind) PROVE BrowserInv'
  BY <1>3, BeginKeeps
<1>4. ASSUME NEW w \in Req, NEW c \in Slot, Browser!Ok(w, c) \/ Browser!Refused(w, c) \/ Browser!Lost(w, c) PROVE BrowserInv'
  BY <1>4, OkKeeps, RefusedKeeps, LostKeeps
<1>5. ASSUME NEW t \in Browser!Pair, Browser!Expire(t) \/ Browser!GraceEnds(t) PROVE BrowserInv'
  BY <1>5, ExpireKeeps, GraceEndsKeeps
<1> QED
  BY <1>1, <1>2, <1>3, <1>4, <1>5 DEF Browser!Next

LEMMA BrowserSound == BrowserInv => Browser!RefreshesCostNoSession
<1> SUFFICES ASSUME BrowserInv PROVE Browser!RefreshesCostNoSession
  OBVIOUS
<1>1. Browser!TypeOK
  <2>1. \A w \in Req : call[w] \in [Slot -> Browser!Call \cup {Browser!Idle}]
    BY DEF BrowserInv, WindowsFit
  <2> QED
    BY <2>1 DEF BrowserInv, WindowsFit, RowsFit, States, Made, Browser!TypeOK
<1>2. Browser!LoneWindowStaysSignedIn
  BY DEF BrowserInv, LoneTokens, LoneFits, LoneScene, Browser!LoneWindowStaysSignedIn
<1>3. Browser!DoubleFireSparesAWindow
  BY DEF BrowserInv, SomebodyHas, Has, TwoScene, Browser!DoubleFireSparesAWindow
<1>4. Browser!OwnRefreshNeverBurns
  BY DEF BrowserInv, OwnTokens, Browser!OwnRefreshNeverBurns
<1> QED
  BY <1>1, <1>2, <1>3, <1>4 DEF Browser!RefreshesCostNoSession

\* No refresh of the console's own costs the user the session, for any number of requests
\* at a time, of sign-ins and of rotations: a window alone that reaches the server stays
\* signed in, of two that fire within the grace window one does, and only a reload that
\* cuts a refresh off makes a window look like a thief.
THEOREM ConsoleHolds == HouseSpec => []RefreshesCostNoSession
<1> DEFINE Inv == part = "console" => BrowserInv
<1>1. HouseInit => Inv
  BY InitBrowser DEF HouseInit
<1>2. Inv /\ [HouseNext]_<<part, vars, consoleVars, migrationVars>> => Inv'
  <2> SUFFICES ASSUME Inv, [HouseNext]_<<part, vars, consoleVars, migrationVars>>, part' = "console"
               PROVE  BrowserInv'
    OBVIOUS
  <2>1. part = "console" /\ [Browser!Next]_(Browser!vars)
    BY DEF HouseNext, consoleVars, Browser!vars
  <2> QED
    BY <2>1, NextBrowser
<1>3. Inv => RefreshesCostNoSession
  BY BrowserSound DEF RefreshesCostNoSession
<1> QED
  BY <1>1, <1>2, <1>3, PTL DEF HouseSpec
=============================================================================
