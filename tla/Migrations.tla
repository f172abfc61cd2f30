---------------------------- MODULE Migrations -----------------------------
(***************************************************************************)
(* The two ways to change the schema: scripts/migrate.sh, which every boot *)
(* runs and which serializes replicas by an advisory lock of its session,  *)
(* and the migration package's manager (`accessbase-migrate`), which takes *)
(* no lock and can also roll back.  Either runs a file and its ledger row  *)
(* in one transaction, so that is one step here.                           *)
(*                                                                         *)
(* A file is its position in the chain; an image ships a prefix of it.     *)
(***************************************************************************)
EXTENDS Integers, FiniteSets, FiniteSetsExt

CONSTANTS
  Migrator,    \* processes that migrate
  Scenes,      \* what may happen in a behaviour, see Init
  MaxFile,     \* the length of the chain
  MaxCrashes,  \* bound
  NoMigrator

VARIABLES
  plot,     \* the scene of this behaviour
  image,    \* how much of the chain each process ships
  schema,   \* the files whose changes are in the database
  ledger,   \* schema_migrations, or _migrations
  holder,   \* who holds the advisory lock
  run,      \* each process: its command, its next step, the files it has left
  warned,   \* the sentinels have said that the schema is behind
  crashes   \* history

chainVars == <<plot, image, schema, ledger, holder, run, warned, crashes>>

Command == {"idle", "script", "up", "down", "downTo"}
Asleep == [cmd |-> "idle", at |-> "idle", todo |-> {}, stamped |-> FALSE]

Init ==
  /\ plot \in Scenes
  /\ image \in {i \in [Migrator -> 1..MaxFile] :
                  \A p \in Migrator : i[p] \in plot.images}
  /\ schema = 1..plot.built       \* a volume of the db:push era has no ledger
  /\ ledger = {}
  /\ holder = NoMigrator
  /\ run = [p \in Migrator |-> Asleep]
  /\ warned = FALSE
  /\ crashes = 0

Legacy == plot.built > 0
Files(p) == 1..image[p]

At(p, step) == run' = [run EXCEPT ![p].at = step]

Start(p, cmd) ==
  /\ cmd \in plot.commands
  /\ run[p].at \in {"idle", "done", "failed"}
  /\ run' = [run EXCEPT ![p] = [Asleep EXCEPT !.cmd = cmd,
                                              !.at = IF cmd = "script" THEN "lock" ELSE "plan"]]
  /\ UNCHANGED <<plot, image, schema, ledger, holder, warned, crashes>>

-----------------------------------------------------------------------------
(* One file, in one transaction *)

\* Faulty variant: the ledger row is written after the transaction, if at all.
CommitInTwo(f) == schema' = schema \cup {f} /\ ledger' \in {ledger, ledger \cup {f}}

Commit(f) == schema' = schema \cup {f} /\ ledger' = ledger \cup {f}

\* Faulty variant: the next file is tried after one that failed.
FailedSkips(p, f) == [run[p] EXCEPT !.todo = @ \ {f}]

\* The session stops, or up() throws, at the first file that fails.
Failed(p, f) == [run[p] EXCEPT !.at = "failed", !.todo = {}]

\* What is there already cannot be created again, and a ledger row is unique.
Collides(f) == f \in schema \/ f \in ledger

Apply(p, f) ==
  \/ /\ ~Collides(f)
     /\ Commit(f)
     /\ run' = [run EXCEPT ![p].todo = @ \ {f}]
     /\ UNCHANGED holder
  \/ /\ Collides(f) \/ plot.faults
     /\ run' = [run EXCEPT ![p] = Failed(p, f)]
     /\ holder' = IF holder = p THEN NoMigrator ELSE holder
     /\ UNCHANGED <<schema, ledger>>

-----------------------------------------------------------------------------
(* scripts/migrate.sh *)

\* Faulty variant: the session does not wait for the lock.
MayLockAnyway == TRUE

MayLock == holder = NoMigrator

Lock(p) ==
  /\ run[p].at = "lock" /\ MayLock
  /\ holder' = p
  /\ At(p, "stamp")
  /\ UNCHANGED <<plot, image, schema, ledger, warned, crashes>>

\* lock_timeout: the boot fails aloud and the restart loop tries again.
LockTimeout(p) ==
  /\ plot.faults /\ run[p].at = "lock" /\ holder # NoMigrator
  /\ At(p, "failed")
  /\ UNCHANGED <<plot, image, schema, ledger, holder, warned, crashes>>

\* A volume with a users table and an empty ledger is taken to be at the head.
Stamp(p) ==
  /\ run[p].at = "stamp"
  /\ LET stamps == ledger = {} /\ 1 \in schema
     IN /\ ledger' = IF stamps THEN Files(p) ELSE ledger
        /\ run' = [run EXCEPT ![p].at = "probe", ![p].stamped = stamps]
  /\ UNCHANGED <<plot, image, schema, holder, warned, crashes>>

\* The files the session has still to probe or to apply, and the next of them.
Ahead(p) == {f \in Files(p) : f \notin ledger}

Probe(p) ==
  /\ run[p].at = "probe"
  /\ IF Ahead(p) = {}
     THEN /\ holder' = IF holder = p THEN NoMigrator ELSE holder
          /\ At(p, IF run[p].stamped THEN "sentinels" ELSE "done")
     ELSE /\ run' = [run EXCEPT ![p].at = "apply", ![p].todo = {Min(Ahead(p))}]
          /\ UNCHANGED holder
  /\ UNCHANGED <<plot, image, schema, ledger, warned, crashes>>

ApplyFile(p) ==
  /\ run[p].cmd = "script" /\ run[p].at = "apply"
  /\ IF run[p].todo = {} THEN At(p, "probe") /\ UNCHANGED <<schema, ledger, holder>>
                         ELSE Apply(p, Min(run[p].todo))
  /\ UNCHANGED <<plot, image, warned, crashes>>

\* Faulty variant: nobody added an entry for the newest file.
SentinelsStale(p) == Files(p) \ {image[p]}

\* One cheap fact of the schema for each file of the chain.
Sentinels(p) == Files(p)

CheckSentinels(p) ==
  /\ run[p].at = "sentinels"
  /\ warned' = (warned \/ ~(Sentinels(p) \subseteq schema))
  /\ At(p, "done")
  /\ UNCHANGED <<plot, image, schema, ledger, holder, crashes>>

-----------------------------------------------------------------------------
(* MigrationManagerImpl *)

\* downTo takes the ledger from its end up to the version named; a version that
\* is not there is never met.  Files that the image does not ship are passed over.
Above(t) == IF t \in ledger THEN {f \in ledger : f > t} ELSE ledger

Work(p, todo) == run' = [run EXCEPT ![p].at = "work", ![p].todo = todo]

\* A ledger that cannot be read counts as empty, for up only; a directory that
\* cannot be read, as one without files.
Plan(p) ==
  /\ run[p].at = "plan"
  /\ \/ run[p].cmd = "up" /\ Work(p, Files(p) \ ledger)
     \/ run[p].cmd = "up" /\ plot.faults /\ Work(p, Files(p))
     \/ run[p].cmd = "down" /\ Work(p, {f \in ledger \cap Files(p) : \A g \in ledger : g <= f})
     \/ run[p].cmd = "downTo" /\ \E t \in 1..MaxFile : Work(p, Above(t) \cap Files(p))
     \/ plot.faults /\ Work(p, {})
  /\ UNCHANGED <<plot, image, schema, ledger, holder, warned, crashes>>

ExecuteMigration(p) ==
  /\ run[p].cmd = "up" /\ run[p].at = "work"
  /\ IF run[p].todo = {} THEN At(p, "done") /\ UNCHANGED <<schema, ledger, holder>>
                         ELSE Apply(p, Min(run[p].todo))
  /\ UNCHANGED <<plot, image, warned, crashes>>

\* Nothing checks that the row was there: undoing what is undone fails or not.
RollbackMigration(p) ==
  /\ run[p].cmd \in {"down", "downTo"} /\ run[p].at = "work"
  /\ LET f == Max(run[p].todo)
     IN \/ run[p].todo = {} /\ At(p, "done") /\ UNCHANGED <<schema, ledger>>
        \/ /\ run[p].todo # {}
           /\ schema' = schema \ {f} /\ ledger' = ledger \ {f}
           /\ run' = [run EXCEPT ![p].todo = @ \ {f}]
        \/ /\ run[p].todo # {} /\ (f \notin schema \/ plot.faults)
           /\ run' = [run EXCEPT ![p] = Failed(p, f)]
           /\ UNCHANGED <<schema, ledger>>
  /\ UNCHANGED <<plot, image, holder, warned, crashes>>

-----------------------------------------------------------------------------
\* The process dies: its session ends, and with it the transaction and the lock.
Crash(p) ==
  /\ plot.crashes /\ crashes < MaxCrashes
  /\ run[p].at \notin {"idle", "done", "failed"}
  /\ run' = [run EXCEPT ![p] = Asleep]
  /\ holder' = IF holder = p THEN NoMigrator ELSE holder
  /\ crashes' = crashes + 1
  /\ UNCHANGED <<plot, image, schema, ledger, warned>>

Next == \E p \in Migrator :
  \/ \E cmd \in Command \ {"idle"} : Start(p, cmd)
  \/ Lock(p) \/ LockTimeout(p) \/ Stamp(p) \/ Probe(p) \/ ApplyFile(p) \/ CheckSentinels(p)
  \/ Plan(p) \/ ExecuteMigration(p) \/ RollbackMigration(p)
  \/ Crash(p)

Spec == Init /\ [][Next]_chainVars

-----------------------------------------------------------------------------
TypeOK ==
  /\ plot \in Scenes /\ image \in [Migrator -> 1..MaxFile]
  /\ schema \subseteq 1..MaxFile /\ ledger \subseteq 1..MaxFile
  /\ holder \in Migrator \cup {NoMigrator}
  /\ run \in [Migrator -> [cmd : Command,
                           at : {"idle", "lock", "stamp", "probe", "apply", "sentinels", "plan",
                                 "work", "done", "failed"},
                           todo : SUBSET (1..MaxFile), stamped : BOOLEAN]]
  /\ warned \in BOOLEAN /\ crashes \in 0..MaxCrashes

\* On a database the chain has built, the ledger lists exactly the files that are
\* in the schema, whatever races, fails, crashes or rolls back; above all no
\* half-done first boot is mistaken for an old volume and stamped.
LedgerIsTheSchema == ~Legacy => ledger = schema

\* Replicas that boot together, with the same chain or another, all succeed: the
\* later one finds the work done (migrate.sh's advisory lock).
LosersSucceed ==
  (plot.commands = {"script"} /\ ~plot.faults /\ ~Legacy) =>
    \A p \in Migrator : run[p].at # "failed"

\* While nobody rolls back, no file is applied before an earlier one.
NoFileIsSkipped ==
  (plot.commands \subseteq {"script", "up"} /\ ~Legacy) => \A f \in ledger : 1..f \subseteq ledger

\* While nobody rolls back, who has stamped a volume and come to its end has reported what
\* the volume lacks.  (Who dies before it could look has not, and nobody will.)
BehindIsLoud ==
  (plot.commands \subseteq {"script", "up"} /\ Legacy) =>
    \A p \in Migrator :
      (run[p].at = "done" /\ run[p].stamped /\ ~(Files(p) \subseteq schema)) => warned

\* Whatever boots together, fails and crashes, the files of the chain are applied once and in
\* order, and what is missing is reported.
ChainIsApplied == TypeOK /\ LedgerIsTheSchema /\ LosersSucceed /\ NoFileIsSkipped /\ BehindIsLoud
=============================================================================
