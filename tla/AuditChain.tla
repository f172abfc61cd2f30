----------------------------- MODULE AuditChain -----------------------------
(***************************************************************************)
(* The audit log: entries on their way into the table, the worker that     *)
(* folds old rows into a chain of anchors and exports it, the erasure of   *)
(* a person from the log, the sweep of old rows, and the verifier.         *)
(*                                                                         *)
(* A row is the number of its entry.  The hash of a row stands for the row *)
(* it was computed over, so a list of hashes is a set of numbers, and a    *)
(* row whose columns were edited by hand is marked as altered.             *)
(***************************************************************************)
EXTENDS Integers, Sequences, FiniteSets, SequencesExt

CONSTANTS
  MaxRow,    \* bound: entries ever logged (one less where rows are swept or altered)
  MaxTime,   \* bound: the clock (one less where rows are scrubbed or altered)
  DayLength,
  Grace,     \* how old a row is before it is folded (90 s)
  MaxDelay,  \* bound: how long an entry is on its way to the table
  Batch,     \* rows per anchor (5000)
  RetentionDays, \* 0: rows are kept
  MaxAltered,    \* bound: rows edited by hand
  Scenes     \* what happens together: sets of "buffer" (entries are written in
             \* batches), "legacy" (rows without a hash), "chain" (the worker),
             \* "faults", "erase", "sweep", "alter" and "verify"

Row == 1..MaxRow
Day(t) == t \div DayLength

VARIABLES
  clock, scene,
  logged,    \* entries so far
  buffer,    \* entries kept back in the process
  flight,    \* the batches on their way to the database
  row,       \* audit_logs
  anchors,   \* audit_chain_anchors, in the order of insertion
  file,      \* the export
  worker,    \* the anchor worker
  eraser,    \* a request that erases the person
  receipt,   \* audit_erasures: the hashes of the receipt
  events,    \* is the person in the payloads of the outbox?
  sweeper,   \* the clock at the last sweep
  check,     \* the verifier
  missed,    \* history: rows a fold passed over, or that came in too late for it
  untidy,    \* history: a sweep split a day, or took a row of an erasure
  raced      \* history: a row about the person came in while it was erased

log == <<scene, logged, buffer, flight>>
chain == <<anchors, file>>
erasing == <<eraser, receipt, events>>
history == <<missed, untidy, raced>>
vars == <<clock, log, row, chain, worker, erasing, sweeper, check, history>>

None == 0
Nowhere == [in |-> FALSE, gone |-> FALSE, at |-> 0, about |-> FALSE, hashed |-> FALSE,
            anchor |-> None, erased |-> FALSE, altered |-> FALSE]
Asleep == [at |-> "idle", todo |-> {}, bad |-> FALSE, stale |-> "no", marks |-> {}, swept |-> FALSE]

buffered == "buffer" \in scene

In == {r \in Row : row[r].in}
InAnchor(i) == {r \in In : row[r].anchor = i}

\* Rows of a time before there were hashes are in the table already; the
\* person may have been erased from them, without a receipt for those rows.
Init ==
  /\ clock = 0 /\ scene \in Scenes /\ buffer = << >> /\ flight = {}
  /\ \E legacy \in IF "legacy" \in scene THEN {1} ELSE {0}, about \in BOOLEAN :
       /\ logged = legacy
       /\ row = [r \in Row |-> IF r <= legacy
                   THEN [Nowhere EXCEPT !.in = TRUE, !.about = about] ELSE Nowhere]
  /\ anchors = << >> /\ file = << >> /\ worker = "idle"
  /\ eraser = "idle" /\ receipt = {} /\ events = TRUE
  /\ sweeper = 0 /\ check = Asleep /\ missed = {} /\ untidy = FALSE /\ raced = FALSE

-----------------------------------------------------------------------------
(* Writing *)

OnTheWay == ToSet(buffer) \cup UNION {ToSet(f) : f \in flight}

\* A request has been answered: its entry carries the time.  Directly written
\* entries leave at once, the others when the buffer is full.
Log(about) ==
  LET r == logged + 1
  IN /\ logged < MaxRow - (IF {"sweep", "alter"} \cap scene # {} THEN 1 ELSE 0)
     /\ logged' = r
     /\ row' = [row EXCEPT ![r] = [Nowhere EXCEPT !.at = clock, !.about = about]]
     /\ IF buffered THEN buffer' = Append(buffer, r) /\ UNCHANGED flight
                    ELSE flight' = flight \cup {<<r>>} /\ UNCHANGED buffer
     /\ UNCHANGED <<clock, scene, chain, worker, erasing, sweeper, check, history>>

\* The timer, a full buffer or the shutdown.
FlushBuffer ==
  /\ buffer # << >> /\ flight' = flight \cup {buffer} /\ buffer' = << >>
  /\ UNCHANGED <<clock, scene, logged, row, chain, worker, erasing, sweeper, check, history>>

\* One INSERT seals every entry of a batch with its hash.
Insert(f) ==
  /\ f \in flight /\ flight' = flight \ {f}
  /\ row' = [r \in Row |-> IF r \in ToSet(f) THEN [row[r] EXCEPT !.in = TRUE, !.hashed = TRUE] ELSE row[r]]
  /\ raced' = (raced \/ (eraser = "write" /\ \E r \in ToSet(f) : row[r].about))
  /\ missed' = missed \cup {r \in ToSet(f) : row[r].at + Grace < clock}
  /\ UNCHANGED <<clock, scene, logged, buffer, chain, worker, erasing, sweeper, check, untidy>>

\* Faulty variant: what was logged meanwhile is overwritten.
KeptBackOnly(f) == f

\* A batch that could not be written goes in front of what came meanwhile.
KeptBack(f) == f \o buffer

\* The INSERT fails; without a buffer the entry is lost, with a line in the log.
InsertFails(f) ==
  /\ "faults" \in scene /\ f \in flight /\ flight' = flight \ {f}
  /\ buffer' = IF buffered THEN KeptBack(f) ELSE buffer
  /\ UNCHANGED <<clock, scene, logged, row, chain, worker, erasing, sweeper, check, history>>

-----------------------------------------------------------------------------
(* Folding rows into anchors, in a transaction that holds the lock *)

Locked == worker = "fold" \/ eraser \in {"read", "write"}

\* Who does not get the lock goes on to the export.
TryLock ==
  /\ "chain" \in scene /\ worker = "idle" /\ worker' = IF Locked THEN "export" ELSE "fold"
  /\ UNCHANGED <<clock, log, row, chain, erasing, sweeper, check, history>>

Foldable(r) == row[r].anchor = None /\ row[r].at + Grace < clock

Backfilled == {r \in In : ~row[r].hashed /\ ~row[r].erased}

\* Rows are folded in the order of creation, Batch of them at a time.
Earlier(r, s) == row[r].at < row[s].at \/ (row[r].at = row[s].at /\ r < s)

Place(r, rows) == Cardinality({s \in rows : Earlier(s, r)})

RollOf(r, rows) == Place(r, rows) \div Batch + 1
Rolls(rows) == [i \in 1..((Cardinality(rows) + Batch - 1) \div Batch) |-> {r \in rows : RollOf(r, rows) = i}]

First(roll) == CHOOSE r \in roll : \A s \in roll \ {r} : Earlier(r, s)

After(a, b) == a.day > b.day \/ (a.day = b.day /\ a.seq > b.seq)

\* Faulty variant: the number is left out of the order.
NewestByDay(as) == IF as = << >> THEN 0
                   ELSE CHOOSE i \in DOMAIN as : \A j \in DOMAIN as : as[i].day >= as[j].day

\* The anchor with the latest day and number; 0 stands for the genesis.
Newest(as) == IF as = << >> THEN 0
            ELSE CHOOSE i \in DOMAIN as : \A j \in DOMAIN as \ {i} : After(as[i], as[j])

\* Faulty variant: anchors are not numbered within the day.
OnlySeq(as, day) == 1

NextSeq(as, day) == Max({0} \cup {as[i].seq : i \in {j \in DOMAIN as : as[j].day = day}}) + 1

RollDay(roll) == Day(row[First(roll)].at)

\* The new anchors of a day are numbered on from the last.
Number(rolls, i) ==
  NextSeq(anchors, RollDay(rolls[i])) + Cardinality({j \in 1..(i - 1) : RollDay(rolls[j]) = RollDay(rolls[i])})

NewAnchor(rolls, i) ==
  [day |-> RollDay(rolls[i]), seq |-> Number(rolls, i), root |-> rolls[i], prev |-> 0, pruned |-> FALSE]

\* One anchor per roll, which refers to the newest one before it.
AddAnchors(rolls) ==
  LET all == anchors \o [i \in 1..Len(rolls) |-> NewAnchor(rolls, i)]
  IN [i \in 1..Len(all) |-> IF i <= Len(anchors) THEN anchors[i]
                            ELSE [all[i] EXCEPT !.prev = Newest(SubSeq(all, 1, i - 1))]]

\* Backfill, then fold until nothing is left; the rows are marked in the same
\* transaction.
Fold ==
  /\ worker = "fold" /\ worker' = "export"
  /\ LET hashed == {r \in In : row[r].hashed} \cup Backfilled
         pending == {r \in hashed : Foldable(r)}
     IN /\ anchors' = AddAnchors(Rolls(pending))
        /\ row' = [r \in Row |->
             IF r \notin hashed THEN row[r]
             ELSE [row[r] EXCEPT !.hashed = TRUE,
                     !.anchor = IF r \in pending THEN Len(anchors) + RollOf(r, pending) ELSE @]]
  /\ missed' = missed \cup {r \in In : row'[r].hashed /\ row'[r].anchor = None /\ row[r].at + Grace < clock}
  /\ UNCHANGED <<clock, log, file, erasing, sweeper, check, untidy, raced>>

\* Faulty variant: the last line is exported again.
NotBefore(a, b) == ~After(b, a)

\* What the last line of the file leaves to be exported.
Beyond(a, b) == After(a, b)

Missing == {i \in DOMAIN anchors : file = << >> \/ Beyond(anchors[i], anchors[Last(file)])}
NextLine == CHOOSE i \in Missing : \A j \in Missing \ {i} : After(anchors[j], anchors[i])

\* One line at a time, one anchor a line.
ExportLine ==
  /\ worker = "export" /\ Missing # {} /\ file' = Append(file, NextLine)
  /\ UNCHANGED <<clock, log, row, anchors, worker, erasing, sweeper, check, history>>

ExportDone ==
  /\ worker = "export" /\ Missing = {} /\ worker' = "idle"
  /\ UNCHANGED <<clock, log, row, chain, erasing, sweeper, check, history>>

\* A failed tick rolls back; lines that have been written stay.
WorkerFails ==
  /\ "faults" \in scene /\ worker # "idle" /\ worker' = "idle"
  /\ UNCHANGED <<clock, log, row, chain, erasing, sweeper, check, history>>

-----------------------------------------------------------------------------
(* Erasing a person, in a transaction that holds the lock *)

\* 409 while the worker has it.
EraseLock ==
  /\ "erase" \in scene /\ eraser = "idle" /\ ~Locked /\ eraser' = "read"
  /\ UNCHANGED <<clock, log, row, chain, worker, receipt, events, sweeper, check, history>>

\* Rows by the person and rows whose bodies mention the person.
Target == {r \in In : row[r].about /\ ~row[r].erased}

\* The receipt: the hashes as they are now.  Nothing to erase is no erasure.
EraseReceipt ==
  /\ eraser = "read"
  /\ IF Target = {} THEN eraser' = "gone" /\ UNCHANGED receipt
                    ELSE eraser' = "write" /\ receipt' = {r \in Target : row[r].hashed}
  /\ UNCHANGED <<clock, log, row, chain, worker, events, sweeper, check, history>>

\* Faulty variant: the hash goes as well.
ScrubbedAll(r) == [row[r] EXCEPT !.about = FALSE, !.erased = TRUE, !.hashed = FALSE]

\* Hash, anchor and provenance stay.
Scrubbed(r) == [row[r] EXCEPT !.about = FALSE, !.erased = TRUE]

\* Faulty variant: only the rows of the receipt are scrubbed.
ScrubHashed == {r \in Target : row[r].hashed}

ScrubSet == Target

\* Ledger, scrub, tombstones and the deletion of the user commit together.
EraseWrite ==
  /\ eraser = "write" /\ eraser' = "gone"
  /\ row' = [r \in Row |-> IF r \in ScrubSet THEN Scrubbed(r) ELSE row[r]]
  /\ events' = FALSE
  /\ UNCHANGED <<clock, log, chain, worker, receipt, sweeper, check, history>>

EraseFails ==
  /\ "faults" \in scene /\ eraser \in {"read", "write"} /\ eraser' = "idle" /\ receipt' = {} /\ raced' = FALSE
  /\ UNCHANGED <<clock, log, row, chain, worker, events, sweeper, check, missed, untidy>>

-----------------------------------------------------------------------------
(* The sweep: anchors by the day, rows by the hour, in one transaction *)

PastRetention(r) == row[r].at < clock - RetentionDays * DayLength

\* Faulty variant: the anchors are not marked.
KeptAnchor(a) == a

\* The day of an anchor is the day of its first row.
MarkPruned(a) == IF a.day < Day(clock) - RetentionDays THEN [a EXCEPT !.pruned = TRUE] ELSE a

\* The sweep takes no lock: it may take rows that are in a receipt but not scrubbed yet.
Erasing(r) == row[r].erased \/ (eraser = "write" /\ row[r].about)

Sweep ==
  /\ "sweep" \in scene /\ RetentionDays > 0 /\ sweeper < clock /\ sweeper' = clock
  /\ anchors' = [i \in DOMAIN anchors |-> MarkPruned(anchors[i])]
  /\ row' = [r \in Row |-> IF r \in In /\ PastRetention(r) THEN [Nowhere EXCEPT !.gone = TRUE] ELSE row[r]]
  /\ untidy' = (untidy \/ \E r \in In :
        PastRetention(r) /\ (Erasing(r) \/ Day(row[r].at) = Day(clock) - RetentionDays))
  /\ check' = [check EXCEPT !.swept = TRUE]
  /\ UNCHANGED <<clock, log, file, worker, erasing, missed, raced>>

-----------------------------------------------------------------------------
(* The verifier reads anchor after anchor, without a transaction *)

\* Somebody edits a row by hand.
Alter(r) ==
  /\ "alter" \in scene /\ r \in In /\ ~row[r].altered /\ Cardinality({s \in In : row[s].altered}) < MaxAltered
  /\ row' = [row EXCEPT ![r].altered = TRUE]
  /\ UNCHANGED <<clock, log, chain, worker, erasing, sweeper, check, history>>

Unpruned == {i \in DOMAIN anchors : ~anchors[i].pruned}

Verify ==
  /\ "verify" \in scene /\ check.at = "idle"
  /\ check' = [Asleep EXCEPT !.at = "anchors", !.todo = Unpruned,
                 !.marks = {r \in In : row[r].altered /\ ~row[r].erased /\ row[r].anchor \in Unpruned}]
  /\ UNCHANGED <<clock, log, row, chain, worker, erasing, sweeper, history>>

Refolds(i) == {r \in InAnchor(i) : row[r].hashed} = anchors[i].root

ReceiptHolds == {r \in In : row[r].erased /\ row[r].hashed} = receipt

\* Faulty variant: hashes are compared with the anchor only.
ContentUnchecked(r) == TRUE

\* An erased row has no content; it needs a receipt.
ContentHolds(r) == IF row[r].erased THEN ReceiptHolds ELSE ~row[r].altered

CheckAnchor(i) ==
  /\ check.at = "anchors" /\ i \in check.todo
  /\ check' = [check EXCEPT !.todo = @ \ {i},
                 !.bad = @ \/ ~Refolds(i) \/ \E r \in InAnchor(i) : row[r].hashed /\ ~ContentHolds(r)]
  /\ UNCHANGED <<clock, log, row, chain, worker, erasing, sweeper, history>>

\* Rows past the grace window that no anchor folded.
Unanchored == {r \in In : row[r].hashed /\ Foldable(r)}

\* A row that a fold should have taken is overdue, any other is fresh.
Staleness ==
  IF Unanchored = {} THEN "no"
  ELSE IF Unanchored \cap missed # {} THEN "overdue" ELSE "fresh"

\* The watchdog, after the anchors: one row without an anchor fails the check,
\* though the worker may not have come round to it since.
Watchdog ==
  /\ check.at = "anchors" /\ check.todo = {}
  /\ check' = [check EXCEPT !.at = "done", !.stale = Staleness]
  /\ UNCHANGED <<clock, log, row, chain, worker, erasing, sweeper, history>>

Report ==
  /\ check.at = "done" /\ check' = Asleep
  /\ UNCHANGED <<clock, log, row, chain, worker, erasing, sweeper, history>>

-----------------------------------------------------------------------------

\* Entries do not stay on their way for longer than MaxDelay.
Tick ==
  /\ clock < MaxTime - (IF {"erase", "alter"} \cap scene # {} THEN 1 ELSE 0) /\ clock' = clock + 1
  /\ \A r \in OnTheWay : clock' - row[r].at <= MaxDelay
  /\ UNCHANGED <<log, row, chain, worker, erasing, sweeper, check, history>>

\* The process dies: with it the entries on their way, the worker's
\* transaction and the erasure's.
Crash ==
  /\ "faults" \in scene /\ (OnTheWay # {} \/ worker # "idle")
  /\ buffer' = << >> /\ flight' = {} /\ worker' = "idle"
  /\ IF eraser \in {"read", "write"} THEN eraser' = "idle" /\ receipt' = {} /\ raced' = FALSE
                                     ELSE UNCHANGED <<eraser, receipt, raced>>
  /\ logged' = logged
  /\ row' = [r \in Row |-> IF r \in OnTheWay THEN [Nowhere EXCEPT !.gone = TRUE] ELSE row[r]]
  /\ UNCHANGED <<clock, scene, chain, events, sweeper, check, missed, untidy>>

Worker == TryLock \/ Fold \/ ExportLine \/ ExportDone

Next ==
  \/ \E about \in BOOLEAN : Log(about)
  \/ FlushBuffer \/ (\E f \in flight : Insert(f) \/ InsertFails(f))
  \/ Worker \/ WorkerFails
  \/ EraseLock \/ EraseReceipt \/ EraseWrite \/ EraseFails
  \/ Sweep \/ (\E r \in Row : Alter(r))
  \/ Verify \/ (\E i \in DOMAIN anchors : CheckAnchor(i)) \/ Watchdog \/ Report
  \/ Tick \/ Crash

Spec == Init /\ [][Next]_vars
-----------------------------------------------------------------------------
(* Properties *)

\* Anchors and rows refer to each other: a row belongs to an anchor that folded
\* its hash, and each anchor has a day and number of its own.
TypeOK ==
  /\ \A r \in In : row[r].anchor \in 0..Len(anchors) /\ (row[r].anchor # None => row[r].hashed)
  /\ \A i, j \in DOMAIN anchors :
       i # j => <<anchors[i].day, anchors[i].seq>> # <<anchors[j].day, anchors[j].seq>>
  /\ logged \in 0..MaxRow /\ clock \in 0..MaxTime

\* With a buffer, an entry is in the table or will be tried again, unless the
\* process died or the row has been swept.
NoEntryIsLost ==
  buffered => \A r \in 1..logged : row[r].in \/ row[r].gone \/ r \in OnTheWay

\* The anchors form one chain in the order in which they were inserted: what
\* the export writes as its last line is what the next anchor refers to.
ChainIsLinear == \A i \in DOMAIN anchors : anchors[i].prev = i - 1

\* The export has every anchor, once, in order, whatever crashes it survives.
ExportHasNoGap == file = [k \in 1..Len(file) |-> k]

\* The anchors of an honest log verify, while rows are written, folded, erased and
\* swept, but for two cases the code lets through: a row about the person that comes
\* in during the erasure, and a sweep in the middle of a day or of an erasure.  The
\* alarm for rows without an anchor is raised for an honest log as well: the worker
\* comes less often than the grace window lasts.  But then the rows are fresh: none
\* is one that a fold before should have taken, or that came in behind it.
HonestLogVerifies ==
  check.at = "done" =>
    /\ check.bad => untidy \/ raced \/ check.swept \/ \E r \in Row : row[r].altered
    /\ check.stale # "overdue"

\* A row that was edited after it had been folded is found by every
\* verification that starts later.
EditsShow ==
  check.at = "done" /\ (\E r \in check.marks \cap In : ~row[r].erased) => check.bad

\* Once a row has a hash, or an anchor, it keeps it as long as it is there.
ProofsKept == \A r \in In : row'[r].in =>
  /\ row[r].hashed => row'[r].hashed
  /\ row[r].anchor # None => row'[r].anchor = row[r].anchor

\* After an erasure no row that was there mentions the person, old rows without
\* a hash included.
Forgotten == eraser = "write" /\ eraser' = "gone" => \A r \in In : ~row'[r].about

\* A sweep never makes the verifier find fault with an anchor of an honest log.
SweepNeverAlarms ==
  check.at = "done" /\ check.bad => raced \/ check.swept \/ \E r \in Row : row[r].altered

\* Between the buffer, the table, the anchors and the exported file nothing gets lost.
LogIsWhole == TypeOK /\ NoEntryIsLost /\ ChainIsLinear /\ ExportHasNoGap

\* The verifier finds what was edited; of an honest log it reports no more than what
\* HonestLogVerifies names.
VerifierIsRight == HonestLogVerifies /\ EditsShow
=============================================================================
