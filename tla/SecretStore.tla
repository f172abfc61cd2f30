---------------------------- MODULE SecretStore ----------------------------
(***************************************************************************)
(* Secrets at rest and the rotation of their key: OIDC client secrets (and *)
(* webhook secrets, and TOTP secrets under a key of their own) are stored  *)
(* encrypted, in the legacy form (v1) or the current one (v2).  A node     *)
(* writes with the current key of its environment and reads with that or   *)
(* the old one.  To change the key, the operator adds the old one to the   *)
(* configuration, restarts the nodes, has a script rewrite the legacy rows *)
(* and retires the old key when a dry run finds none left.                 *)
(*                                                                         *)
(* A key is a number, and so is a secret; None is an unset variable.       *)
(***************************************************************************)
EXTENDS Naturals, Sequences

CONSTANTS
  Node, Request,
  Cell,       \* encrypted values, each in a row of its own
  Columns,    \* ENVELOPE_COLUMNS: the cells of each, in scanning order
  MaxKey, MaxSecret, \* bounds: rotations of the key, secrets a cell is given
  None

VARIABLES
  stock,      \* the column values
  told,       \* the last secret that somebody was told
  config,     \* the environment a node gets when it starts: current and old key
  env,        \* the environment of each node
  request,    \* requests of the client routes
  pass,       \* the script
  proved,     \* did the last dry run find no legacy row?
  overwritten \* history: cells in which the script undid a rotation

nodeVars == <<config, env>>
vars == <<stock, told, nodeVars, request, pass, proved, overwritten>>

Absent == [form |-> "none", key |-> 0, secret |-> 0]
V1 == [form |-> "v1", key |-> 0, secret |-> 1]
V2(k, s) == [form |-> "v2", key |-> k, secret |-> s]
NoRequest == [does |-> "none"]
NoPass == [at |-> "idle", commit |-> FALSE, col |-> 1, seen |-> <<>>,
           clean |-> TRUE, failures |-> {}]

\* Rows of the time before v2, rows written since, and cells not in use yet.
Init ==
  /\ stock \in [Cell -> {Absent, V2(0, 1), V1}]
  /\ told = [c \in Cell |-> stock[c].secret]
  /\ config = [cur |-> 0, old |-> None] /\ env = [n \in Node |-> config]
  /\ request = [r \in Request |-> NoRequest]
  /\ pass = NoPass /\ proved = FALSE /\ overwritten = {}

Exists(c) == stock[c].form # "none"

\* Faulty variant: the old key is no candidate.
CandidatesCurrent(e) == {e.cur}

\* candidateKeys: the current key, and the old one if it is set.
Candidates(e) == {e.cur, e.old} \ {None}

Readable(v, e) == v.key \in Candidates(e)

-----------------------------------------------------------------------------
(* The client routes *)

Create(n, c) ==
  /\ told[c] = 0
  /\ stock' = [stock EXCEPT ![c] = V2(env[n].cur, 1)] /\ told' = [told EXCEPT ![c] = 1]
  /\ UNCHANGED <<nodeVars, request, pass, proved, overwritten>>

\* Rotating the secret, and updating the keys and the logout URI, first look the
\* client up (404).
Get(r, n, c, does) ==
  /\ request[r] = NoRequest /\ Exists(c)
  /\ request' = [request EXCEPT ![r] = [does |-> does, on |-> n, cell |-> c, seen |-> stock[c]]]
  /\ UNCHANGED <<stock, told, nodeVars, pass, proved, overwritten>>

\* An UPDATE of a row that is gone writes nothing.
Updated(c, v) == IF Exists(c) THEN [stock EXCEPT ![c] = v] ELSE stock

RotateSecret(r) ==
  LET c == request[r].cell
  IN /\ request[r].does = "rotate" /\ told[c] < MaxSecret
     /\ stock' = Updated(c, V2(env[request[r].on].cur, told[c] + 1))
     /\ told' = [told EXCEPT ![c] = @ + 1]
     /\ request' = [request EXCEPT ![r] = NoRequest]
     /\ UNCHANGED <<nodeVars, pass, proved, overwritten>>

\* Faulty variant: the row that was read is written back.
SurfaceRow(r) == request[r].seen

\* Only the fields of the rotation surface are set.
Surface(r) == stock[request[r].cell]

UpdateRotationSurface(r) ==
  /\ request[r].does = "surface"
  /\ stock' = Updated(request[r].cell, Surface(r))
  /\ request' = [request EXCEPT ![r] = NoRequest]
  /\ UNCHANGED <<told, nodeVars, pass, proved, overwritten>>

Remove(c) ==
  /\ Exists(c) /\ stock' = [stock EXCEPT ![c] = Absent]
  /\ UNCHANGED <<told, nodeVars, request, pass, proved, overwritten>>

-----------------------------------------------------------------------------
(* The script: --commit, or a dry run *)

Begin(commit) ==
  /\ pass.at = "idle" /\ config.old # None /\ \A n \in Node : env[n] = config
  /\ pass' = [NoPass EXCEPT !.at = "scan", !.commit = commit]
  /\ UNCHANGED <<stock, told, nodeVars, request, proved, overwritten>>

\* One SELECT per column; the values are kept until their turn.
Scan ==
  /\ pass.at = "scan" /\ pass.col <= Len(Columns)
  /\ pass' = [pass EXCEPT !.at = "row", !.seen = [c \in {d \in Columns[pass.col] : Exists(d)} |-> stock[c]]]
  /\ UNCHANGED <<stock, told, nodeVars, request, proved, overwritten>>

\* Faulty variant: whatever says which version it is, is left alone.
PlanRewrapPrefixed(v) == v.form \notin {"v1", "v2"}

PlanRewrap(v) == v.form # "v2"

Rows == DOMAIN pass.seen
NextRow == CHOOSE c \in Rows : TRUE

Done(c) == [pass EXCEPT !.seen = [d \in Rows \ {c} |-> @[d]], !.clean = @ /\ ~PlanRewrap(pass.seen[c])]

\* A row that is skipped, or only planned.
Skip(c) ==
  /\ pass.at = "row" /\ Rows # {} /\ c = NextRow
  /\ ~PlanRewrap(pass.seen[c]) \/ ~pass.commit
  /\ pass' = Done(c)
  /\ UNCHANGED <<stock, told, nodeVars, request, proved, overwritten>>

Rewraps(c) == pass.at = "row" /\ Rows # {} /\ c = NextRow /\ PlanRewrap(pass.seen[c]) /\ pass.commit

\* Decrypted with the keys of the readers, encrypted with the current one.
Rewrap(c) ==
  LET v == pass.seen[c]
  IN /\ Rewraps(c) /\ Readable(v, config)
     /\ stock' = Updated(c, V2(config.cur, v.secret))
     /\ overwritten' = IF v.secret # stock[c].secret THEN overwritten \cup {c} ELSE overwritten
     /\ pass' = Done(c)
     /\ UNCHANGED <<told, nodeVars, request, proved>>

\* Faulty variant: the pass ends with the row that fails.
FailedEnds(c) == [pass EXCEPT !.seen = << >>, !.col = Len(Columns), !.failures = @ \cup {c}]

\* The row that fails is reported, the others are rewritten.
Failed(c) == [Done(c) EXCEPT !.failures = @ \cup {c}]

RewrapFails(c) ==
  /\ Rewraps(c) /\ pass' = Failed(c)
  /\ UNCHANGED <<stock, told, nodeVars, request, proved, overwritten>>

NextColumn ==
  /\ pass.at = "row" /\ Rows = {}
  /\ pass' = [pass EXCEPT !.at = "scan", !.col = @ + 1]
  /\ UNCHANGED <<stock, told, nodeVars, request, proved, overwritten>>

\* The operator reads the report.
Report ==
  /\ pass.at = "scan" /\ pass.col > Len(Columns)
  /\ proved' = (~pass.commit /\ pass.clean)
  /\ pass' = NoPass
  /\ UNCHANGED <<stock, told, nodeVars, request, overwritten>>

Script == (\E b \in BOOLEAN : Begin(b)) \/ Scan \/ (\E c \in Cell : Skip(c) \/ Rewrap(c) \/ RewrapFails(c)) \/ NextColumn \/ Report

-----------------------------------------------------------------------------
(* The operator *)

\* A new current key; the previous one becomes the old one.
NewKey ==
  /\ config.old = None /\ config.cur < MaxKey /\ \A n \in Node : env[n] = config
  /\ config' = [cur |-> config.cur + 1, old |-> config.cur] /\ proved' = FALSE
  /\ UNCHANGED <<stock, told, env, request, pass, overwritten>>

\* Nodes restart one after the other; what one was serving is lost.
Restart(n) ==
  /\ env[n] # config /\ env' = [env EXCEPT ![n] = config]
  /\ request' = [r \in Request |->
                   IF request[r] # NoRequest /\ request[r].on = n THEN NoRequest ELSE request[r]]
  /\ UNCHANGED <<stock, told, config, pass, proved, overwritten>>

Retire ==
  /\ config.old # None /\ proved /\ pass.at = "idle" /\ \A n \in Node : env[n] = config
  /\ config' = [config EXCEPT !.old = None]
  /\ UNCHANGED <<stock, told, env, request, pass, proved, overwritten>>

Next ==
  \/ \E n \in Node, c \in Cell :
       Create(n, c) \/ \E r \in Request, does \in {"rotate", "surface"} : Get(r, n, c, does)
  \/ \E r \in Request :
       request[r] # NoRequest /\ (RotateSecret(r) \/ UpdateRotationSurface(r))
  \/ \E c \in Cell : Remove(c)
  \/ Script \/ NewKey \/ (\E n \in Node : Restart(n)) \/ Retire

Spec == Init /\ [][Next]_vars
-----------------------------------------------------------------------------
(* Properties *)

\* Shapes; a cell without a row has nothing in it, legacy rows are of the first key.
TypeOK ==
  /\ stock \in [Cell -> {Absent, V1} \cup {V2(k, s) : k \in 0..MaxKey, s \in 1..MaxSecret}]
  /\ told \in [Cell -> 0..MaxSecret]
  /\ \A e \in {config} \cup {env[n] : n \in Node} : e.cur \in 0..MaxKey /\ e.old \in {None, e.cur - 1}
  /\ \A r \in Request : request[r] # NoRequest => request[r].cell \in Cell /\ request[r].seen.form # "none"
  /\ Rows \subseteq Cell /\ pass.col \in 1..Len(Columns) + 1 /\ pass.failures \subseteq Cell
  /\ proved \in BOOLEAN /\ overwritten \subseteq Cell

\* While the window of the first rotation is open, a restarted node reads every
\* row, whoever wrote it.
WindowKeepsEveryRow ==
  config.old = 0 =>
    \A n \in Node, c \in Cell : env[n] = config /\ Exists(c) => Readable(stock[c], env[n])

\* The old key is not retired while there is a legacy row.
LegacyRowsAreConverted ==
  config.cur > 0 /\ config.old = None => \A c \in Cell : stock[c].form # "v1"

\* Behind the script every legacy row of a column is rewritten, or reported.
EveryRowIsReported ==
  pass.at = "scan" /\ pass.commit =>
    \A i \in 1..pass.col - 1 : \A c \in Columns[i] : stock[c].form = "v1" => c \in pass.failures

\* A row holds the last secret that somebody was told, except where the script
\* wrote back what it had read before a rotation.
ToldSecretsAreStored ==
  \A c \in Cell : Exists(c) => stock[c].secret = told[c] \/ c \in overwritten

\* Doc: once a dry run has found every row to be v2, the old key can go.
RetiredKeyIsNotNeeded ==
  config.old = None =>
    \A n \in Node, c \in Cell : env[n] = config /\ Exists(c) => Readable(stock[c], env[n])

\* Through a rotation of the key, as long as nobody retires the old one, every secret that was
\* told to somebody can be read, or is reported.
NoSecretIsLost ==
  TypeOK /\ WindowKeepsEveryRow /\ LegacyRowsAreConverted /\ EveryRowIsReported /\ ToldSecretsAreStored
=============================================================================
