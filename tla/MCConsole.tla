----------------------------- MODULE MCConsole ------------------------------
(* Small instances of RefreshTokens, where requests race for tokens, and, in
   behaviours of their own, of Console and Migrations.  A part that a behaviour is
   not about is parked: its variables are 0 and stay so. *)
EXTENDS RefreshTokens, TLC

CONSTANTS
  Parts,       \* the parts behaviours are about
  u1, n0,
  Slot,        \* requests a window of the console has in flight at once
  Talks,       \* the scenes of Console
  MaxLogin, MaxRotation,      \* bounds on its sessions
  Plots, MaxFile, MaxCrashes  \* the scenes of Migrations, and its bounds

VARIABLES
  part,
  screen, open, mem, disk, call, refresh, serverRow, expired, code, burned, torn, ended,
  plot, image, schema, ledger, holder, run, warned, crashes

consoleVars == <<screen, open, mem, disk, call, refresh, serverRow, expired, code, burned, torn, ended>>
migrationVars == <<plot, image, schema, ledger, holder, run, warned, crashes>>

InDefault == [u \in {u1} |-> n0]

\* The console: one window or two, two requests in each.
Talk(windows, kinds, faults) ==
  [windows |-> windows, kinds |-> kinds, drops |-> "drops" \in faults,
   reloads |-> "reloads" \in faults, grace |-> "grace" \in faults, stepUps |-> "stepUps" \in faults]

SmallTalks ==
  { Talk(1, {"data", "me", "exchange"}, {}), Talk(1, {"login", "logout"}, {"stepUps"}),
    Talk(1, {"passkey", "verify"}, {"stepUps"}), Talk(1, {"me", "data"}, {"reloads"}),
    Talk(1, {"login"}, {"drops"}), Talk(1, {"me", "logout"}, {"drops"}),
    Talk(1, {"exchange", "verify"}, {"drops", "stepUps"}), Talk(2, {"data"}, {"grace"}) }

SigningOut == {Talk(1, {"data", "logout"}, {})}

Browser == INSTANCE Console WITH
  Window <- Req, Scenes <- Talks, None <- NoToken,
  scene <- screen, flight <- refresh, row <- serverRow

\* Migrations: two processes, three files, images with all of them or the first two.
Plot(commands, images, built, faults, dies) ==
  [commands |-> commands, images |-> images, built |-> built, faults |-> faults, crashes |-> dies]

SmallPlots ==
  { Plot({"script"}, {2, 3}, 0, FALSE, TRUE), Plot({"script"}, {3}, 0, TRUE, TRUE),
    Plot({"script"}, {2, 3}, 2, FALSE, FALSE), Plot({"script"}, {3}, 3, TRUE, TRUE),
    Plot({"up"}, {3}, 0, TRUE, TRUE), Plot({"up", "down", "downTo"}, {2, 3}, 0, TRUE, FALSE) }

Chain == INSTANCE Migrations WITH
  Migrator <- Req, Scenes <- Plots, NoMigrator <- NoToken

\* Sessions and files are counted from one; a scene is what the parts read as one.
ASSUME HouseAssumption ==
  /\ IsFiniteSet(Req) /\ NoToken \notin Req
  /\ MaxLogin \in Nat \ {0} /\ MaxRotation \in Nat \ {0} /\ NoToken \notin Browser!Pair
  /\ Talks \subseteq [windows : Nat, kinds : SUBSET Browser!Kinds, drops : BOOLEAN, reloads : BOOLEAN,
                       grace : BOOLEAN, stepUps : BOOLEAN]
  /\ MaxFile \in Nat \ {0} /\ MaxCrashes \in Nat
  /\ Plots \subseteq [commands : SUBSET (Chain!Command \ {"idle"}), images : SUBSET (1..MaxFile),
                       built : 0..MaxFile, faults : BOOLEAN, crashes : BOOLEAN]

Symmetry == Permutations(Token) \cup Permutations(Req)

-----------------------------------------------------------------------------
ConsoleParked ==
  /\ screen = 0 /\ open = 0 /\ mem = 0 /\ disk = 0 /\ call = 0 /\ refresh = 0 /\ serverRow = 0
  /\ expired = 0 /\ code = 0 /\ burned = 0 /\ torn = 0 /\ ended = 0

MigrationsParked ==
  /\ plot = 0 /\ image = 0 /\ schema = 0 /\ ledger = 0 /\ holder = 0 /\ run = 0 /\ warned = 0
  /\ crashes = 0

HouseInit ==
  /\ part \in Parts
  /\ Init
  /\ IF part = "console"    THEN Browser!Init ELSE ConsoleParked
  /\ IF part = "migrations" THEN Chain!Init   ELSE MigrationsParked

HouseNext ==
  /\ UNCHANGED part
  /\ \/ part = "tokens" /\ Next /\ UNCHANGED <<consoleVars, migrationVars>>
     \/ part = "console" /\ Browser!Next /\ UNCHANGED <<vars, migrationVars>>
     \/ part = "migrations" /\ Chain!Next /\ UNCHANGED <<vars, consoleVars>>

HouseSpec == HouseInit /\ [][HouseNext]_<<part, vars, consoleVars, migrationVars>>

\* Stated in Console.
RefreshesCostNoSession == part = "console" => Browser!RefreshesCostNoSession
SignOutEndsTheSession == part = "console" => Browser!SignOutEndsTheSession

\* Stated in Migrations.
ChainIsApplied == part = "migrations" => Chain!ChainIsApplied
=============================================================================
