------------------------------- MODULE Options ------------------------------
(***************************************************************************)
(* The runtime options: one table, and on every node a copy of all of it   *)
(* that lives until somebody writes.  A write commits, drops the copy of   *)
(* its node and tells the other nodes through Redis; a copy is loaded by a *)
(* query and kept when its rows arrive, whatever happened in between.      *)
(***************************************************************************)
EXTENDS Integers

CONSTANTS
  Node, Name, Value,
  Mask,      \* what GET shows of a sensitive value
  Sensitive, \* the names whose values are masked
  MaxWrites  \* bound

NoValue == "unset"
NoCopy == [k \in Name |-> "unknown"]

VARIABLES
  table,    \* the table options
  copy,     \* OptionsManager.cache on each node
  loading,  \* rows a query has read and its caller has not kept yet
  writing,  \* nodes whose write has committed and not been announced
  mail,     \* nodes an announcement is on its way to
  writes,   \* bound
  behind    \* history: nodes whose copy a race or a lost announcement left behind

Init ==
  /\ table = [k \in Name |-> NoValue]
  /\ copy = [n \in Node |-> NoCopy] /\ loading = [n \in Node |-> NoCopy]
  /\ writing = {} /\ mail = {} /\ writes = 0 /\ behind = {}

\* Where something was being loaded, it is kept after the drop and stays.
Overtaken(ns) == (behind \ ns) \cup {n \in ns : loading[n] # NoCopy}

\* PUT /options and PUT /email-templates: never the mask back.
Accepted(k, v) == k \in Sensitive => v # Mask

\* set, setIfAbsent and delete, up to the commit.
Write(n, k) ==
  /\ writes < MaxWrites /\ n \notin writing
  /\ \/ \E v \in Value : Accepted(k, v) /\ table' = [table EXCEPT ![k] = v]
     \/ \E v \in Value : table' = [table EXCEPT ![k] = IF @ = NoValue THEN v ELSE @]
     \/ table' = [table EXCEPT ![k] = NoValue]
  /\ writing' = writing \cup {n} /\ writes' = writes + 1
  /\ UNCHANGED <<copy, loading, mail, behind>>

\* Faulty variant: the writer keeps its own copy and waits for the announcement.
TellOnly(n) == copy' = copy /\ mail' = Node \ {n}

\* The writer's own copy goes, the other nodes are told.
DropAndTell(n) == copy' = [copy EXCEPT ![n] = NoCopy] /\ mail' = mail \cup Node

Announce(n) ==
  /\ n \in writing
  /\ DropAndTell(n)
  /\ writing' = writing \ {n}
  /\ behind' = Overtaken({n})
  /\ UNCHANGED <<table, loading, writes>>

\* invalidate({fromRemote: true}), or the announcement is lost.
Hear(n) ==
  /\ n \in mail /\ mail' = mail \ {n}
  /\ \/ copy' = [copy EXCEPT ![n] = NoCopy] /\ behind' = Overtaken({n})
     \/ copy' = copy /\ behind' = behind \cup {n}
  /\ UNCHANGED <<table, loading, writing, writes>>

\* load, when there is no copy.
Load(n) ==
  /\ copy[n] = NoCopy /\ loading[n] = NoCopy
  /\ loading' = [loading EXCEPT ![n] = table]
  /\ UNCHANGED <<table, copy, writing, mail, writes, behind>>

Keep(n) ==
  /\ loading[n] # NoCopy
  /\ copy' = [copy EXCEPT ![n] = loading[n]]
  /\ loading' = [loading EXCEPT ![n] = NoCopy]
  /\ UNCHANGED <<table, writing, mail, writes, behind>>

\* A process dies and starts again; what it had not announced stays untold.
Restart(n) ==
  /\ copy' = [copy EXCEPT ![n] = NoCopy] /\ loading' = [loading EXCEPT ![n] = NoCopy]
  /\ writing' = writing \ {n} /\ mail' = mail \ {n}
  /\ behind' = (IF n \in writing THEN Node ELSE behind) \ {n}
  /\ UNCHANGED <<table, writes>>

Next ==
  \E n \in Node : (\E k \in Name : Write(n, k)) \/ Announce(n) \/ Hear(n) \/ Load(n) \/ Keep(n) \/ Restart(n)

\* The types of the variables.
TypeOK ==
  /\ table \in [Name -> Value \cup {NoValue}]
  /\ \A n \in Node : copy[n] = NoCopy \/ copy[n] \in [Name -> Value \cup {NoValue}]
  /\ writing \subseteq Node /\ mail \subseteq Node /\ behind \subseteq Node /\ writes \in 0..MaxWrites

\* Where no copy was being loaded when the write was announced, and nothing was lost, every
\* node shows what the table says once the announcements have arrived.
WritesReachTheNodes ==
  writing = {} => \A n \in Node \ (mail \cup behind) : copy[n] \in {NoCopy, table}

=============================================================================
