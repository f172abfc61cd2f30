---------------------------- MODULE AccessProofs ----------------------------
(***************************************************************************)
(* Proofs about Access, Options (Settings), SessionList (Sessions) and     *)
(* AuditChain (Log), as MCAccess hosts them: any nodes, users, roles,      *)
(* permissions and editors, any options, any sessions, any life of what is *)
(* kept, any number of log entries, any days, batches and retention.       *)
(***************************************************************************)
EXTENDS MCAccess, FiniteSetTheorems, SequenceTheorems, TLAPS

-----------------------------------------------------------------------------
(* Options *)

Rows == [Name -> Value \cup {Settings!NoValue}]

\* What a node holds, or is about to keep, is what the table says, unless a write is still to
\* be announced, an announcement to arrive, or a race or a loss has been noted.
SettingsInv ==
  /\ table \in Rows /\ copy \in [Node -> Rows \cup {Settings!NoCopy}] /\ loading \in [Node -> Rows \cup {Settings!NoCopy}]
  /\ writing \subseteq Node /\ mail \subseteq Node /\ behind \subseteq Node /\ writes \in 0..MaxWrites
  /\ writing = {} => \A n \in Node \ (mail \cup behind) :
                       copy[n] \in {Settings!NoCopy, table} /\ loading[n] \in {Settings!NoCopy, table}

LEMMA InitSettings == Settings!Init => SettingsInv
  BY HouseAssumption DEF Settings!Init, SettingsInv, Rows, Settings!NoCopy

LEMMA SettingsStep == SettingsInv /\ Settings!Next => SettingsInv'
<1> SUFFICES ASSUME SettingsInv, NEW n \in Node,
                    \/ \E k \in Name : Settings!Write(n, k)
                    \/ Settings!Announce(n) \/ Settings!Hear(n) \/ Settings!Load(n) \/ Settings!Keep(n) \/ Settings!Restart(n)
             PROVE  SettingsInv'
  BY DEF Settings!Next
<1> USE DEF SettingsInv
<1>1. ASSUME NEW k \in Name, Settings!Write(n, k) PROVE SettingsInv'
  <2>1. writing' # {} /\ writing' \subseteq Node /\ writes' \in 0..MaxWrites
    BY <1>1, HouseAssumption DEF Settings!Write
  <2>2. table' \in Rows
    BY <1>1 DEF Settings!Write, Rows
  <2> QED
    BY <1>1, <2>1, <2>2 DEF Settings!Write
<1>2. CASE Settings!Announce(n)
  <2>1. copy' = [copy EXCEPT ![n] = Settings!NoCopy] /\ mail' = mail \cup Node /\ UNCHANGED <<table, loading, writes>>
    BY <1>2 DEF Settings!Announce, Settings!DropAndTell
  <2>2. behind' \subseteq Node /\ writing' \subseteq Node
    BY <1>2 DEF Settings!Announce, Settings!Overtaken
  <2> QED
    BY <2>1, <2>2
<1>3. CASE Settings!Hear(n)
  <2>1. mail' = mail \ {n} /\ UNCHANGED <<table, loading, writing, writes>>
    BY <1>3 DEF Settings!Hear
  <2>2. CASE copy' = [copy EXCEPT ![n] = Settings!NoCopy] /\ behind' = Settings!Overtaken({n})
    <3>1. behind' \subseteq Node /\ \A m \in Node \ {n} : m \in behind' <=> m \in behind
      BY <2>2 DEF Settings!Overtaken
    <3>2. n \in behind' \/ loading[n] = Settings!NoCopy
      BY <2>2 DEF Settings!Overtaken
    <3> QED
      BY <2>1, <2>2, <3>1, <3>2
  <2>3. CASE copy' = copy /\ behind' = behind \cup {n}
    BY <2>1, <2>3
  <2> QED
    BY <1>3, <2>2, <2>3 DEF Settings!Hear
<1>4. CASE Settings!Load(n)
  BY <1>4 DEF Settings!Load
<1>5. CASE Settings!Keep(n)
  BY <1>5 DEF Settings!Keep
<1>6. CASE Settings!Restart(n)
  <2>1. copy' = [copy EXCEPT ![n] = Settings!NoCopy] /\ loading' = [loading EXCEPT ![n] = Settings!NoCopy]
        /\ writing' = writing \ {n} /\ mail' = mail \ {n} /\ UNCHANGED <<table, writes>>
    BY <1>6 DEF Settings!Restart
  <2>2. behind' \subseteq Node /\ \A m \in Node \ {n} : n \in writing \/ m \in behind => m \in behind'
    BY <1>6 DEF Settings!Restart
  <2> QED
    BY <2>1, <2>2
<1> QED
  BY <1>1, <1>2, <1>3, <1>4, <1>5, <1>6

-----------------------------------------------------------------------------
(* Lists of sessions *)

\* Sessions whose deletion from the list is still to come.
Due(c) == UNION {c[d].set : d \in {e \in Editor : c[e].at = "del"}}

\* How long ago a session of a list may have ended.
Recent(S, g, age) == \A s \in S : g[s] <= age

Call == [at : {"idle", "missed", "read", "told", "del", "commit"}, set : SUBSET Key, age : 0..Delay]

SessionShapes ==
  /\ session \in [Key -> {"none", "live", "revoked", "expired"}]
  /\ list \in [list : SUBSET Key, life : 0..Life] /\ call \in [Editor -> Call]
  /\ gone \in [Key -> 0..Sessions!Longest] /\ astray \subseteq Key

\* What is kept, and what a reader is about to keep, is what the table says, but for what is
\* noted or about to be deleted.
ListsHold ==
  /\ list.life > 0 => Sessions!Differ(list.list, Sessions!Listed) \subseteq astray \cup Due(call)
  /\ \A c \in Editor : call[c].at = "read" => Sessions!Differ(call[c].set, Sessions!Listed) \subseteq astray \cup Due(call)

\* A session that has not ended has not been gone for any time; a list grows old with those
\* that have.
AgesHold ==
  /\ \A s \in Key : session[s] \in {"none", "live"} => gone[s] = 0
  /\ list.life > 0 => Recent(list.list, gone, Delay + Life - list.life)
  /\ \A c \in Editor : /\ call[c].at = "read" => Recent(call[c].set, gone, call[c].age)
                       /\ call[c].at = "told" => Recent(call[c].set, gone, Life + Delay + call[c].age)

SessionsInv == SessionShapes /\ ListsHold /\ AgesHold

\* What a step of one request does to the deletions to come.
LEMMA DueMoves ==
  ASSUME SessionShapes, NEW c \in Editor, NEW k \in Call, call' = [call EXCEPT ![c] = k]
  PROVE  /\ call' \in [Editor -> Call]
         /\ \A d \in Editor : call'[d] = IF d = c THEN k ELSE call[d]
         /\ k.at = "del" => k.set \subseteq Due(call')
         /\ call[c].at # "del" => Due(call) \subseteq Due(call')
         /\ Due(call) \subseteq Due(call') \cup call[c].set
<1>1. call' \in [Editor -> Call] /\ \A d \in Editor : call'[d] = IF d = c THEN k ELSE call[d]
  BY DEF SessionShapes
<1> QED
  BY <1>1 DEF Due

LEMMA InitSessions == Sessions!Init => SessionsInv
  BY HouseAssumption DEF Sessions!Init, SessionsInv, SessionShapes, ListsHold, AgesHold, Recent, Call, Sessions!Idle,
     Sessions!Nothing, Sessions!Longest

\* A request that only reads, or ends without a deletion under way.
LEMMA ReaderStep ==
  ASSUME SessionsInv, NEW c \in Editor,
         Sessions!Ask(c) \/ Sessions!Select(c) \/ Sessions!Read(c) \/ Sessions!Store(c)
  PROVE  SessionsInv'
<1> USE HouseAssumption DEF SessionsInv
<1>1. UNCHANGED <<session, gone, astray>> /\ call[c].at # "del" /\ Sessions!Listed' = Sessions!Listed
  BY DEF Sessions!Ask, Sessions!Select, Sessions!Read, Sessions!Store, Sessions!Listed
<1>a. \A at, S : Sessions!Go(c, at, S) /\ at \in {"told", "missed", "read"} /\ S \subseteq Key =>
        \E k \in Call : call' = [call EXCEPT ![c] = k] /\ k.at = at /\ k.set = S /\ k.age = 0
  <2>1. TAKE at, S
  <2>2. HAVE Sessions!Go(c, at, S) /\ at \in {"told", "missed", "read"} /\ S \subseteq Key
  <2>3. [at |-> at, set |-> S, age |-> 0] \in Call
    BY <2>2 DEF Call
  <2> QED
    BY <2>2, <2>3 DEF Sessions!Go
<1>2. PICK k \in Call :
        /\ call' = [call EXCEPT ![c] = k]
        /\ k.at = "read" => k.set = Sessions!Listed /\ k.age = 0
        /\ k.at = "told" => k.age = 0 /\ \/ list.life > 0 /\ k.set = list.list
                                         \/ call[c].at = "read" /\ k.set = call[c].set
  <2>0. Sessions!Listed \subseteq Key /\ list.list \subseteq Key /\ call[c].set \subseteq Key
    BY DEF SessionShapes, Call, Sessions!Listed
  <2>1. CASE Sessions!Ask(c)
    <3>1. \/ list.life > 0 /\ Sessions!Go(c, "told", list.list)
          \/ Sessions!Go(c, "missed", {})
      BY <2>1 DEF Sessions!Ask
    <3> QED
      BY <2>0, <3>1, <1>a
  <2>2. CASE Sessions!Select(c)
    BY <2>0, <2>2, <1>a DEF Sessions!Select
  <2>3. CASE Sessions!Read(c)
    <3>1. Sessions!Idle \in Call /\ Sessions!Idle.at = "idle"
      BY DEF Call, Sessions!Idle
    <3> QED
      BY <2>3, <3>1 DEF Sessions!Read, Sessions!Done
  <2>4. CASE Sessions!Store(c)
    BY <2>0, <2>4, <1>a DEF Sessions!Store
  <2> QED
    BY <2>1, <2>2, <2>3, <2>4
<1>3. /\ call' \in [Editor -> Call]
      /\ \A d \in Editor : call'[d] = IF d = c THEN k ELSE call[d]
      /\ Due(call) \subseteq Due(call')
  BY <1>1, <1>2, DueMoves
<1>4. list' = list \/ (call[c].at = "read" /\ list' = [list |-> call[c].set, life |-> Life])
  BY DEF Sessions!Ask, Sessions!Select, Sessions!Read, Sessions!Store
<1>5. SessionShapes'
  BY <1>1, <1>3, <1>4 DEF SessionShapes, Call
<1>6. ListsHold'
  <2>1. \A d \in Editor : call'[d].at = "read" => \/ call'[d] = call[d]
                                                   \/ call'[d].set = Sessions!Listed
    BY <1>2, <1>3
  <2>2. Sessions!Differ(Sessions!Listed, Sessions!Listed) = {}
    BY DEF Sessions!Differ
  <2>3. list'.life > 0 => \/ list' = list
                          \/ call[c].at = "read" /\ list'.list = call[c].set
    BY <1>4
  <2> QED
    BY <1>1, <1>3, <2>1, <2>2, <2>3 DEF ListsHold
<1>7. AgesHold'
  <2>1. \A s \in Sessions!Listed : gone[s] = 0
    BY DEF AgesHold, Sessions!Listed
  <2>2. list.life \in 0..Life /\ call[c].age \in 0..Delay /\ \A s \in Key : gone[s] \in Nat
    BY DEF SessionShapes, Call, Sessions!Longest
  <2>3. list.list \subseteq Key /\ call[c].set \subseteq Key
    BY DEF SessionShapes, Call
  <2>4. list'.life > 0 => Recent(list'.list, gone, Delay + Life - list'.life)
    <3>1. CASE list' = list
      BY <3>1 DEF AgesHold
    <3>2. CASE call[c].at = "read" /\ list' = [list |-> call[c].set, life |-> Life]
      BY <3>2, <2>2, <2>3 DEF AgesHold, Recent
    <3> QED
      BY <1>4, <3>1, <3>2
  <2>5. k.at = "read" => Recent(k.set, gone, k.age)
    BY <1>2, <2>1 DEF Recent
  <2>6. k.at = "told" => Recent(k.set, gone, Life + Delay + k.age)
    <3>1. CASE list.life > 0 /\ k.set = list.list /\ k.age = 0
      BY <3>1, <2>2, <2>3 DEF AgesHold, Recent
    <3>2. CASE call[c].at = "read" /\ k.set = call[c].set /\ k.age = 0
      BY <3>2, <2>2, <2>3 DEF AgesHold, Recent
    <3> QED
      BY <1>2, <3>1, <3>2
  <2> QED
    BY <1>1, <1>3, <2>4, <2>5, <2>6 DEF AgesHold
<1> QED
  BY <1>5, <1>6, <1>7

\* A step that changes the table, where every change is noted or to be deleted.
LEMMA WriterStep ==
  ASSUME SessionsInv, UNCHANGED gone, call' \in [Editor -> Call],
         \A d \in Editor : call'[d] = call[d] \/ call'[d].at \notin {"read", "told"},
         session' \in [Key -> {"none", "live", "revoked", "expired"}],
         \A s \in Key : session'[s] \in {"none", "live"} => session[s] \in {"none", "live"},
         list' = list \/ list' = Sessions!Nothing,
         astray \subseteq astray', astray' \subseteq Key,
         \A s \in Key : session'[s] # session[s] \/ s \in Due(call) =>
            \/ s \in astray' \cup Due(call')
            \/ /\ list'.life > 0 => s \notin Sessions!Differ(list.list, Sessions!Listed')
               /\ \A d \in Editor : call'[d].at = "read" => s \notin Sessions!Differ(call[d].set, Sessions!Listed')
  PROVE  SessionsInv'
<1> USE HouseAssumption DEF SessionsInv
<1>1. \A d \in Editor : call'[d] = call[d] \/ call'[d].at \notin {"read", "told"}
  OBVIOUS
<1>2. SessionShapes'
  BY DEF SessionShapes, Sessions!Nothing, Sessions!Longest
<1>3. ListsHold'
  <2>1. \A S : Sessions!Differ(S, Sessions!Listed') \subseteq Sessions!Differ(S, Sessions!Listed) \cup {s \in Key : session'[s] # session[s]}
    BY DEF Sessions!Differ, Sessions!Listed
  <2>2. \A S \in SUBSET Key : Sessions!Differ(S, Sessions!Listed') \subseteq Key
    BY DEF Sessions!Differ, Sessions!Listed
  <2>3. list'.life > 0 => Sessions!Differ(list'.list, Sessions!Listed') \subseteq astray' \cup Due(call')
    <3>1. SUFFICES ASSUME list'.life > 0, NEW s \in Sessions!Differ(list'.list, Sessions!Listed') PROVE s \in astray' \cup Due(call')
      OBVIOUS
    <3>2. list' = list /\ s \in Key
      BY <3>1, <2>2 DEF Sessions!Nothing, SessionShapes
    <3> QED
      BY <3>1, <3>2, <2>1 DEF ListsHold
  <2>4. ASSUME NEW d \in Editor, call'[d].at = "read" PROVE Sessions!Differ(call'[d].set, Sessions!Listed') \subseteq astray' \cup Due(call')
    <3>1. SUFFICES ASSUME NEW s \in Sessions!Differ(call'[d].set, Sessions!Listed') PROVE s \in astray' \cup Due(call')
      OBVIOUS
    <3>2. call'[d] = call[d] /\ s \in Key
      BY <1>1, <2>4, <3>1, <2>2 DEF Call
    <3> QED
      BY <2>4, <3>1, <3>2, <2>1 DEF ListsHold
  <2> QED
    BY <2>3, <2>4 DEF ListsHold
<1>4. AgesHold'
  BY <1>1 DEF AgesHold, Sessions!Nothing
<1> QED
  BY <1>2, <1>3, <1>4

LEMMA GoesTo ==
  ASSUME NEW c \in Editor, NEW at \in {"del", "commit"}, NEW S \in SUBSET Key, Sessions!Go(c, at, S)
  PROVE  \E k \in Call : call' = [call EXCEPT ![c] = k] /\ k.at = at /\ k.set = S /\ k.age = 0
<1>1. [at |-> at, set |-> S, age |-> 0] \in Call
  BY HouseAssumption DEF Call
<1> QED
  BY <1>1 DEF Sessions!Go

LEMMA EndsHere ==
  ASSUME NEW c \in Editor, Sessions!Done(c)
  PROVE  \E k \in Call : call' = [call EXCEPT ![c] = k] /\ k.at = "idle"
<1>1. Sessions!Idle \in Call /\ Sessions!Idle.at = "idle"
  BY HouseAssumption DEF Call, Sessions!Idle
<1> QED
  BY <1>1 DEF Sessions!Done

LEMMA Revoked ==
  ASSUME SessionsInv, NEW S \in SUBSET Key, Sessions!Revoke(S)
  PROVE  /\ session' \in [Key -> {"none", "live", "revoked", "expired"}]
         /\ \A s \in Key : session'[s] = session[s] \/ (s \in S \cap Sessions!Listed /\ session'[s] = "revoked")
  BY DEF Sessions!Revoke, SessionsInv, SessionShapes

LEMMA RevokeAtHomeStep ==
  ASSUME SessionsInv, NEW c \in Editor, NEW S \in SUBSET Key, Sessions!RevokeAtHome(c, S)
  PROVE  SessionsInv'
<1>1. PICK k \in Call : call' = [call EXCEPT ![c] = k] /\ k.at = "del" /\ k.set = S
  BY GoesTo DEF Sessions!RevokeAtHome
<1>a. call' \in [Editor -> Call] /\ \A d \in Editor : call'[d] = IF d = c THEN k ELSE call[d]
  BY <1>1, DueMoves DEF SessionsInv
<1>2. call'[c] = k /\ S \subseteq Due(call') /\ Due(call) \subseteq Due(call') /\ SessionShapes
  BY <1>1, DueMoves DEF Sessions!RevokeAtHome, SessionsInv
<1>3. UNCHANGED <<list, gone, astray>> /\ Sessions!Revoke(S) /\ astray \subseteq Key
  BY <1>2 DEF Sessions!RevokeAtHome, SessionShapes
<1> QED
  BY <1>a, <1>1, <1>2, <1>3, Revoked, WriterStep

LEMMA RotateStep ==
  ASSUME SessionsInv, NEW c \in Editor, NEW s \in Key, Sessions!Rotate(c, s)
  PROVE  SessionsInv'
<1>1. PICK k \in Call : call' = [call EXCEPT ![c] = k] /\ k.at = "del" /\ k.set = {s}
  BY GoesTo DEF Sessions!Rotate
<1>a. call' \in [Editor -> Call] /\ \A d \in Editor : call'[d] = IF d = c THEN k ELSE call[d]
  BY <1>1, DueMoves DEF SessionsInv
<1>2. call'[c] = k /\ {s} \subseteq Due(call') /\ Due(call) \subseteq Due(call') /\ SessionShapes
  BY <1>1, DueMoves DEF Sessions!Rotate, SessionsInv
<1>3. UNCHANGED <<list, gone, astray>> /\ session' = [session EXCEPT ![s] = "live"] /\ session[s] = "none" /\ astray \subseteq Key
  BY <1>2 DEF Sessions!Rotate, SessionShapes
<1>4. /\ session' \in [Key -> {"none", "live", "revoked", "expired"}]
      /\ \A t \in Key : session'[t] # session[t] => t = s
      /\ \A t \in Key : session'[t] \in {"none", "live"} => session[t] \in {"none", "live"}
  BY <1>2, <1>3 DEF SessionShapes
<1> QED
  BY <1>a, <1>1, <1>2, <1>3, <1>4, WriterStep, ZenonT(60)

LEMMA ForgetStep ==
  ASSUME SessionsInv, NEW c \in Editor, Sessions!Forget(c)
  PROVE  SessionsInv'
<1>1. PICK k \in Call : call' = [call EXCEPT ![c] = k] /\ k.at = "idle"
  BY EndsHere DEF Sessions!Forget
<1>a. call' \in [Editor -> Call] /\ \A d \in Editor : call'[d] = IF d = c THEN k ELSE call[d]
  BY <1>1, DueMoves DEF SessionsInv
<1>2. /\ SessionShapes /\ call'[c] = k /\ Due(call) \subseteq Due(call') \cup call[c].set
      /\ \A d \in Editor : d # c => call'[d] = call[d]
  BY <1>1, DueMoves DEF SessionsInv
<1>3. UNCHANGED <<session, gone>> /\ Sessions!Listed' = Sessions!Listed
  BY DEF Sessions!Forget, Sessions!Listed
<1>4. call[c].set \subseteq Key /\ astray \subseteq Key /\ session \in [Key -> {"none", "live", "revoked", "expired"}]
  BY <1>2 DEF SessionShapes, Call
<1>5. CASE list' = Sessions!Nothing /\ astray' = astray \cup Sessions!InTheMaking(call[c].set)
  <2>1. Sessions!InTheMaking(call[c].set) \subseteq Key /\ list'.life = 0
    BY <1>4, <1>5 DEF Sessions!InTheMaking, Sessions!Nothing
  <2>2. ASSUME NEW s \in Due(call), s \notin astray' \cup Due(call'), NEW d \in Editor, call'[d].at = "read"
        PROVE  s \notin Sessions!Differ(call[d].set, Sessions!Listed')
    <3>1. d # c /\ call[d].at = "read" /\ s \in call[c].set
      BY <1>1, <1>2, <2>2
    <3> QED
      BY <3>1, <2>2, <1>3, <1>5 DEF Sessions!InTheMaking
  <2>3. astray \subseteq astray' /\ astray' \subseteq Key
    BY <1>4, <1>5, <2>1
  <2>4. \A s \in Key : session'[s] # session[s] \/ s \in Due(call) =>
          \/ s \in astray' \cup Due(call')
          \/ \A d \in Editor : call'[d].at = "read" => s \notin Sessions!Differ(call[d].set, Sessions!Listed')
    BY <1>3, <2>2
  <2>5. \A d \in Editor : call'[d] = call[d] \/ call'[d].at \notin {"read", "told"}
    BY <1>a, <1>1
  <2> QED
    BY <1>a, <1>3, <1>4, <1>5, <2>1, <2>3, <2>4, <2>5, WriterStep
<1>6. CASE list' = list /\ astray' = astray \cup call[c].set
  BY <1>a, <1>1, <1>2, <1>3, <1>4, <1>6, WriterStep
<1> QED
  BY <1>5, <1>6 DEF Sessions!Forget

\* Managers without Redis, logins and time change the table and note it.
LEMMA AwayStep ==
  ASSUME SessionsInv,
         Sessions!RevokeAway \/ \E s \in Key : Sessions!Issue(s) \/ Sessions!Expire(s)
  PROVE  SessionsInv'
<1>1. UNCHANGED <<list, call, gone>> /\ SessionShapes
  BY DEF Sessions!RevokeAway, Sessions!Issue, Sessions!Expire, SessionsInv
<1> DEFINE Noted == /\ session' \in [Key -> {"none", "live", "revoked", "expired"}]
                    /\ \A t \in Key : session'[t] # session[t] => t \in astray'
                    /\ \A t \in Key : session'[t] \in {"none", "live"} => session[t] \in {"none", "live"}
                    /\ astray \subseteq astray' /\ astray' \subseteq Key
<1>2. Noted
  <2>1. CASE Sessions!RevokeAway
    BY <1>1, <2>1, Revoked DEF Sessions!RevokeAway, SessionShapes, Sessions!Listed
  <2>2. ASSUME NEW s \in Key, Sessions!Issue(s) \/ Sessions!Expire(s) PROVE Noted
    BY <1>1, <2>2 DEF Sessions!Issue, Sessions!Expire, SessionShapes
  <2> QED
    BY <2>1, <2>2
<1>3. call' \in [Editor -> Call]
  BY <1>1 DEF SessionShapes
<1> QED
  BY <1>1, <1>2, <1>3, WriterStep

LEMMA SuspendStep ==
  ASSUME SessionsInv, NEW c \in Editor, Sessions!SuspendFirst(c) \/ Sessions!SuspendLast(c) \/ Sessions!Crash(c)
  PROVE  SessionsInv'
<1>1. SessionShapes /\ astray \subseteq Key /\ session \in [Key -> {"none", "live", "revoked", "expired"}] /\ UNCHANGED gone
      /\ call[c].set \subseteq Key
  BY DEF SessionsInv, SessionShapes, Call, Sessions!SuspendFirst, Sessions!SuspendLast, Sessions!Crash
<1>2. CASE Sessions!SuspendFirst(c)
  <2>1. PICK k \in Call : call' = [call EXCEPT ![c] = k] /\ k.at = "commit"
    BY <1>2, GoesTo DEF Sessions!SuspendFirst
  <2>2. call' \in [Editor -> Call] /\ Due(call) \subseteq Due(call') /\ \A d \in Editor : call'[d] = IF d = c THEN k ELSE call[d]
    BY <1>1, <1>2, <2>1, DueMoves DEF Sessions!SuspendFirst
  <2> QED
    BY <1>1, <1>2, <2>1, <2>2, WriterStep DEF Sessions!SuspendFirst
<1>3. CASE Sessions!SuspendLast(c)
  <2>1. PICK k \in Call : call' = [call EXCEPT ![c] = k] /\ k.at = "idle"
    BY <1>3, EndsHere DEF Sessions!SuspendLast
  <2>2. call' \in [Editor -> Call] /\ Due(call) \subseteq Due(call') /\ \A d \in Editor : call'[d] = IF d = c THEN k ELSE call[d]
    BY <1>1, <1>3, <2>1, DueMoves DEF Sessions!SuspendLast
  <2>3. /\ astray' = astray \cup (Sessions!Listed \cap (list.list \cup UNION {call[d].set : d \in {e \in Editor : call[e].at = "read"}}))
        /\ Sessions!Revoke(Key) /\ UNCHANGED list
    BY <1>3 DEF Sessions!SuspendLast
  <2>4. Sessions!Listed' = {} /\ astray' \subseteq Key
    BY <1>1, <2>3 DEF Sessions!Listed, Sessions!Revoke
  <2>5. ASSUME NEW s \in Key, session'[s] # session[s], s \notin astray'
        PROVE  /\ s \notin Sessions!Differ(list.list, Sessions!Listed')
               /\ \A d \in Editor : call'[d].at = "read" => s \notin Sessions!Differ(call[d].set, Sessions!Listed')
    <3>1. s \in Sessions!Listed
      BY <2>5, <2>3, Revoked
    <3>2. s \notin list.list /\ \A d \in Editor : call[d].at = "read" => s \notin call[d].set
      BY <2>5, <2>3, <3>1
    <3> QED
      BY <3>2, <2>4, <2>2, <2>1 DEF Sessions!Differ
  <2> QED
    BY <1>1, <2>1, <2>2, <2>3, <2>4, <2>5, Revoked, WriterStep
<1>4. CASE Sessions!Crash(c)
  <2>1. PICK k \in Call : call' = [call EXCEPT ![c] = k] /\ k.at = "idle"
    BY <1>4, EndsHere DEF Sessions!Crash
  <2>2. /\ call' \in [Editor -> Call] /\ Due(call) \subseteq Due(call') \cup call[c].set /\ \A d \in Editor : call'[d] = IF d = c THEN k ELSE call[d]
        /\ call[c].at # "del" => Due(call) \subseteq Due(call')
    BY <1>1, <2>1, DueMoves
  <2>3. UNCHANGED <<session, list>> /\ astray' = IF call[c].at = "del" THEN astray \cup call[c].set ELSE astray
    BY <1>4 DEF Sessions!Crash
  <2> QED
    BY <1>1, <2>1, <2>2, <2>3, WriterStep
<1> QED
  BY <1>2, <1>3, <1>4

LEMMA TickStep == SessionsInv /\ Sessions!Tick => SessionsInv'
<1> SUFFICES ASSUME SessionsInv, Sessions!Tick PROVE SessionsInv'
  OBVIOUS
<1> USE HouseAssumption DEF SessionsInv
<1>1. UNCHANGED <<session, astray>> /\ Sessions!Listed' = Sessions!Listed
  BY DEF Sessions!Tick, Sessions!Listed
<1>2. /\ call' \in [Editor -> Call]
      /\ \A c \in Editor : /\ call'[c].at = call[c].at
                           /\ call[c].at # "idle" => call'[c].set = call[c].set /\ call'[c].age = call[c].age + 1
  <2>1. \A c \in Editor : call'[c] = IF call[c].at = "idle" THEN Sessions!Idle ELSE [call[c] EXCEPT !.age = @ + 1]
    BY DEF Sessions!Tick
  <2>2. ASSUME NEW c \in Editor, call[c].at # "idle"
        PROVE  /\ call'[c] \in Call /\ call'[c].at = call[c].at
               /\ call'[c].set = call[c].set /\ call'[c].age = call[c].age + 1
    BY <2>1, <2>2 DEF Sessions!Tick, SessionShapes, Call
  <2>3. ASSUME NEW c \in Editor, call[c].at = "idle" PROVE call'[c] \in Call /\ call'[c].at = call[c].at
    <3>1. Sessions!Idle \in Call /\ Sessions!Idle.at = "idle"
      BY DEF Call, Sessions!Idle
    <3> QED
      BY <2>1, <2>3, <3>1
  <2>4. call' = [c \in Editor |-> call'[c]]
    BY DEF Sessions!Tick
  <2> QED
    BY <2>2, <2>3, <2>4
<1>3. /\ list' \in [list : SUBSET Key, life : 0..Life]
      /\ list'.life > 0 => list'.list = list.list /\ list'.life = list.life - 1
  BY DEF Sessions!Tick, SessionShapes, Sessions!Nothing
<1>4. /\ gone' \in [Key -> 0..Sessions!Longest]
      /\ \A s \in Key : gone'[s] \in {gone[s], gone[s] + 1} /\ (session[s] \in {"none", "live"} => gone'[s] = gone[s])
  BY DEF Sessions!Tick, SessionShapes, Sessions!Longest
<1>5. Due(call') = Due(call)
  BY <1>2 DEF Due
<1>6. SessionShapes'
  BY <1>1, <1>2, <1>3, <1>4 DEF SessionShapes, Sessions!Longest
<1>7. ListsHold'
  BY <1>1, <1>2, <1>3, <1>5 DEF ListsHold, SessionShapes
<1>8. AgesHold'
  <2>1. \A S \in SUBSET Key, a, b \in Int : Recent(S, gone, a) /\ b >= a + 1 => Recent(S, gone', b)
    BY <1>4 DEF Recent, SessionShapes, Sessions!Longest
  <2>2. \A c \in Editor : call[c].set \subseteq Key /\ call[c].age \in Int
    BY DEF SessionShapes, Call
  <2>3. list.list \subseteq Key /\ list.life \in Int
    BY DEF SessionShapes
  <2>4. list'.life > 0 => Recent(list'.list, gone', Delay + Life - list'.life)
    BY <1>3, <2>1, <2>3 DEF AgesHold
  <2>5. \A c \in Editor : /\ call'[c].at = "read" => Recent(call'[c].set, gone', call'[c].age)
                          /\ call'[c].at = "told" => Recent(call'[c].set, gone', Life + Delay + call'[c].age)
    BY <1>2, <2>1, <2>2 DEF AgesHold
  <2> QED
    BY <1>1, <1>4, <2>4, <2>5 DEF AgesHold
<1> QED
  BY <1>6, <1>7, <1>8

LEMMA SessionsStep == SessionsInv /\ Sessions!Next => SessionsInv'
<1> SUFFICES ASSUME SessionsInv, Sessions!Next PROVE SessionsInv'
  OBVIOUS
<1>1. ASSUME NEW c \in Editor, \E s \in Key : Sessions!RevokeAtHome(c, {s}) \/ Sessions!RevokeAtHome(c, Key \ {s}) \/ Sessions!Rotate(c, s)
      PROVE  SessionsInv'
  <2>1. PICK s \in Key : Sessions!RevokeAtHome(c, {s}) \/ Sessions!RevokeAtHome(c, Key \ {s}) \/ Sessions!Rotate(c, s)
    BY <1>1
  <2>2. {s} \in SUBSET Key /\ Key \ {s} \in SUBSET Key
    OBVIOUS
  <2> QED
    BY <2>1, <2>2, RevokeAtHomeStep, RotateStep
<1>2. ASSUME NEW c \in Editor, Sessions!RevokeAtHome(c, Key) PROVE SessionsInv'
  BY <1>2, RevokeAtHomeStep
<1>3. CASE Sessions!RevokeAway \/ \E s \in Key : Sessions!Issue(s) \/ Sessions!Expire(s)
  BY <1>3, AwayStep
<1> QED
  BY <1>1, <1>2, <1>3, ReaderStep, ForgetStep, SuspendStep, TickStep DEF Sessions!Next

\* Lists of sessions are true as long as behaviours are about them.
CopiesInv == SettingsInv /\ ("sessions" \in scene => SessionsInv)

LEMMA SceneStays == Next => UNCHANGED scene
  BY DEF Next, Compute, Begin, AddGroups, Climb, Keep, Edit, PutCheck, PutWrite, PutCommit, CreateRow, CreateBind,
     DeleteCount, DeleteRow, SetRolesClear, SetRolesAdd, Fail, Hear, KeyAction, CreateKey, RevokeKey, Tick

LEMMA CopiesStep == CopiesInv /\ [NodeNext]_<<vars, options, sessions, log>> => CopiesInv'
<1> SUFFICES ASSUME CopiesInv, [NodeNext]_<<vars, options, sessions, log>> PROVE CopiesInv'
  OBVIOUS
<1> USE DEF CopiesInv
<1>1. UNCHANGED options => SettingsInv'
  BY DEF options, SettingsInv
<1>2. UNCHANGED sessions /\ ("sessions" \in scene => SessionsInv) => ("sessions" \in scene => SessionsInv')
  BY DEF sessions, SessionsInv, SessionShapes, ListsHold, AgesHold, Sessions!Listed
<1>3. UNCHANGED vars => UNCHANGED scene
  BY DEF vars
<1>4. CASE "options" \in scene /\ Settings!Next /\ UNCHANGED <<vars, sessions, log>>
  BY <1>2, <1>3, <1>4, SettingsStep
<1>5. CASE "sessions" \in scene /\ Sessions!Next /\ UNCHANGED <<vars, options, log>>
  BY <1>1, <1>3, <1>5, SessionsStep
<1>6. CASE UNCHANGED <<vars, options, sessions>>
  BY <1>1, <1>2, <1>3, <1>6
<1>7. CASE Next /\ UNCHANGED <<options, sessions, log>>
  BY <1>1, <1>2, <1>7, SceneStays
<1> QED
  BY <1>4, <1>5, <1>6, <1>7 DEF NodeNext

\* What is kept of the options and of the lists of sessions is true, or soon is: whatever is
\* read, written, announced, lost, stored and deleted in whatever order (CopiesAreTrue).
THEOREM CopiesHold == NodeSpec => []CopiesAreTrue
<1>1. NodeInit => CopiesInv
  BY InitSettings, InitSessions DEF NodeInit, CopiesInv
<1>2. CopiesInv => CopiesAreTrue
  <2> SUFFICES ASSUME CopiesInv PROVE CopiesAreTrue
    OBVIOUS
  <2>1. Settings!TypeOK /\ Settings!WritesReachTheNodes
    BY DEF CopiesInv, SettingsInv, Rows, Settings!TypeOK, Settings!WritesReachTheNodes
  <2>2. ASSUME SessionsInv PROVE Sessions!TypeOK /\ Sessions!WhatIsKeptIsTrue /\ Sessions!GhostsFade
    <3>1. Sessions!TypeOK
      BY <2>2 DEF SessionsInv, SessionShapes, Call, Sessions!TypeOK
    <3>2. Sessions!WhatIsKeptIsTrue
      BY <2>2 DEF SessionsInv, ListsHold, Due, Sessions!WhatIsKeptIsTrue
    <3>3. Sessions!GhostsFade
      BY <2>2 DEF SessionsInv, SessionShapes, Call, AgesHold, Recent, Sessions!GhostsFade
    <3> QED
      BY <3>1, <3>2, <3>3
  <2> QED
    BY <2>1, <2>2 DEF CopiesInv, CopiesAreTrue, Sessions!ListsAreTrue
<1> QED
  BY <1>1, <1>2, CopiesStep, PTL DEF NodeSpec

-----------------------------------------------------------------------------
(* Parents: facts about any table of parents *)

Parents == [Role -> Role \cup {None}]

\* The parents that count: of roles that are there.
ParentOf == [r \in Role |-> Parent(r)]

Shut(P, S) == \A x \in S : P[x] \in S \cup {None}

\* A role and what is above it, as Above has it.
Up(P, r) == {s \in Role : \A S \in SUBSET (Role \ {s}) : r \in S => ~ Shut(P, S)}

Loops(P, r) == P[r] # None /\ r \in Up(P, P[r])

LEMMA NoneIsNoRole == None \notin Role /\ Same \notin Role /\ None # Same
  BY AccessAssumption DEF None, Same

\* The least set: it is in every other.
LEMMA UpLeast ==
  ASSUME NEW P \in Parents, NEW r \in Role, NEW S \in SUBSET Role, r \in S, Shut(P, S)
  PROVE  Up(P, r) \subseteq S
<1>1. SUFFICES ASSUME NEW s \in Up(P, r), s \notin S PROVE FALSE
  OBVIOUS
<1>2. S \in SUBSET (Role \ {s})
  BY <1>1
<1> QED
  BY <1>1, <1>2 DEF Up

LEMMA UpIsShut ==
  ASSUME NEW P \in Parents, NEW r \in Role
  PROVE  Up(P, r) \subseteq Role /\ r \in Up(P, r) /\ Shut(P, Up(P, r))
<1>1. Up(P, r) \subseteq Role /\ r \in Up(P, r)
  BY DEF Up
<1>2. ASSUME NEW x \in Up(P, r), P[x] # None PROVE P[x] \in Up(P, r)
  <2>1. x \in Role /\ P[x] \in Role
    BY <1>1, <1>2 DEF Parents
  <2>2. ASSUME NEW S \in SUBSET (Role \ {P[x]}), r \in S, Shut(P, S) PROVE FALSE
    <3>1. x \in S
      BY <1>1, <2>2, UpLeast
    <3> QED
      BY <3>1, <2>2, <1>2 DEF Shut
  <2> QED
    BY <2>1, <2>2 DEF Up
<1> QED
  BY <1>1, <1>2 DEF Shut

LEMMA UpMember ==
  ASSUME NEW P \in Parents, NEW r \in Role, NEW s \in Up(P, r)
  PROVE  s \in Role /\ Up(P, s) \subseteq Up(P, r)
  BY UpIsShut, UpLeast

LEMMA UpUnfolds ==
  ASSUME NEW P \in Parents, NEW r \in Role
  PROVE  /\ P[r] = None => Up(P, r) = {r}
         /\ P[r] # None => P[r] \in Role /\ Up(P, r) = {r} \cup Up(P, P[r])
<1>1. ASSUME P[r] = None PROVE Up(P, r) = {r}
  <2>1. Shut(P, {r}) /\ {r} \in SUBSET Role
    BY <1>1 DEF Shut
  <2>2. Up(P, r) \subseteq {r}
    BY <2>1, UpLeast
  <2> QED
    BY <2>2, UpIsShut
<1>2. ASSUME P[r] # None PROVE P[r] \in Role /\ Up(P, r) = {r} \cup Up(P, P[r])
  <2>1. P[r] \in Role
    BY <1>2 DEF Parents
  <2>2. Up(P, P[r]) \subseteq Up(P, r)
    <3>1. P[r] \in Up(P, r)
      BY <1>2, UpIsShut DEF Shut
    <3> QED
      BY <3>1, UpMember
  <2>3. Up(P, r) \subseteq {r} \cup Up(P, P[r])
    <3>1. Up(P, P[r]) \subseteq Role /\ P[r] \in Up(P, P[r]) /\ Shut(P, Up(P, P[r]))
      BY <2>1, UpIsShut
    <3>2. Shut(P, {r} \cup Up(P, P[r]))
      BY <3>1 DEF Shut
    <3> QED
      BY <3>1, <3>2, UpLeast
  <2> QED
    BY <2>1, <2>2, <2>3, UpIsShut
<1> QED
  BY <1>1, <1>2

\* Tables that agree on what is above r in one of them agree on what is above r.
LEMMA UpSame ==
  ASSUME NEW P \in Parents, NEW Q \in Parents, NEW r \in Role, \A x \in Up(P, r) : Q[x] = P[x]
  PROVE  Up(Q, r) = Up(P, r)
<1>1. Up(P, r) \subseteq Role /\ r \in Up(P, r) /\ Shut(P, Up(P, r)) /\ r \in Up(Q, r) /\ Shut(Q, Up(Q, r))
  BY UpIsShut
<1>2. Shut(Q, Up(P, r))
  BY <1>1 DEF Shut
<1>3. Up(Q, r) \subseteq Up(P, r)
  BY <1>1, <1>2, UpLeast
<1>4. Shut(P, Up(Q, r))
  BY <1>1, <1>3 DEF Shut
<1> QED
  BY <1>1, <1>3, <1>4, UpLeast

\* Without a parent, a role has less above it.
LEMMA UpLess ==
  ASSUME NEW P \in Parents, NEW Q \in Parents, NEW r \in Role, \A x \in Role : Q[x] \in {P[x], None}
  PROVE  Up(Q, r) \subseteq Up(P, r)
<1>1. Up(P, r) \subseteq Role /\ r \in Up(P, r) /\ Shut(P, Up(P, r))
  BY UpIsShut
<1>2. Shut(Q, Up(P, r))
  BY <1>1 DEF Shut
<1> QED
  BY <1>1, <1>2, UpLeast

\* From whatever is above it, a role in a loop is above.
LEMMA LoopMember ==
  ASSUME NEW P \in Parents, NEW x \in Role, Loops(P, x), NEW y \in Up(P, x)
  PROVE  x \in Up(P, y)
<1> DEFINE S == {z \in Up(P, x) : x \in Up(P, z)}
<1>1. S \subseteq Role /\ x \in S
  BY UpIsShut
<1>2. ASSUME NEW z \in S, P[z] # None PROVE P[z] \in S
  <2>1. z \in Role /\ P[z] \in Role /\ P[z] \in Up(P, x) /\ Up(P, z) = {z} \cup Up(P, P[z])
    BY <1>1, <1>2, UpIsShut, UpUnfolds DEF Shut
  <2>2. x \in Up(P, P[z])
    BY <2>1, <1>2 DEF Loops
  <2> QED
    BY <2>1, <2>2
<1>3. Shut(P, S)
  BY <1>2 DEF Shut
<1> QED
  BY <1>1, <1>3, UpLeast

Moved(P, Q, r, p) == Q[r] = p /\ \A y \in Role \ {r} : Q[y] = P[y]

\* A loop that a move makes goes through the role that moves; it makes none if that role was
\* not above its new parent.
LEMMA LoopMoves ==
  ASSUME NEW P \in Parents, NEW Q \in Parents, NEW r \in Role, NEW p \in Role \cup {None}, Moved(P, Q, r, p),
         NEW x \in Role, Loops(Q, x)
  PROVE  /\ r \notin Up(Q, x) => Loops(P, x) /\ Up(P, x) = Up(Q, x)
         /\ p = None \/ r \notin Up(P, p) => r \notin Up(Q, x)
<1>1. Q \in Parents /\ Q[r] = p /\ \A y \in Role \ {r} : Q[y] = P[y]
  BY DEF Moved
<1>2. Q[x] \in Role /\ x \in Up(Q, Q[x]) /\ Up(Q, x) = {x} \cup Up(Q, Q[x]) /\ Up(Q, x) \subseteq Role
  BY <1>1, UpUnfolds, UpIsShut DEF Loops
<1>3. ASSUME r \notin Up(Q, x) PROVE Loops(P, x) /\ Up(P, x) = Up(Q, x)
  <2>1. Q[x] = P[x] /\ \A y \in Up(Q, x) : P[y] = Q[y]
    BY <1>1, <1>2, <1>3
  <2>2. Up(P, x) = Up(Q, x)
    BY <1>1, <2>1, UpSame
  <2>3. Up(P, Q[x]) = Up(Q, Q[x])
    <3>1. PICK z \in Role : z = Q[x]
      BY <1>2
    <3>2. \A y \in Up(Q, z) : P[y] = Q[y]
      BY <1>2, <2>1, <3>1
    <3>3. Up(P, z) = Up(Q, z)
      BY <1>1, <3>2, UpSame
    <3> QED
      BY <3>1, <3>3
  <2> QED
    BY <1>2, <2>1, <2>2, <2>3, NoneIsNoRole DEF Loops
<1>4. ASSUME r \in Up(Q, x), p = None \/ r \notin Up(P, p) PROVE FALSE
  <2>1. x \in Up(Q, r)
    BY <1>1, <1>4, LoopMember
  <2>2. CASE p = None
    <3>1. Up(Q, r) = {r}
      BY <1>1, <2>2, UpUnfolds
    <3> QED
      BY <1>1, <1>2, <2>1, <2>2, <3>1, NoneIsNoRole
  <2>3. CASE p # None /\ r \notin Up(P, p)
    <3>0. Q[r] # None /\ p \in Role
      BY <1>1, <2>3
    <3>1. p \in Role /\ Up(Q, r) = {r} \cup Up(Q, p)
      BY <1>1, <3>0, UpUnfolds
    <3>2. \A y \in Up(P, p) : y \in Role /\ Q[y] = P[y]
      BY <1>1, <2>3, <3>1, UpIsShut
    <3>3. Up(Q, p) = Up(P, p)
      BY <1>1, <3>1, <3>2, UpSame
    <3>4. CASE x = r
      BY <1>1, <1>2, <2>3, <3>3, <3>4
    <3>5. CASE x \in Up(Q, p)
      BY <1>1, <1>4, <2>3, <3>1, <3>3, <3>5, UpMember
    <3> QED
      BY <2>1, <3>1, <3>4, <3>5
  <2> QED
    BY <1>4, <2>2, <2>3
<1> QED
  BY <1>3, <1>4

-----------------------------------------------------------------------------
(* The tables and the edits in progress *)

RoleRow == [state : {"unborn", "live", "gone"}, parent : Role \cup {None}, sys : BOOLEAN]

Born(r) == role[r].state # "unborn"

\* Foreign keys: what is held, bound or above is or was a role.
TablesOk ==
  /\ role \in [Role -> RoleRow] /\ bound \in [Role -> Grants]
  /\ \A r \in Role : Live(r) /\ role[r].parent \in Role => Born(role[r].parent)
  /\ \A r \in Role : ~ Live(r) => bound[r] = Bare
  /\ userRoles \subseteq User \X Role /\ \A x \in userRoles : Live(x[2])
  /\ groupRoles \subseteq Role /\ \A r \in groupRoles : Live(r)

Job == [op : {"idle", "put", "create", "delete", "assign"}, at : {None, "checked", "written", "made", "counted", "cleared"},
        r : Role \cup {None}, u : User \cup {None}, parent : Role \cup {None, Same}, grants : Grants,
        set : SUBSET (Role \cup {"keep", "bind"}), late : BOOLEAN]

\* What an edit has looked up is of its kind, and is or was there.
JobOk(j) ==
  /\ j.op \in {"put", "create", "delete"} => j.r \in Role
  /\ j.op = "assign" => j.u \in User /\ j.set \subseteq Role
  /\ j.op = "put" => /\ j.at \in {"checked", "written"}
                     /\ j.at = "written" => Live(j.r)
                     /\ j.parent \in Role => Born(j.parent)

JobsOk == job \in [Editor -> Job] /\ \A e \in Editor : JobOk(job[e])

LEMMA GrantsThere == Bare \in Grants /\ Whole \in Grants /\ Offer \cup {Bare} \subseteq Grants
  BY AccessAssumption DEF Bare, Grants, Whole

LEMMA InitTables == Init => TablesOk /\ JobsOk
<1> SUFFICES ASSUME Init PROVE TablesOk /\ JobsOk
  OBVIOUS
<1>1. PICK top \in Role \cup {None} :
       /\ top # Low
       /\ role = [r \in Role |-> IF r = Admin THEN [state |-> "live", parent |-> None, sys |-> TRUE]
                                 ELSE IF "create" \in scene THEN Unborn
                                 ELSE [state |-> "live", parent |-> IF r = Low THEN top ELSE None, sys |-> FALSE]]
       /\ userRoles \in IF "keys" \in scene THEN {User \X {Admin}} ELSE IF "moves" \in scene THEN {{}}
                        ELSE {{}} \cup {{<<u, Low>>} : u \in {v \in User : Live(Low)}}
       /\ groupRoles \in IF "moves" \in scene THEN {{Low}}
                         ELSE IF userRoles = {} /\ Live(Low) THEN {{}, {Low}} ELSE {{}}
  BY DEF Init
<1>2. Low \in Role /\ Low # Admin /\ Admin \in Role
  BY AccessAssumption DEF Low
<1>3. /\ role \in [Role -> RoleRow]
      /\ \A r \in Role : role[r].state = "live" \/ ("create" \in scene /\ role[r].parent = None)
      /\ Live(Admin) /\ ("moves" \in scene => Live(Low))
  <2>1. Unborn \in RoleRow /\ Unborn.parent = None
    BY DEF Unborn, RoleRow
  <2>2. "moves" \in scene => "create" \notin scene
    BY AccessAssumption DEF Init
  <2>3. ASSUME NEW r \in Role
        PROVE  \/ role[r].state = "live" /\ role[r] \in RoleRow
               \/ r # Admin /\ "create" \in scene /\ role[r] = Unborn
    <3>1. CASE r = Admin
      <4>1. role[r] = [state |-> "live", parent |-> None, sys |-> TRUE]
        BY <1>1, <3>1
      <4> QED
        BY <4>1 DEF RoleRow
    <3>2. CASE r # Admin /\ "create" \in scene
      BY <1>1, <3>2
    <3>3. CASE r # Admin /\ "create" \notin scene
      <4>1. role[r] = [state |-> "live", parent |-> IF r = Low THEN top ELSE None, sys |-> FALSE]
        BY <1>1, <3>3
      <4>2. (IF r = Low THEN top ELSE None) \in Role \cup {None}
        OBVIOUS
      <4> QED
        BY <4>1, <4>2 DEF RoleRow
    <3> QED
      BY <3>1, <3>2, <3>3
  <2>4. role = [r \in Role |-> role[r]]
    BY <1>1
  <2>5. \A r \in Role : role[r] \in RoleRow
    BY <2>1, <2>3
  <2>6. \A r \in Role : role[r].state = "live" \/ ("create" \in scene /\ role[r].parent = None)
    BY <2>1, <2>3
  <2>7. Live(Admin) /\ ("moves" \in scene => Live(Low))
    BY <1>2, <2>2, <2>3 DEF Live
  <2> QED
    BY <2>4, <2>5, <2>6, <2>7
<1>4. userRoles \subseteq User \X Role /\ \A x \in userRoles : Live(x[2])
  <2>1. CASE "keys" \in scene
    BY <1>1, <1>2, <1>3, <2>1
  <2>2. CASE userRoles \in {{<<u, Low>>} : u \in {v \in User : Live(Low)}}
    BY <1>2, <2>2
  <2> QED
    BY <1>1, <2>1, <2>2
<1>5. groupRoles \subseteq Role /\ \A r \in groupRoles : Live(r)
  BY <1>1, <1>2, <1>3
<1>6. bound \in [Role -> Grants] /\ \A r \in Role : ~ Live(r) => bound[r] = Bare
  BY <1>3, GrantsThere DEF Init
<1>7. \A r \in Role : Live(r) /\ role[r].parent \in Role => Born(role[r].parent)
  <2>1. ASSUME NEW r \in Role, role[r].parent \in Role PROVE Born(role[r].parent)
    <3>1. "create" \notin scene
      <4>1. SUFFICES ASSUME "create" \in scene PROVE FALSE
        OBVIOUS
      <4>2. role[r].parent = None
        BY <1>1, <1>2, <4>1 DEF Unborn
      <4> QED
        BY <2>1, <4>2, NoneIsNoRole
    <3> QED
      BY <1>3, <2>1, <3>1 DEF Born
  <2> QED
    BY <2>1
<1>8. JobsOk
  <2>1. Idle \in Job /\ JobOk(Idle)
    BY GrantsThere DEF Idle, Job, JobOk
  <2> QED
    BY <2>1 DEF Init, JobsOk
<1> QED
  BY <1>3, <1>4, <1>5, <1>6, <1>7, <1>8 DEF TablesOk

\* One edit goes on; the others stay what they are as long as no role is unborn or leaves
\* under an edit that holds it.
LEMMA JobMoves ==
  ASSUME JobsOk, NEW e \in Editor, NEW k \in Job, job' = [job EXCEPT ![e] = k], JobOk(k)',
         \A r \in Role : Born(r) => Born(r)',
         \A x \in Editor \ {e} : Doing(x, "put", "written") => role'[job[x].r].state = "live"
  PROVE  JobsOk' /\ job'[e] = k /\ \A x \in Editor \ {e} : job'[x] = job[x]
<1>1. job' \in [Editor -> Job] /\ job'[e] = k /\ \A x \in Editor \ {e} : job'[x] = job[x]
  BY DEF JobsOk
<1>2. ASSUME NEW x \in Editor, NEW j, j = job'[x] PROVE JobOk(j)'
  <2>1. CASE x = e
    BY <1>1, <1>2, <2>1
  <2>2. CASE x # e
    <3>1. j = job[x] /\ JobOk(j) /\ j \in Job
      BY <1>1, <1>2, <2>2 DEF JobsOk
    <3>2. j.op = "put" /\ j.at = "written" => Live(j.r)'
      <4>1. Doing(x, "put", "written") => role'[job[x].r].state = "live"
        BY <2>2
      <4> QED
        BY <3>1, <4>1, <1>1, <2>2 DEF Doing, Live, JobOk
    <3>3. j.op = "put" /\ j.parent \in Role => Born(j.parent)'
      BY <3>1 DEF JobOk
    <3> QED
      BY <3>1, <3>2, <3>3 DEF JobOk
  <2> QED
    BY <2>1, <2>2
<1>3. \A x \in Editor : JobOk(job[x])'
  BY <1>2 DEF JobOk, Live, Born
<1> QED
  BY <1>1, <1>3 DEF JobsOk

LEMMA IdleIsFine == Idle \in Job /\ JobOk(Idle) /\ JobOk(Idle)' /\ Idle.op = "idle"
  BY GrantsThere DEF Idle, Job, JobOk

LEMMA PutCheckJob ==
  ASSUME TablesOk, JobsOk, NEW e \in Editor, PutCheck(e)
  PROVE  /\ TablesOk' /\ JobsOk' /\ UNCHANGED <<tables, key, answers, quiet, doubt, kept>>
         /\ \E r \in Role, p \in Role \cup {None, Same} :
              /\ Live(r) /\ (p \in Role => Live(p) /\ ~ Looping(p, r))
              /\ job'[e].op = "put" /\ job'[e].at = "checked" /\ job'[e].r = r /\ job'[e].parent = p
              /\ \A x \in Editor \ {e} : job'[x] = job[x]
              /\ overlapped' = IF p \in {Same, None} THEN overlapped
                               ELSE overlapped \cup UNION {{r, job[x].r} : x \in {y \in Editor \ {e} : Moving(y)}}
<1>1. PICK r \in Role, p \in Role \cup {None, Same}, g \in {"keep", "bind"}, w \in Offer \cup {Bare} :
       /\ Live(r) /\ (p \in Role => Live(p) /\ ~ Looping(p, r))
       /\ job' = [job EXCEPT ![e] = [Idle EXCEPT !.op = "put", !.at = "checked", !.r = r,
                                       !.parent = p, !.grants = w, !.set = {g}]]
       /\ overlapped' = IF p \in {Same, None} THEN overlapped
                        ELSE overlapped \cup UNION {{r, job[x].r} : x \in {y \in Editor \ {e} : Moving(y)}}
  BY ZenonT(60) DEF PutCheck
<1>2. UNCHANGED <<role, bound, userRoles, groupRoles>> /\ UNCHANGED <<tables, key, answers, quiet, doubt, kept>>
  BY DEF PutCheck, tables
<1> DEFINE k == [Idle EXCEPT !.op = "put", !.at = "checked", !.r = r, !.parent = p, !.grants = w, !.set = {g}]
<1>3. k \in Job /\ k.op = "put" /\ k.at = "checked" /\ k.r = r /\ k.parent = p
  BY GrantsThere DEF Idle, Job
<1>4. JobOk(k)'
  BY <1>1, <1>2, <1>3 DEF JobOk, Born, Live
<1>5. job' = [job EXCEPT ![e] = k]
  BY <1>1
<1> HIDE DEF k
<1>6. JobsOk' /\ job'[e] = k /\ \A x \in Editor \ {e} : job'[x] = job[x]
  <2>1. \A x \in Editor \ {e} : Doing(x, "put", "written") => role'[job[x].r].state = "live"
    BY <1>2 DEF JobsOk, JobOk, Doing, Live
  <2>2. \A x \in Role : Born(x) => Born(x)'
    BY <1>2 DEF Born
  <2> QED
    BY <1>3, <1>4, <1>5, <2>1, <2>2, JobMoves
<1>7. TablesOk'
  BY <1>2 DEF TablesOk, Live, Born
<1> QED
  BY <1>1, <1>2, <1>3, <1>6, <1>7

\* An edit that leaves the tables alone and goes on, or ends.
LEMMA PlainJob ==
  ASSUME TablesOk, JobsOk, NEW e \in Editor, UNCHANGED <<role, bound, userRoles, groupRoles>>,
         NEW k \in Job, job' = [job EXCEPT ![e] = k], JobOk(k)
  PROVE  TablesOk' /\ JobsOk' /\ job'[e] = k /\ \A x \in Editor \ {e} : job'[x] = job[x]
<1>1. \A x \in Editor \ {e} : Doing(x, "put", "written") => role'[job[x].r].state = "live"
  BY DEF JobsOk, JobOk, Doing, Live
<1>2. \A x \in Role : Born(x) => Born(x)'
  BY DEF Born
<1>3. JobOk(k)'
  BY DEF JobOk, Born, Live
<1>4. TablesOk'
  BY DEF TablesOk, Live, Born
<1> QED
  BY <1>1, <1>2, <1>3, <1>4, JobMoves

LEMMA PutWriteJob ==
  ASSUME TablesOk, JobsOk, NEW e \in Editor, PutWrite(e)
  PROVE  /\ TablesOk' /\ JobsOk' /\ Live(job[e].r)
         /\ job'[e].op = "put" /\ job'[e].at = "written" /\ job'[e].r = job[e].r /\ job'[e].parent = job[e].parent
         /\ \A x \in Editor \ {e} : job'[x] = job[x]
<1> DEFINE k == [job[e] EXCEPT !.at = "written"]
<1>1. /\ k \in Job /\ k.op = "put" /\ k.at = "written" /\ k.r = job[e].r /\ k.parent = job[e].parent
      /\ JobOk(job[e]) /\ Live(job[e].r) /\ job' = [job EXCEPT ![e] = k]
  BY DEF PutWrite, Doing, JobsOk, Job
<1>2. JobOk(k)
  BY <1>1 DEF JobOk
<1>3. UNCHANGED <<role, bound, userRoles, groupRoles>>
  BY DEF PutWrite, tables
<1> HIDE DEF k
<1> QED
  BY <1>1, <1>2, <1>3, PlainJob

LEMMA PutCommitJob ==
  ASSUME TablesOk, JobsOk, NEW e \in Editor, PutCommit(e)
  PROVE  /\ TablesOk' /\ JobsOk' /\ job'[e] = Idle /\ \A x \in Editor \ {e} : job'[x] = job[x]
         /\ Live(job[e].r) /\ UNCHANGED <<userRoles, groupRoles>>
         /\ \A r \in Role : role'[r].state = role[r].state
         /\ ParentOf' = IF job[e].parent = Same THEN ParentOf ELSE [ParentOf EXCEPT ![job[e].r] = job[e].parent]
<1> DEFINE r0 == job[e].r
           p0 == job[e].parent
<1>1. /\ job[e] \in Job /\ JobOk(job[e]) /\ r0 \in Role /\ Live(r0) /\ p0 \in Role \cup {None, Same} /\ job[e].grants \in Grants
      /\ p0 \in Role => Born(p0)
  BY DEF PutCommit, Doing, JobsOk, JobOk, Job
<1>2. /\ role' = IF p0 = Same THEN role ELSE [role EXCEPT ![r0].parent = p0]
      /\ bound' = IF "bind" \in job[e].set THEN [bound EXCEPT ![r0] = job[e].grants] ELSE bound
      /\ UNCHANGED <<userRoles, groupRoles>> /\ job' = [job EXCEPT ![e] = Idle]
  BY DEF PutCommit, Done
<1> HIDE DEF r0, p0
<1>3. /\ role' \in [Role -> RoleRow]
      /\ \A r \in Role : role'[r].state = role[r].state
      /\ \A r \in Role : role'[r].parent = IF r = r0 /\ p0 # Same THEN p0 ELSE role[r].parent
  BY <1>1, <1>2, NoneIsNoRole DEF TablesOk, RoleRow
<1>4. \A r : Live(r)' <=> Live(r)
  BY <1>3 DEF Live
<1>5. bound' \in [Role -> Grants] /\ \A r \in Role : r # r0 => bound'[r] = bound[r]
  BY <1>1, <1>2 DEF TablesOk
<1>6. TablesOk'
  BY <1>1, <1>2, <1>3, <1>4, <1>5, NoneIsNoRole DEF TablesOk, Born
<1>7. JobsOk' /\ job'[e] = Idle /\ \A x \in Editor \ {e} : job'[x] = job[x]
  <2>1. \A x \in Editor \ {e} : Doing(x, "put", "written") => role'[job[x].r].state = "live"
    BY <1>3 DEF JobsOk, JobOk, Doing, Live
  <2>2. \A x \in Role : Born(x) => Born(x)'
    BY <1>3 DEF Born
  <2> QED
    BY <1>2, <2>1, <2>2, JobMoves, IdleIsFine
<1>8. ParentOf' = IF p0 = Same THEN ParentOf ELSE [ParentOf EXCEPT ![r0] = p0]
  <2>1. \A r \in Role : Parent(r)' = IF r = r0 /\ p0 # Same THEN p0 ELSE Parent(r)
    BY <1>1, <1>3, <1>4 DEF Parent
  <2> QED
    BY <1>1, <2>1 DEF ParentOf
<1> QED
  BY <1>1, <1>2, <1>3, <1>6, <1>7, <1>8 DEF r0, p0

\* An edit that leaves the roles as they are and goes on, or ends.
LEMMA HoldingJob ==
  ASSUME TablesOk, JobsOk, NEW e \in Editor, UNCHANGED role,
         bound' \in [Role -> Grants], \A r \in Role : ~ Live(r) => bound'[r] = Bare,
         userRoles' \subseteq User \X Role, \A x \in userRoles' : Live(x[2]),
         groupRoles' \subseteq Role, \A r \in groupRoles' : Live(r),
         NEW k \in Job, job' = [job EXCEPT ![e] = k], JobOk(k)
  PROVE  TablesOk' /\ JobsOk' /\ ParentOf' = ParentOf /\ job'[e] = k /\ \A x \in Editor \ {e} : job'[x] = job[x]
<1>1. \A x \in Editor \ {e} : Doing(x, "put", "written") => role'[job[x].r].state = "live"
  BY DEF JobsOk, JobOk, Doing, Live
<1>2. \A x \in Role : Born(x) => Born(x)'
  BY DEF Born
<1>3. JobOk(k)'
  BY DEF JobOk, Born, Live
<1>4. TablesOk'
  BY DEF TablesOk, Live, Born
<1>5. ParentOf' = ParentOf
  BY DEF ParentOf, Parent, Live
<1> QED
  BY <1>1, <1>2, <1>3, <1>4, <1>5, JobMoves

LEMMA CreateRowJob ==
  ASSUME TablesOk, JobsOk, NEW e \in Editor, CreateRow(e)
  PROVE  /\ TablesOk' /\ JobsOk'
         /\ job'[e].op = "create" /\ \A x \in Editor \ {e} : job'[x] = job[x]
         /\ UNCHANGED <<userRoles, groupRoles, kept, overlapped, key>>
         /\ \E r \in Role, p \in Role \cup {None} :
              /\ ~ Born(r) /\ (p \in Role => Live(p))
              /\ ParentOf' = [ParentOf EXCEPT ![r] = p]
<1>1. PICK r \in Role, p \in Role \cup {None}, w \in Offer :
       /\ role[r].state = "unborn"
       /\ p \in Role => Live(p)
       /\ role' = [role EXCEPT ![r] = [state |-> "live", parent |-> p, sys |-> FALSE]]
       /\ job' = [job EXCEPT ![e] = [Idle EXCEPT !.op = "create", !.at = "made", !.r = r, !.grants = w]]
  BY DEF CreateRow
<1> DEFINE k == [Idle EXCEPT !.op = "create", !.at = "made", !.r = r, !.grants = w]
<1>2. UNCHANGED <<bound, userRoles, groupRoles>> /\ UNCHANGED <<userRoles, groupRoles, kept, overlapped, key>>
  BY DEF CreateRow
<1>3. k \in Job /\ k.op = "create" /\ k.r = r /\ JobOk(k)'
  <2>1. k \in Job /\ k.op = "create" /\ k.r = r
    BY GrantsThere DEF Idle, Job
  <2> HIDE DEF k
  <2> QED
    BY <2>1 DEF JobOk
<1>4. job' = [job EXCEPT ![e] = k]
  BY <1>1
<1> HIDE DEF k
<1>5. /\ role' \in [Role -> RoleRow]
      /\ role'[r].state = "live" /\ role'[r].parent = p
      /\ \A x \in Role \ {r} : role'[x] = role[x]
  BY <1>1 DEF TablesOk, RoleRow
<1>6. \A x : Live(x)' <=> Live(x) \/ x = r
  BY <1>5 DEF Live
<1>7. JobsOk' /\ job'[e] = k /\ \A x \in Editor \ {e} : job'[x] = job[x]
  <2>1. \A x \in Editor \ {e} : Doing(x, "put", "written") => role'[job[x].r].state = "live"
    BY <1>5 DEF JobsOk, JobOk, Doing, Live
  <2>2. \A x \in Role : Born(x) => Born(x)'
    BY <1>5 DEF Born
  <2> QED
    BY <1>3, <1>4, <2>1, <2>2, JobMoves
<1>8. TablesOk'
  <2>1. \A x \in Role : Live(x)' /\ role'[x].parent \in Role => Born(role[x].parent)'
    BY <1>1, <1>5, <1>6, NoneIsNoRole DEF TablesOk, Born, Live
  <2> QED
    BY <1>2, <1>5, <1>6, <2>1 DEF TablesOk
<1>9. ParentOf' = [ParentOf EXCEPT ![r] = p]
  <2>1. \A x \in Role : Parent(x)' = IF x = r THEN p ELSE Parent(x)
    BY <1>5, <1>6 DEF Parent
  <2> QED
    BY <2>1 DEF ParentOf
<1>10. ~ Born(r)
  BY <1>1 DEF Born
<1> QED
  BY <1>1, <1>2, <1>3, <1>7, <1>8, <1>9, <1>10

LEMMA CreateBindJob ==
  ASSUME TablesOk, JobsOk, NEW e \in Editor, CreateBind(e)
  PROVE  /\ TablesOk' /\ JobsOk' /\ ParentOf' = ParentOf /\ job'[e] = Idle
         /\ \A x \in Editor \ {e} : job'[x] = job[x]
         /\ UNCHANGED <<userRoles, groupRoles, kept, overlapped, key>>
<1>1. job[e] \in Job /\ JobOk(job[e]) /\ job[e].grants \in Grants
  BY DEF JobsOk, Job
<1>2. /\ UNCHANGED role /\ UNCHANGED <<userRoles, groupRoles, kept, overlapped, key>> /\ job' = [job EXCEPT ![e] = Idle]
      /\ bound' = IF MayBind(job[e].grants) /\ Live(job[e].r) THEN [bound EXCEPT ![job[e].r] = job[e].grants] ELSE bound
  BY DEF CreateBind, Done
<1>3. bound' \in [Role -> Grants] /\ \A r \in Role : ~ Live(r) => bound'[r] = Bare
  BY <1>1, <1>2 DEF TablesOk
<1>4. /\ userRoles' \subseteq User \X Role /\ \A x \in userRoles' : Live(x[2])
      /\ groupRoles' \subseteq Role /\ \A r \in groupRoles' : Live(r)
  BY <1>2 DEF TablesOk
<1> QED
  BY <1>2, <1>3, <1>4, IdleIsFine, HoldingJob

LEMMA DeleteCountJob ==
  ASSUME TablesOk, JobsOk, NEW e \in Editor, DeleteCount(e)
  PROVE  /\ TablesOk' /\ JobsOk' /\ ParentOf' = ParentOf
         /\ job'[e].op = "delete" /\ Holders(job'[e].r) = {} /\ job'[e].r \notin groupRoles
         /\ \A x \in Editor \ {e} : job'[x] = job[x]
         /\ UNCHANGED <<userRoles, groupRoles, kept, overlapped, key>>
<1>1. PICK r \in Role :
       /\ Holders(r) = {} /\ r \notin groupRoles
       /\ job' = [job EXCEPT ![e] = [Idle EXCEPT !.op = "delete", !.at = "counted", !.r = r]]
  BY DEF DeleteCount, InUse
<1>2. UNCHANGED <<role, bound, userRoles, groupRoles>> /\ UNCHANGED <<userRoles, groupRoles, kept, overlapped, key>>
  BY DEF DeleteCount, tables, past
<1> DEFINE k == [Idle EXCEPT !.op = "delete", !.at = "counted", !.r = r]
<1>3. k \in Job /\ k.op = "delete" /\ k.r = r
  BY GrantsThere DEF Idle, Job
<1>4. job' = [job EXCEPT ![e] = k]
  BY <1>1
<1> HIDE DEF k
<1>5. JobOk(k)
  BY <1>3 DEF JobOk
<1>6. TablesOk' /\ JobsOk' /\ job'[e] = k /\ \A x \in Editor \ {e} : job'[x] = job[x]
  BY <1>2, <1>3, <1>4, <1>5, PlainJob
<1>7. ParentOf' = ParentOf
  BY <1>2 DEF ParentOf, Parent, Live
<1> QED
  BY <1>1, <1>2, <1>3, <1>6, <1>7

LEMMA DeleteRowJob ==
  ASSUME TablesOk, JobsOk, NEW e \in Editor, DeleteRow(e)
  PROVE  /\ TablesOk' /\ JobsOk' /\ job'[e] = Idle /\ job[e].op = "delete" /\ job[e].r \in Role
         /\ \A x \in Editor \ {e} : job'[x] = job[x]
         /\ ParentOf' = [ParentOf EXCEPT ![job[e].r] = None]
         /\ userRoles' = {x \in userRoles : x[2] # job[e].r} /\ groupRoles' = groupRoles \ {job[e].r}
         /\ kept' = (kept /\ (job[e].late \/ (Holders(job[e].r) = {} /\ job[e].r \notin groupRoles)))
         /\ UNCHANGED <<overlapped, key>>
<1> DEFINE r == job[e].r
<1>1. /\ r \in Role /\ Live(r) /\ job[e].op = "delete"
      /\ \A x \in Editor : Doing(x, "put", "written") => job[x].r # r
  BY DEF DeleteRow, Doing, Locked, Live
<1>2. /\ role' = [role EXCEPT ![r] = Gone]
      /\ bound' = [bound EXCEPT ![r] = Bare]
      /\ userRoles' = {x \in userRoles : x[2] # r}
      /\ groupRoles' = groupRoles \ {r}
      /\ kept' = (kept /\ (job[e].late \/ (Holders(r) = {} /\ r \notin groupRoles)))
      /\ UNCHANGED <<overlapped, key>>
      /\ job' = [job EXCEPT ![e] = Idle]
  BY DEF DeleteRow, Done
<1> HIDE DEF r
<1>3. Gone \in RoleRow /\ Gone.state = "gone" /\ Gone.parent = None
  BY DEF Gone, Unborn, RoleRow
<1>4. role' \in [Role -> RoleRow] /\ role'[r] = Gone /\ \A x \in Role \ {r} : role'[x] = role[x]
  BY <1>1, <1>2, <1>3 DEF TablesOk
<1>5. \A x : Live(x)' <=> Live(x) /\ x # r
  BY <1>3, <1>4 DEF Live
<1>6. JobsOk' /\ job'[e] = Idle /\ \A x \in Editor \ {e} : job'[x] = job[x]
  <2>1. \A x \in Editor \ {e} : Doing(x, "put", "written") => role'[job[x].r].state = "live"
    BY <1>1, <1>4 DEF JobsOk, JobOk, Doing, Live
  <2>2. \A x \in Role : Born(x) => Born(x)'
    BY <1>3, <1>4 DEF Born
  <2> QED
    BY <1>2, <2>1, <2>2, JobMoves, IdleIsFine
<1>7. TablesOk'
  <2>1. \A x \in Role : Live(x)' /\ role'[x].parent \in Role => Born(role[x].parent)'
    BY <1>3, <1>4, <1>5 DEF TablesOk, Born
  <2>2. bound' \in [Role -> Grants] /\ \A x \in Role : ~ Live(x)' => bound'[x] = Bare
    BY <1>1, <1>2, <1>5, GrantsThere DEF TablesOk
  <2>3. /\ userRoles' \subseteq User \X Role /\ \A x \in userRoles' : Live(x[2])'
        /\ groupRoles' \subseteq Role /\ \A x \in groupRoles' : Live(x)'
    BY <1>2, <1>5 DEF TablesOk
  <2> QED
    BY <1>4, <2>1, <2>2, <2>3 DEF TablesOk
<1>8. ParentOf' = [ParentOf EXCEPT ![r] = None]
  <2>1. \A x \in Role : Parent(x)' = IF x = r THEN None ELSE Parent(x)
    BY <1>1, <1>4, <1>5 DEF Parent
  <2> QED
    BY <1>1, <2>1 DEF ParentOf
<1> QED
  BY <1>1, <1>2, <1>6, <1>7, <1>8 DEF r

LEMMA SetRolesClearJob ==
  ASSUME TablesOk, JobsOk, NEW e \in Editor, SetRolesClear(e)
  PROVE  /\ TablesOk' /\ JobsOk' /\ ParentOf' = ParentOf /\ job'[e].op = "assign"
         /\ \A x \in Editor \ {e} : job'[x] = job[x]
         /\ userRoles' \subseteq userRoles /\ UNCHANGED <<groupRoles, kept, overlapped, key>>
<1>1. PICK u \in User, S \in SUBSET {r \in Role : Live(r)} :
       /\ userRoles' = {x \in userRoles : x[1] # u}
       /\ job' = [job EXCEPT ![e] = [Idle EXCEPT !.op = "assign", !.at = "cleared", !.u = u, !.set = S]]
  BY DEF SetRolesClear
<1>2. UNCHANGED <<role, bound, groupRoles>> /\ UNCHANGED <<groupRoles, kept, overlapped, key>>
  BY DEF SetRolesClear
<1> DEFINE k == [Idle EXCEPT !.op = "assign", !.at = "cleared", !.u = u, !.set = S]
<1>3. k \in Job /\ k.op = "assign" /\ k.u = u /\ k.set = S
  BY GrantsThere DEF Idle, Job
<1>4. job' = [job EXCEPT ![e] = k]
  BY <1>1
<1> HIDE DEF k
<1>5. JobOk(k)
  BY <1>3 DEF JobOk
<1>6. /\ bound' \in [Role -> Grants] /\ \A r \in Role : ~ Live(r) => bound'[r] = Bare
      /\ userRoles' \subseteq User \X Role /\ \A x \in userRoles' : Live(x[2])
      /\ groupRoles' \subseteq Role /\ \A r \in groupRoles' : Live(r)
  BY <1>1, <1>2 DEF TablesOk
<1>7. TablesOk' /\ JobsOk' /\ ParentOf' = ParentOf /\ job'[e] = k /\ \A x \in Editor \ {e} : job'[x] = job[x]
  BY <1>2, <1>3, <1>4, <1>5, <1>6, HoldingJob
<1> QED
  BY <1>1, <1>2, <1>3, <1>7

LEMMA SetRolesAddJob ==
  ASSUME TablesOk, JobsOk, NEW e \in Editor, SetRolesAdd(e)
  PROVE  /\ TablesOk' /\ JobsOk' /\ ParentOf' = ParentOf /\ job'[e] = Idle
         /\ job[e].op = "assign" /\ job[e].u \in User /\ job[e].set \subseteq Role
         /\ userRoles' = userRoles \cup {<<job[e].u, r>> : r \in job[e].set}
         /\ \A x \in Editor \ {e} :
              /\ job'[x].op = job[x].op /\ job'[x].r = job[x].r /\ job'[x].parent = job[x].parent
              /\ job'[x].late \/ (job'[x] = job[x] /\ (job[x].op = "delete" => job[x].r \notin job[e].set))
         /\ UNCHANGED <<groupRoles, kept, overlapped, key>>
<1> DEFINE mark(x) == IF job[x].op = "delete" /\ job[x].r \in job[e].set THEN [job[x] EXCEPT !.late = TRUE] ELSE job[x]
<1>1. /\ job[e].op = "assign" /\ Assignable(job[e].set)
      /\ userRoles' = userRoles \cup {<<job[e].u, r>> : r \in job[e].set}
      /\ job' = [x \in Editor |-> IF x = e THEN Idle ELSE mark(x)]
      /\ UNCHANGED <<role, bound>> /\ UNCHANGED <<groupRoles, kept, overlapped, key>>
  BY DEF SetRolesAdd, Doing
<1>2. job[e].u \in User /\ job[e].set \subseteq Role
  BY <1>1 DEF JobsOk, JobOk
<1>3. ASSUME NEW x \in Editor
      PROVE  /\ mark(x) \in Job /\ mark(x).op = job[x].op /\ mark(x).r = job[x].r /\ mark(x).parent = job[x].parent
             /\ mark(x).at = job[x].at /\ mark(x).u = job[x].u /\ mark(x).set = job[x].set
             /\ mark(x).late \/ (mark(x) = job[x] /\ (job[x].op = "delete" => job[x].r \notin job[e].set))
  <2>1. job[x] \in Job
    BY DEF JobsOk
  <2>2. CASE job[x].op = "delete" /\ job[x].r \in job[e].set
    <3>0. PICK j \in Job : j = job[x]
      BY <2>1
    <3>1. PICK m : m = [j EXCEPT !.late = TRUE] /\ mark(x) = m
      BY <2>2, <3>0
    <3>2. m \in Job /\ m.late
      BY <3>1 DEF Job
    <3>3. m.op = j.op /\ m.r = j.r /\ m.parent = j.parent /\ m.at = j.at /\ m.u = j.u /\ m.set = j.set
      BY <3>1 DEF Job
    <3> HIDE DEF mark
    <3> QED
      BY <3>0, <3>1, <3>2, <3>3
  <2>3. CASE ~ (job[x].op = "delete" /\ job[x].r \in job[e].set)
    BY <2>1, <2>3
  <2> QED
    BY <2>2, <2>3
<1> HIDE DEF mark
<1>4. job' \in [Editor -> Job] /\ job'[e] = Idle /\ \A x \in Editor \ {e} : job'[x] = mark(x)
  BY <1>1, <1>3, IdleIsFine
<1>5. ASSUME NEW x \in Editor, NEW j, j = job'[x] PROVE JobOk(j)'
  <2>1. CASE x = e
    BY <1>4, <1>5, <2>1, IdleIsFine
  <2>2. CASE x # e
    <3>1. JobOk(job[x]) /\ j.op = job[x].op /\ j.r = job[x].r /\ j.parent = job[x].parent
          /\ j.at = job[x].at /\ j.u = job[x].u /\ j.set = job[x].set
      BY <1>3, <1>4, <1>5, <2>2 DEF JobsOk
    <3> QED
      BY <1>1, <3>1 DEF JobOk, Live, Born
  <2> QED
    BY <2>1, <2>2
<1>6. JobsOk'
  <2>1. \A x \in Editor : JobOk(job[x])'
    BY <1>5 DEF JobOk, Live, Born
  <2> QED
    BY <1>4, <2>1 DEF JobsOk
<1>7. TablesOk'
  <2>1. userRoles' \subseteq User \X Role /\ \A x \in userRoles' : Live(x[2])
    BY <1>1, <1>2 DEF TablesOk, Assignable
  <2> QED
    BY <1>1, <2>1 DEF TablesOk, Live, Born
<1>8. ParentOf' = ParentOf
  BY <1>1 DEF ParentOf, Parent, Live
<1> QED
  BY <1>1, <1>2, <1>3, <1>4, <1>6, <1>7, <1>8

LEMMA FailJob ==
  ASSUME TablesOk, JobsOk, NEW e \in Editor, Fail(e)
  PROVE  /\ TablesOk' /\ JobsOk' /\ ParentOf' = ParentOf /\ job'[e] = Idle /\ \A x \in Editor \ {e} : job'[x] = job[x]
         /\ UNCHANGED <<userRoles, groupRoles, kept, overlapped, key>>
<1>1. /\ UNCHANGED <<role, bound, userRoles, groupRoles>> /\ UNCHANGED <<userRoles, groupRoles, kept, overlapped, key>>
      /\ job' = [job EXCEPT ![e] = Idle]
  BY DEF Fail, Done, tables
<1>2. TablesOk' /\ JobsOk' /\ job'[e] = Idle /\ \A x \in Editor \ {e} : job'[x] = job[x]
  BY <1>1, IdleIsFine, PlainJob
<1> QED
  BY <1>1, <1>2 DEF ParentOf, Parent, Live

\* What is left of Next changes neither the tables nor the edits.
LEMMA OtherSteps ==
  ASSUME (\E n \in Asked : Compute(n)) \/ (\E m \in news : Hear(m)) \/ KeyAction \/ Tick
  PROVE  UNCHANGED <<role, bound, userRoles, groupRoles, job, overlapped, kept>>
<1>1. CASE \E n \in Asked : Compute(n)
  BY <1>1 DEF Compute, Begin, AddGroups, Climb, Keep, tables, past
<1>2. CASE \E m \in news : Hear(m)
  BY <1>2 DEF Hear, tables
<1>3. CASE KeyAction
  BY <1>3 DEF KeyAction, CreateKey, RevokeKey, tables, past
<1>4. CASE Tick
  BY <1>4 DEF Tick, tables
<1> QED
  BY <1>1, <1>2, <1>3, <1>4

-----------------------------------------------------------------------------
(* Loops, counts and keys *)

LEMMA AboveIsUp ==
  ASSUME TablesOk
  PROVE  /\ ParentOf \in Parents
         /\ \A r \in Role : Above(r) = Up(ParentOf, r) /\ (InLoop(r) <=> Loops(ParentOf, r))
<1>1. ParentOf \in Parents /\ \A r \in Role : ParentOf[r] = Parent(r) /\ Parent(r) \in Role \cup {None}
  BY DEF TablesOk, RoleRow, ParentOf, Parents, Parent
<1>2. ASSUME NEW r \in Role PROVE Above(r) = Up(ParentOf, r)
  <2>1. ASSUME NEW S \in SUBSET Role PROVE (\E x \in S : Parent(x) \notin S \cup {None}) <=> ~ Shut(ParentOf, S)
    BY <1>1 DEF Shut
  <2> QED
    BY <2>1 DEF Above, Up
<1>3. ASSUME NEW r \in Role PROVE InLoop(r) <=> Loops(ParentOf, r)
  <2>1. CASE Parent(r) = None
    BY <1>1, <2>1 DEF InLoop, Loops
  <2>2. CASE Parent(r) # None
    <3>1. PICK q \in Role : q = Parent(r) /\ q = ParentOf[r]
      BY <1>1, <2>2
    <3>2. Above(q) = Up(ParentOf, q)
      BY <1>2
    <3> QED
      BY <3>1, <3>2, <2>2 DEF InLoop, Loops
  <2> QED
    BY <2>1, <2>2
<1> QED
  BY <1>1, <1>2, <1>3

\* The roles that somebody refers to are there, so that nothing new is above them.
LEMMA UpIsBorn ==
  ASSUME TablesOk, NEW r \in Role, Born(r)
  PROVE  \A x \in Up(ParentOf, r) : x \in Role /\ Born(x)
<1> DEFINE S == {x \in Role : Born(x)}
<1>1. ParentOf \in Parents
  BY AboveIsUp
<1>2. Shut(ParentOf, S)
  BY DEF Shut, ParentOf, Parent, TablesOk, RoleRow
<1>3. Up(ParentOf, r) \subseteq S
  BY <1>1, <1>2, UpLeast
<1> QED
  BY <1>3

\* What the check of a move found is so until the move is made, unless moves overlap.
ClearMoves ==
  \A e \in Editor : Moving(e) => job[e].r \in overlapped \/ job[e].r \notin Up(ParentOf, job[e].parent)
OverlapsAreNoted ==
  \A e, f \in Editor : e # f /\ Moving(e) /\ Moving(f) => job[e].r \in overlapped
RacesLoop == \A r \in Role : Loops(ParentOf, r) => Up(ParentOf, r) \cap overlapped # {}

\* What a deletion has counted is still so, unless it is late.
CountsHold ==
  \A e \in Editor : job[e].op = "delete" => job[e].late \/ (Holders(job[e].r) = {} /\ job[e].r \notin groupRoles)

RolesInv ==
  /\ TablesOk /\ JobsOk
  /\ ClearMoves /\ OverlapsAreNoted /\ RacesLoop
  /\ CountsHold /\ kept
  /\ key \in [Key -> [state : {"none", "live", "revoked"}, by : User \cup {None}]]

LEMMA InitRoles == Init => RolesInv
<1> SUFFICES ASSUME Init PROVE RolesInv
  OBVIOUS
<1>1. TablesOk /\ JobsOk
  BY InitTables
<1>2. \A e \in Editor : job[e] = Idle
  BY DEF Init
<1>3. ClearMoves /\ OverlapsAreNoted /\ CountsHold
  BY <1>2 DEF ClearMoves, OverlapsAreNoted, CountsHold, Moving, Idle
<1>4. RacesLoop
  <2>1. PICK top \in Role \cup {None} :
         /\ top # Low
         /\ role = [r \in Role |-> IF r = Admin THEN [state |-> "live", parent |-> None, sys |-> TRUE]
                                   ELSE IF "create" \in scene THEN Unborn
                                   ELSE [state |-> "live", parent |-> IF r = Low THEN top ELSE None, sys |-> FALSE]]
    BY DEF Init
  <2>2. ASSUME NEW r \in Role PROVE Parent(r) = None \/ (r = Low /\ Parent(r) = top)
    <3>1. CASE r = Admin
      BY <2>1, <3>1 DEF Parent, Live
    <3>2. CASE r # Admin /\ "create" \in scene
      BY <2>1, <3>2 DEF Parent, Live, Unborn
    <3>3. CASE r # Admin /\ "create" \notin scene
      <4>1. role[r].parent = IF r = Low THEN top ELSE None
        BY <2>1, <3>3
      <4> QED
        BY <4>1 DEF Parent
    <3> QED
      BY <3>1, <3>2, <3>3
  <2>3. SUFFICES ASSUME NEW r \in Role, Loops(ParentOf, r) PROVE FALSE
    BY DEF RacesLoop
  <2>4. /\ ParentOf \in Parents /\ ParentOf[r] # None /\ ParentOf[r] = Parent(r)
        /\ r = Low /\ Parent(r) = top /\ top \in Role /\ r \in Up(ParentOf, top)
    BY <1>1, <2>2, <2>3, AboveIsUp DEF Loops, ParentOf
  <2>5. ParentOf[top] = None
    BY <2>1, <2>2, <2>4 DEF ParentOf
  <2>6. Up(ParentOf, top) = {top}
    BY <2>4, <2>5, UpUnfolds
  <2> QED
    BY <2>1, <2>4, <2>6
<1>5. kept /\ key \in [Key -> [state : {"none", "live", "revoked"}, by : User \cup {None}]]
  BY DEF Init, NoKey
<1> QED
  BY <1>1, <1>3, <1>4, <1>5 DEF RolesInv

\* A loop that comes of one row's new parent goes through that row.
LEMMA RowMoves ==
  ASSUME TablesOk, TablesOk', RacesLoop, UNCHANGED overlapped, NEW r \in Role, NEW p \in Role \cup {None},
         ParentOf' = [ParentOf EXCEPT ![r] = p],
         p = None \/ r \in overlapped \/ r \notin Up(ParentOf, p)
  PROVE  RacesLoop'
<1>1. PICK P \in Parents : P = ParentOf
  BY AboveIsUp
<1>2. ParentOf' \in Parents
  BY <1>1 DEF Parents
<1>3. PICK Q \in Parents : Q = ParentOf' /\ Moved(P, Q, r, p)
  BY <1>1, <1>2 DEF Parents, Moved
<1>4. ASSUME NEW x \in Role, Loops(Q, x) PROVE Up(Q, x) \cap overlapped # {}
  <2>0. /\ r \notin Up(Q, x) => Loops(P, x) /\ Up(P, x) = Up(Q, x)
        /\ p = None \/ r \notin Up(P, p) => r \notin Up(Q, x)
    BY <1>1, <1>3, <1>4, LoopMoves
  <2>1. CASE r \notin Up(Q, x)
    <3>1. Loops(P, x) /\ Up(P, x) = Up(Q, x)
      BY <2>0, <2>1
    <3> QED
      BY <1>1, <3>1 DEF RacesLoop
  <2>2. CASE r \in Up(Q, x)
    <3>1. ~ (p = None \/ r \notin Up(P, p))
      BY <2>0, <2>2
    <3> QED
      BY <1>1, <2>2, <3>1
  <2> QED
    BY <2>1, <2>2
<1>5. \A x \in Role : Loops(ParentOf', x) => Up(ParentOf', x) \cap overlapped' # {}
  BY <1>3, <1>4
<1> QED
  BY <1>5 DEF RacesLoop

Trees == ClearMoves /\ OverlapsAreNoted /\ RacesLoop

\* The tree of roles stays and nobody starts to move one.
LEMMA TreeStays ==
  ASSUME Trees, ParentOf' = ParentOf, UNCHANGED overlapped,
         \A x \in Editor : job'[x].op = "put" /\ job'[x].parent \notin {Same, None} =>
                             job'[x].op = job[x].op /\ job'[x].r = job[x].r /\ job'[x].parent = job[x].parent
  PROVE  Trees'
<1>1. ASSUME NEW x \in Editor, Moving(x)'
      PROVE  Moving(x) /\ job'[x].r = job[x].r /\ job'[x].parent = job[x].parent
  BY <1>1 DEF Moving
<1>2. ClearMoves'
  <2>1. ASSUME NEW x \in Editor, Moving(x)'
        PROVE  job'[x].r \in overlapped \/ job'[x].r \notin Up(ParentOf, job'[x].parent)
    <3>1. job[x].r \in overlapped \/ job[x].r \notin Up(ParentOf, job[x].parent)
      BY <1>1, <2>1 DEF Trees, ClearMoves
    <3> QED
      BY <1>1, <2>1, <3>1
  <2> QED
    BY <2>1 DEF ClearMoves
<1>3. OverlapsAreNoted'
  BY <1>1 DEF Trees, OverlapsAreNoted
<1>4. RacesLoop'
  BY DEF Trees, RacesLoop
<1> QED
  BY <1>2, <1>3, <1>4 DEF Trees

\* A role is counted or let go, or what holds roles gets less.
LEMMA CountsStay ==
  ASSUME CountsHold, userRoles' \subseteq userRoles, groupRoles' \subseteq groupRoles, NEW e \in Editor,
         \A x \in Editor \ {e} : job'[x] = job[x],
         job'[e].op = "delete" => Holders(job'[e].r) = {} /\ job'[e].r \notin groupRoles
  PROVE  CountsHold'
<1>1. ASSUME NEW x \in Editor, job'[x].op = "delete"
      PROVE  \/ job'[x].late
             \/ ~ (\E u \in User : <<u, job'[x].r>> \in userRoles') /\ job'[x].r \notin groupRoles'
  <2>1. CASE x = e
    BY <1>1, <2>1 DEF Holders
  <2>2. CASE x # e
    <3>1. job[x].late \/ (Holders(job[x].r) = {} /\ job[x].r \notin groupRoles)
      BY <1>1, <2>2 DEF CountsHold
    <3>2. job'[x] = job[x]
      BY <2>2
    <3> QED
      BY <3>1, <3>2 DEF Holders
  <2> QED
    BY <2>1, <2>2
<1> QED
  BY <1>1 DEF CountsHold, Holders

LEMMA PutCheckRoles ==
  ASSUME RolesInv, NEW e \in Editor, PutCheck(e)
  PROVE  TablesOk' /\ JobsOk' /\ Trees' /\ CountsHold' /\ kept'
<1>0. TablesOk /\ JobsOk /\ Trees /\ CountsHold /\ kept
  BY DEF RolesInv, Trees
<1>1. /\ TablesOk' /\ JobsOk' /\ UNCHANGED <<tables, key, answers, quiet, doubt, kept>>
  BY <1>0, PutCheckJob
<1>2. PICK r \in Role, p \in Role \cup {None, Same} :
        /\ Live(r) /\ (p \in Role => Live(p) /\ ~ Looping(p, r))
        /\ job'[e].op = "put" /\ job'[e].at = "checked" /\ job'[e].r = r /\ job'[e].parent = p
        /\ \A x \in Editor \ {e} : job'[x] = job[x]
        /\ overlapped' = IF p \in {Same, None} THEN overlapped
                         ELSE overlapped \cup UNION {{r, job[x].r} : x \in {y \in Editor \ {e} : Moving(y)}}
  BY <1>0, PutCheckJob
<1>3. UNCHANGED <<role, userRoles, groupRoles, kept>>
  BY <1>1 DEF tables
<1>4. ParentOf' = ParentOf
  BY <1>3 DEF ParentOf, Parent, Live
<1>5. CountsHold'
  BY <1>0, <1>2, <1>3, CountsStay
<1>6. CASE p \in {Same, None}
  BY <1>0, <1>1, <1>2, <1>3, <1>4, <1>5, <1>6, TreeStays
<1>7. CASE p \notin {Same, None}
  <2>1. p \in Role /\ r \notin Up(ParentOf, p) /\ overlapped \subseteq overlapped'
    BY <1>0, <1>2, <1>7, AboveIsUp DEF Looping
  <2>2. \A x \in Editor \ {e} : Moving(x) => r \in overlapped' /\ job[x].r \in overlapped'
    BY <1>2, <1>7
  <2>3. ASSUME NEW x \in Editor \ {e}, Moving(x)' PROVE Moving(x) /\ job'[x].r = job[x].r /\ job'[x].parent = job[x].parent
    BY <1>2, <2>3 DEF Moving
  <2>4. ClearMoves'
    <3>1. ASSUME NEW x \in Editor, Moving(x)'
          PROVE  job'[x].r \in overlapped' \/ job'[x].r \notin Up(ParentOf, job'[x].parent)
      <4>1. CASE x = e
        BY <1>2, <2>1, <4>1
      <4>2. CASE x # e
        BY <2>2, <2>3, <3>1, <4>2
      <4> QED
        BY <4>1, <4>2
    <3> QED
      BY <1>4, <3>1 DEF ClearMoves
  <2>5. OverlapsAreNoted'
    <3>1. ASSUME NEW x \in Editor, NEW y \in Editor, x # y, Moving(x)', Moving(y)'
          PROVE  job'[x].r \in overlapped'
      <4>1. CASE x = e
        BY <1>2, <2>2, <2>3, <3>1, <4>1
      <4>2. CASE x # e
        BY <2>2, <2>3, <3>1, <4>2
      <4> QED
        BY <4>1, <4>2
    <3> QED
      BY <3>1 DEF OverlapsAreNoted
  <2>6. RacesLoop'
    BY <1>0, <1>4, <2>1 DEF Trees, RacesLoop
  <2> QED
    BY <1>0, <1>1, <1>3, <1>5, <2>4, <2>5, <2>6 DEF Trees
<1> QED
  BY <1>6, <1>7

LEMMA PutCommitRoles ==
  ASSUME RolesInv, NEW e \in Editor, PutCommit(e)
  PROVE  TablesOk' /\ JobsOk' /\ Trees' /\ CountsHold' /\ kept'
<1>0. TablesOk /\ JobsOk /\ Trees /\ CountsHold /\ kept
  BY DEF RolesInv, Trees
<1>1. /\ TablesOk' /\ JobsOk' /\ job'[e] = Idle /\ \A x \in Editor \ {e} : job'[x] = job[x]
      /\ Live(job[e].r) /\ UNCHANGED <<userRoles, groupRoles>>
      /\ ParentOf' = IF job[e].parent = Same THEN ParentOf ELSE [ParentOf EXCEPT ![job[e].r] = job[e].parent]
  BY <1>0, PutCommitJob
<1>2. UNCHANGED <<overlapped, kept>> /\ job[e].op = "put"
  BY DEF PutCommit, Changed, Doing
<1>3. CountsHold'
  BY <1>0, <1>1, CountsStay, IdleIsFine
<1>4. \A x \in Editor : job'[x].op = "put" => x # e /\ job'[x] = job[x]
  BY <1>1, IdleIsFine
<1>5. CASE job[e].parent = Same
  BY <1>0, <1>1, <1>2, <1>3, <1>4, <1>5, TreeStays
<1>6. CASE job[e].parent # Same
  <2>1. PICK r \in Role, p \in Role \cup {None} : r = job[e].r /\ p = job[e].parent /\ ParentOf' = [ParentOf EXCEPT ![r] = p]
    BY <1>0, <1>1, <1>6 DEF Live, JobsOk, Job
  <2>2. p = None \/ Moving(e)
    BY <1>2, <1>6, <2>1 DEF Moving
  <2>3. RacesLoop'
    <3>1. p = None \/ r \in overlapped \/ r \notin Up(ParentOf, p)
      BY <1>0, <2>1, <2>2 DEF Trees, ClearMoves
    <3> QED
      BY <1>0, <1>1, <1>2, <2>1, <3>1, RowMoves DEF Trees
  <2>4. OverlapsAreNoted'
    BY <1>0, <1>2, <1>4 DEF Trees, OverlapsAreNoted, Moving
  <2>5. ClearMoves'
    <3>1. ASSUME NEW x \in Editor, Moving(x)'
          PROVE  job'[x].r \in overlapped \/ job'[x].r \notin Up(ParentOf', job'[x].parent)
      <4>1. x # e /\ job'[x] = job[x] /\ Moving(x)
        BY <1>4, <3>1 DEF Moving
      <4>2. CASE p # None
        BY <1>0, <2>2, <4>1, <4>2 DEF Trees, OverlapsAreNoted
      <4>3. CASE p = None
        <5>1. PICK q \in Role : q = job[x].parent
          BY <1>0, <4>1 DEF Moving, JobsOk, Job
        <5>2. PICK P \in Parents : P = ParentOf
          BY <1>0, AboveIsUp
        <5>3. PICK Q \in Parents : Q = ParentOf' /\ \A y \in Role : Q[y] \in {P[y], None}
          BY <2>1, <4>3, <5>2 DEF Parents
        <5>4. Up(Q, q) \subseteq Up(P, q)
          BY <5>2, <5>3, UpLess
        <5>5. job[x].r \in overlapped \/ job[x].r \notin Up(P, q)
          BY <1>0, <4>1, <5>1, <5>2 DEF Trees, ClearMoves
        <5> QED
          BY <4>1, <5>1, <5>3, <5>4, <5>5
      <4> QED
        BY <4>2, <4>3
    <3> QED
      BY <1>2, <3>1 DEF ClearMoves
  <2> QED
    BY <1>0, <1>1, <1>2, <1>3, <2>3, <2>4, <2>5 DEF Trees
<1> QED
  BY <1>5, <1>6

LEMMA CreateRowRoles ==
  ASSUME RolesInv, NEW e \in Editor, CreateRow(e)
  PROVE  TablesOk' /\ JobsOk' /\ Trees' /\ CountsHold' /\ kept'
<1>0. TablesOk /\ JobsOk /\ Trees /\ CountsHold /\ kept
  BY DEF RolesInv, Trees
<1>1. /\ TablesOk' /\ JobsOk' /\ job'[e].op = "create" /\ \A x \in Editor \ {e} : job'[x] = job[x]
      /\ UNCHANGED <<userRoles, groupRoles, kept, overlapped, key>>
  BY <1>0, CreateRowJob
<1>2. PICK r \in Role, p \in Role \cup {None} :
        ~ Born(r) /\ (p \in Role => Live(p)) /\ ParentOf' = [ParentOf EXCEPT ![r] = p]
  BY <1>0, CreateRowJob
<1>3. CountsHold'
  BY <1>0, <1>1, CountsStay
<1>4. \A x \in Editor : job'[x].op = "put" => x # e /\ job'[x] = job[x]
  BY <1>1
<1>5. ASSUME NEW q \in Role, Born(q) PROVE r \notin Up(ParentOf, q)
  BY <1>0, <1>2, <1>5, UpIsBorn
<1>6. RacesLoop'
  <2>1. p = None \/ r \notin Up(ParentOf, p)
    BY <1>2, <1>5 DEF Live, Born
  <2> QED
    BY <1>0, <1>1, <1>2, <2>1, RowMoves DEF Trees
<1>7. OverlapsAreNoted'
  BY <1>0, <1>1, <1>4 DEF Trees, OverlapsAreNoted, Moving
<1>8. ClearMoves'
  <2>1. ASSUME NEW x \in Editor, Moving(x)'
        PROVE  job'[x].r \in overlapped \/ job'[x].r \notin Up(ParentOf', job'[x].parent)
    <3>1. x # e /\ job'[x] = job[x] /\ Moving(x)
      BY <1>4, <2>1 DEF Moving
    <3>2. PICK q \in Role : q = job[x].parent /\ Born(q)
      BY <1>0, <3>1 DEF Moving, JobsOk, JobOk, Job
    <3>3. PICK P \in Parents : P = ParentOf
      BY <1>0, AboveIsUp
    <3>4. PICK Q \in Parents : Q = ParentOf' /\ \A y \in Role \ {r} : Q[y] = P[y]
      BY <1>2, <3>3 DEF Parents
    <3>5. \A y \in Up(P, q) : Q[y] = P[y]
      BY <1>5, <3>2, <3>3, <3>4, UpMember
    <3>6. Up(Q, q) = Up(P, q)
      BY <3>3, <3>4, <3>5, UpSame
    <3>7. job[x].r \in overlapped \/ job[x].r \notin Up(P, q)
      BY <1>0, <3>1, <3>2, <3>3 DEF Trees, ClearMoves
    <3> QED
      BY <3>1, <3>2, <3>4, <3>6, <3>7
  <2> QED
    BY <1>1, <2>1 DEF ClearMoves
<1> QED
  BY <1>0, <1>1, <1>3, <1>6, <1>7, <1>8 DEF Trees

LEMMA DeleteRowRoles ==
  ASSUME RolesInv, NEW e \in Editor, DeleteRow(e)
  PROVE  TablesOk' /\ JobsOk' /\ Trees' /\ CountsHold' /\ kept'
<1>0. TablesOk /\ JobsOk /\ Trees /\ CountsHold /\ kept
  BY DEF RolesInv, Trees
<1>1. /\ TablesOk' /\ JobsOk' /\ job'[e] = Idle /\ job[e].op = "delete" /\ job[e].r \in Role
      /\ \A x \in Editor \ {e} : job'[x] = job[x]
      /\ ParentOf' = [ParentOf EXCEPT ![job[e].r] = None]
      /\ userRoles' \subseteq userRoles /\ groupRoles' \subseteq groupRoles
      /\ UNCHANGED <<overlapped, key>>
  BY <1>0, DeleteRowJob
<1>2. kept'
  <2>1. kept' = (kept /\ (job[e].late \/ (Holders(job[e].r) = {} /\ job[e].r \notin groupRoles)))
    BY <1>0, DeleteRowJob
  <2>2. job[e].late \/ (Holders(job[e].r) = {} /\ job[e].r \notin groupRoles)
    BY <1>0, <1>1 DEF CountsHold
  <2> QED
    BY <1>0, <2>1, <2>2, Zenon
<1>3. CountsHold'
  BY <1>0, <1>1, CountsStay, IdleIsFine
<1>4. \A x \in Editor : job'[x].op = "put" => x # e /\ job'[x] = job[x]
  BY <1>1, IdleIsFine
<1>5. RacesLoop'
  BY <1>0, <1>1, RowMoves DEF Trees
<1>6. OverlapsAreNoted'
  BY <1>0, <1>1, <1>4 DEF Trees, OverlapsAreNoted, Moving
<1>7. ClearMoves'
  <2>1. ASSUME NEW x \in Editor, Moving(x)'
        PROVE  job'[x].r \in overlapped \/ job'[x].r \notin Up(ParentOf', job'[x].parent)
    <3>1. x # e /\ job'[x] = job[x] /\ Moving(x)
      BY <1>4, <2>1 DEF Moving
    <3>2. PICK q \in Role : q = job[x].parent
      BY <1>0, <3>1 DEF Moving, JobsOk, Job
    <3>3. PICK P \in Parents : P = ParentOf
      BY <1>0, AboveIsUp
    <3>4. PICK Q \in Parents : Q = ParentOf' /\ \A y \in Role : Q[y] \in {P[y], None}
      BY <1>1, <3>3 DEF Parents
    <3>5. Up(Q, q) \subseteq Up(P, q)
      BY <3>3, <3>4, UpLess
    <3>6. job[x].r \in overlapped \/ job[x].r \notin Up(P, q)
      BY <1>0, <3>1, <3>2, <3>3 DEF Trees, ClearMoves
    <3> QED
      BY <3>1, <3>2, <3>4, <3>5, <3>6
  <2> QED
    BY <1>1, <2>1 DEF ClearMoves
<1> QED
  BY <1>0, <1>1, <1>2, <1>3, <1>5, <1>6, <1>7 DEF Trees

LEMMA SetRolesAddRoles ==
  ASSUME RolesInv, NEW e \in Editor, SetRolesAdd(e)
  PROVE  TablesOk' /\ JobsOk' /\ Trees' /\ CountsHold' /\ kept'
<1>0. TablesOk /\ JobsOk /\ Trees /\ CountsHold /\ kept
  BY DEF RolesInv, Trees
<1>1. /\ TablesOk' /\ JobsOk' /\ ParentOf' = ParentOf /\ job'[e] = Idle
      /\ userRoles' = userRoles \cup {<<job[e].u, r>> : r \in job[e].set}
      /\ UNCHANGED <<groupRoles, kept, overlapped, key>>
  BY <1>0, SetRolesAddJob
<1>2. \A x \in Editor \ {e} :
        /\ job'[x].op = job[x].op /\ job'[x].r = job[x].r /\ job'[x].parent = job[x].parent
        /\ job'[x].late \/ (job'[x] = job[x] /\ (job[x].op = "delete" => job[x].r \notin job[e].set))
  BY <1>0, SetRolesAddJob
<1>3. \A x \in Editor : job'[x].op = "put" =>
         job'[x].op = job[x].op /\ job'[x].r = job[x].r /\ job'[x].parent = job[x].parent
  BY <1>1, <1>2, IdleIsFine
<1>4. Trees'
  BY <1>0, <1>1, <1>3, TreeStays
<1>5. CountsHold'
  <2>1. ASSUME NEW x \in Editor, job'[x].op = "delete", ~ job'[x].late
        PROVE  ~ (\E u \in User : <<u, job'[x].r>> \in userRoles') /\ job'[x].r \notin groupRoles'
    <3>1. x # e /\ job'[x] = job[x] /\ job[x].op = "delete" /\ job[x].r \notin job[e].set /\ ~ job[x].late
      BY <1>1, <1>2, <2>1, IdleIsFine
    <3>2. Holders(job[x].r) = {} /\ job[x].r \notin groupRoles
      BY <1>0, <3>1 DEF CountsHold
    <3> QED
      BY <1>1, <3>1, <3>2 DEF Holders
  <2> QED
    BY <2>1 DEF CountsHold, Holders
<1> QED
  BY <1>0, <1>1, <1>4, <1>5

LEMMA OtherEditsRoles ==
  ASSUME RolesInv, NEW e \in Editor,
         PutWrite(e) \/ CreateBind(e) \/ DeleteCount(e) \/ SetRolesClear(e) \/ Fail(e)
  PROVE  TablesOk' /\ JobsOk' /\ Trees' /\ CountsHold' /\ kept'
<1>0. TablesOk /\ JobsOk /\ Trees /\ CountsHold /\ kept
  BY DEF RolesInv, Trees
<1>1. ASSUME TablesOk' /\ JobsOk' /\ ParentOf' = ParentOf, \A x \in Editor \ {e} : job'[x] = job[x],
             userRoles' \subseteq userRoles /\ UNCHANGED <<groupRoles, kept, overlapped>>,
             job'[e].op = "put" => job'[e].r = job[e].r /\ job'[e].parent = job[e].parent /\ job[e].op = "put",
             job'[e].op = "delete" => Holders(job'[e].r) = {} /\ job'[e].r \notin groupRoles
      PROVE  TablesOk' /\ JobsOk' /\ Trees' /\ CountsHold' /\ kept'
  <2>1. CountsHold'
    BY <1>0, <1>1, CountsStay
  <2>2. \A x \in Editor : job'[x].op = "put" =>
          job'[x].op = job[x].op /\ job'[x].r = job[x].r /\ job'[x].parent = job[x].parent
    BY <1>1
  <2>3. Trees'
    BY <1>0, <1>1, <2>2, TreeStays
  <2> QED
    BY <1>0, <1>1, <2>1, <2>3
<1>2. CASE PutWrite(e)
  <2>1. /\ TablesOk' /\ JobsOk' /\ job'[e].op = "put" /\ job'[e].r = job[e].r /\ job'[e].parent = job[e].parent
        /\ \A x \in Editor \ {e} : job'[x] = job[x]
    BY <1>0, <1>2, PutWriteJob
  <2>2. UNCHANGED <<role, userRoles, groupRoles, kept, overlapped>> /\ job[e].op = "put"
    BY <1>2 DEF PutWrite, tables, Doing
  <2>3. ParentOf' = ParentOf
    BY <2>2 DEF ParentOf, Parent, Live
  <2> QED
    BY <1>1, <2>1, <2>2, <2>3
<1>3. CASE CreateBind(e)
  BY <1>0, <1>1, <1>3, CreateBindJob, IdleIsFine
<1>4. CASE DeleteCount(e)
  BY <1>0, <1>1, <1>4, DeleteCountJob
<1>5. CASE SetRolesClear(e)
  BY <1>0, <1>1, <1>5, SetRolesClearJob
<1>6. CASE Fail(e)
  BY <1>0, <1>1, <1>6, FailJob, IdleIsFine
<1> QED
  BY <1>2, <1>3, <1>4, <1>5, <1>6

\* Keys are made by users: a key does not pass the gate.
KeysOk == key \in [Key -> [state : {"none", "live", "revoked"}, by : User \cup {None}]]

LEMMA KeysStep == KeysOk /\ Next => KeysOk'
<1> SUFFICES ASSUME KeysOk, Next PROVE KeysOk'
  OBVIOUS
<1>1. CASE KeyAction
  <2>1. PICK n \in Asked, b \in User \cup Key, k \in Key : CreateKey(n, b, k) \/ RevokeKey(n, b, k)
    BY <1>1 DEF KeyAction
  <2>2. CASE CreateKey(n, b, k)
    <3>1. b \in User /\ key' = [key EXCEPT ![k] = [state |-> "live", by |-> b]]
      BY <2>2 DEF CreateKey, MayManageKeys
    <3> QED
      BY <3>1 DEF KeysOk
  <2>3. CASE RevokeKey(n, b, k)
    <3>1. key' = [key EXCEPT ![k].state = "revoked"]
      BY <2>3 DEF RevokeKey
    <3> QED
      BY <3>1 DEF KeysOk
  <2> QED
    BY <2>1, <2>2, <2>3
<1>2. CASE ~ KeyAction
  <2>1. UNCHANGED key
    <3>1. CASE \E n \in Asked : Compute(n)
      BY <3>1 DEF Compute, Begin, AddGroups, Climb, Keep
    <3>2. CASE \E e \in Editor : Edit(e)
      BY <3>2 DEF Edit, PutCheck, PutWrite, PutCommit, CreateRow, CreateBind, DeleteCount, DeleteRow,
         SetRolesClear, SetRolesAdd, Fail
    <3>3. CASE (\E m \in news : Hear(m)) \/ Tick
      BY <3>3 DEF Hear, Tick
    <3> QED
      BY <1>2, <3>1, <3>2, <3>3 DEF Next
  <2> QED
    BY <2>1 DEF KeysOk
<1> QED
  BY <1>1, <1>2

LEMMA RolesStep == RolesInv /\ [Next]_vars => RolesInv'
<1> SUFFICES ASSUME RolesInv, [Next]_vars PROVE RolesInv'
  OBVIOUS
<1>1. CASE UNCHANGED <<role, bound, userRoles, groupRoles, job, overlapped, kept>>
  <2>1. TablesOk' /\ JobsOk' /\ ParentOf' = ParentOf
    BY <1>1 DEF RolesInv, TablesOk, JobsOk, JobOk, ParentOf, Parent, Live, Born
  <2>2. ClearMoves' /\ OverlapsAreNoted' /\ RacesLoop'
    BY <1>1, <2>1 DEF RolesInv, ClearMoves, OverlapsAreNoted, RacesLoop, Moving
  <2>3. CountsHold' /\ kept'
    BY <1>1 DEF RolesInv, CountsHold, Holders
  <2>4. KeysOk'
    BY KeysStep DEF RolesInv, KeysOk, vars
  <2> QED
    BY <2>1, <2>2, <2>3, <2>4 DEF RolesInv, KeysOk
<1>2. CASE \E e \in Editor : Edit(e)
  <2>1. PICK e \in Editor : Edit(e)
    BY <1>2
  <2>2. TablesOk' /\ JobsOk' /\ Trees' /\ CountsHold' /\ kept'
    BY <2>1, PutCheckRoles, PutCommitRoles, CreateRowRoles, DeleteRowRoles, SetRolesAddRoles, OtherEditsRoles DEF Edit
  <2>3. KeysOk'
    BY <1>2, KeysStep DEF Next, RolesInv, KeysOk
  <2> QED
    BY <2>2, <2>3 DEF RolesInv, Trees, KeysOk
<1>3. CASE UNCHANGED vars
  BY <1>1, <1>3 DEF vars, tables, past
<1> QED
  BY <1>1, <1>2, <1>3, OtherSteps DEF Next

LEMMA VarsOrNext == [NodeNext]_<<vars, options, sessions, log>> => [Next]_vars
  BY DEF NodeNext

\* Roles inherit in a loop only where two moves overlapped, no role that is held is deleted
\* under its holders unless an assignment came between the count and the DELETE, and no key
\* makes a key (RolesAreSound).
THEOREM RolesHold == NodeSpec => []RolesAreSound
<1>1. NodeInit => RolesInv
  BY InitRoles DEF NodeInit
<1>2. RolesInv /\ [NodeNext]_<<vars, options, sessions, log>> => RolesInv'
  BY RolesStep, VarsOrNext
<1>3. RolesInv => RolesAreSound
  <2> SUFFICES ASSUME RolesInv PROVE RolesAreSound
    OBVIOUS
  <2>1. LoopsNeedARace
    BY AboveIsUp DEF RolesInv, RacesLoop, LoopsNeedARace
  <2>2. NoRoleVanishes
    BY DEF RolesInv, NoRoleVanishes
  <2>3. KeysComeFromUsers
    BY AccessAssumption DEF RolesInv, KeysComeFromUsers, None
  <2> QED
    BY <2>1, <2>2, <2>3 DEF RolesAreSound
<1> QED
  BY <1>1, <1>2, <1>3, PTL DEF NodeSpec

-----------------------------------------------------------------------------
(* Answers *)

\* The roles that count for a user.
Reach(u) == UNION {Up(ParentOf, r) : r \in Direct(u) \cup ViaGroup(u)}

\* The answer g grants what the role binding h does.
Heard(g, h) == \A p \in Perm : h[p] <= g[p]

\* What is in g comes from the bindings b of the roles R.
Sourced(g, R, b) == \A p \in Perm : g[p] = 0 \/ \E r \in R : g[p] = b[r][p]

\* Right: from the roles R, and all they bind.
Right(g, R, b) == g \in Grants /\ Sourced(g, R, b) /\ \A s \in R : Heard(g, b[s])

\* Where the walk w is still to go; G are the roles of the user's group.
Ahead(w, G) == w.todo \cup ({w.at} \ {None}) \cup (IF w.phase = "groups" THEN G ELSE {})

\* A walk with R to cover, under the parents P, has not gone astray, and what it has not
\* heard is above something that it will come to.
OnTrack(w, R, P, b, G) ==
  /\ w.todo \subseteq R /\ w.seen \subseteq R /\ w.at \in R \cup {None} /\ w.got \in Grants
  /\ Sourced(w.got, R, b)
  /\ \A s \in R : Heard(w.got, b[s]) \/ \E x \in Ahead(w, G) : s \in Up(P, x)
  /\ \A x \in w.seen : Heard(w.got, b[x]) /\ P[x] \in w.seen \cup {w.at}
  /\ w.at = None => w.seen = {}

WalkRow == [u : User \cup {None}, phase : {"idle", "groups", "walk"}, todo : SUBSET Role, at : Role \cup {None},
            seen : SUBSET Role, got : Grants, slow : BOOLEAN]
Entry == [got : Grants, life : 0..Ttl]

Told(n, u) == \E m \in news : m.to = n /\ u \in m.us
Waits(u) == \E e \in Editor : Doing(e, "assign", "cleared") /\ job[e].u = u
Writing == \E e \in Editor : Doing(e, "put", "written")

\* Only the nodes that are asked walk and cache.
FreshShapes ==
  /\ scene \in Scenes /\ edits \in 0..MaxEdits /\ quiet \in 0..(Ttl + 1)
  /\ walk \in [Node -> WalkRow] /\ \A n \in Node : walk[n].phase # "idle" => n \in Asked /\ walk[n].u \in User
  /\ cache \in [Node -> [User -> Entry]] /\ \A n \in Node, u \in User : Cached(n, u) => n \in Asked
  /\ news \subseteq [to : Asked, us : SUBSET User]

\* A walk that began after the tables last changed, or was not doubted since, is on track.
WalksAreRight ==
  \A n \in Node, u \in User :
    /\ Walking(n, u)
    /\ \/ walk[n].slow /\ quiet > 1
       \/ ~ walk[n].slow /\ quiet > 0
       \/ <<n, u>> \notin doubt /\ ~ Waits(u)
    => OnTrack(walk[n], Reach(u), ParentOf, bound, ViaGroup(u))

\* An answer that is younger than the last change, or has neither been doubted nor is about
\* to be dropped, is right.
AnswersAreRight ==
  \A n \in Node, u \in User :
    /\ Cached(n, u)
    /\ \/ quiet + cache[n][u].life > Ttl + 1
       \/ <<n, u>> \notin doubt /\ ~ Told(n, u) /\ ~ Waits(u)
    => Right(cache[n][u].got, Reach(u), bound)

\* While an update of a role waits for its commit, every answer is doubted or about to be dropped.
WritesAreTold == Writing => \A n \in Node, u \in User : Cached(n, u) => <<n, u>> \in doubt \/ Told(n, u)

FreshInv == TablesOk /\ JobsOk /\ FreshShapes /\ WalksAreRight /\ AnswersAreRight /\ WritesAreTold

\* What matters to the answers about u is the same after the step.
Steady(u) ==
  /\ Reach(u)' = Reach(u) /\ ViaGroup(u)' = ViaGroup(u)
  /\ \A x \in Reach(u) : ParentOf'[x] = ParentOf[x] /\ bound'[x] = bound[x]

LEMMA ReachIsShut ==
  ASSUME TablesOk, NEW u \in User
  PROVE  /\ ParentOf \in Parents /\ Reach(u) \in SUBSET Role /\ Shut(ParentOf, Reach(u))
         /\ Direct(u) \subseteq Reach(u) /\ ViaGroup(u) \subseteq Reach(u)
         /\ \A x \in Reach(u) : Born(x) /\ Up(ParentOf, x) \subseteq Reach(u)
<1> DEFINE S == Direct(u) \cup ViaGroup(u)
<1>1. PICK P \in Parents : P = ParentOf
  BY AboveIsUp
<1>2. S \subseteq Role /\ \A r \in S : Born(r)
  BY DEF Direct, ViaGroup, TablesOk, Live, Born
<1>3. Reach(u) = UNION {Up(P, r) : r \in S}
  BY <1>1 DEF Reach
<1> HIDE DEF S
<1>4. \A r \in S : r \in Reach(u)
  BY <1>1, <1>2, <1>3, UpIsShut
<1>5. ASSUME NEW x \in Reach(u)
      PROVE  x \in Role /\ Born(x) /\ Up(P, x) \subseteq Reach(u) /\ P[x] \in Reach(u) \cup {None}
  <2>1. PICK r \in S : x \in Up(P, r)
    BY <1>3
  <2>2. r \in Role /\ Born(r)
    BY <1>2
  <2>3. x \in Role /\ Born(x)
    BY <1>1, <2>1, <2>2, UpIsBorn
  <2>4. Up(P, x) \subseteq Up(P, r)
    BY <1>1, <2>1, <2>2, UpMember
  <2>5. Up(P, r) \subseteq Reach(u)
    BY <1>3
  <2>6. P[x] \in Up(P, r) \cup {None}
    BY <1>1, <2>1, <2>2, UpIsShut DEF Shut
  <2> QED
    BY <2>3, <2>4, <2>5, <2>6
<1>6. Shut(P, Reach(u))
  BY <1>5 DEF Shut
<1> QED
  BY <1>1, <1>4, <1>5, <1>6 DEF S

LEMMA ParentsStay == TablesOk' => ParentOf' \in Parents
<1>1. TablesOk' => \A r \in Role : (ParentOf[r])' \in Role \cup {None}
  BY DEF TablesOk, RoleRow, ParentOf, Parent, Live
<1> QED
  BY <1>1 DEF ParentOf, Parents

LEMMA ReachStays ==
  ASSUME TablesOk, TablesOk', NEW u \in User, Direct(u)' = Direct(u), ViaGroup(u)' = ViaGroup(u),
         \A x \in Reach(u) : ParentOf'[x] = ParentOf[x] /\ bound'[x] = bound[x]
  PROVE  Steady(u)
<1>1. PICK P \in Parents : P = ParentOf
  BY AboveIsUp
<1>2. ParentOf' \in Parents
  BY ParentsStay
<1>3. PICK Q \in Parents : Q = ParentOf'
  BY <1>2
<1> DEFINE S == Direct(u) \cup ViaGroup(u)
<1>4. Reach(u) = UNION {Up(P, r) : r \in S} /\ Reach(u)' = UNION {Up(Q, r) : r \in S}
  BY <1>1, <1>3 DEF Reach
<1>5. S \subseteq Reach(u) /\ Reach(u) \subseteq Role /\ \A x \in Reach(u) : Up(P, x) \subseteq Reach(u)
  BY <1>1, ReachIsShut
<1> HIDE DEF S
<1>6. ASSUME NEW r \in S PROVE Up(Q, r) = Up(P, r)
  <2>1. r \in Role /\ \A x \in Up(P, r) : Q[x] = P[x]
    BY <1>1, <1>3, <1>5
  <2> QED
    BY <2>1, UpSame
<1>7. Reach(u)' = Reach(u)
  BY <1>4, <1>6
<1> QED
  BY <1>7 DEF Steady

\* Nothing happens to the tables.
LEMMA TablesStay ==
  ASSUME TablesOk, UNCHANGED <<role, bound, userRoles, groupRoles>>
  PROVE  TablesOk' /\ \A u \in User : Steady(u)
<1>1. TablesOk' /\ ParentOf' = ParentOf
  BY DEF TablesOk, ParentOf, Parent, Live, Born
<1>2. ASSUME NEW u \in User PROVE Direct(u)' = Direct(u) /\ ViaGroup(u)' = ViaGroup(u)
  BY DEF Direct, ViaGroup
<1> QED
  BY <1>1, <1>2, ReachStays

LEMMA OnTrackStays ==
  ASSUME NEW P \in Parents, NEW Q \in Parents, NEW R \in SUBSET Role, Shut(P, R), NEW G \in SUBSET R,
         NEW b, NEW c, NEW w, \A x \in R : Q[x] = P[x] /\ c[x] = b[x], OnTrack(w, R, P, b, G)
  PROVE  OnTrack(w, R, Q, c, G)
<1>1. Ahead(w, G) \subseteq R
  BY DEF Ahead, OnTrack
<1>2. ASSUME NEW x \in R PROVE Up(Q, x) = Up(P, x)
  <2>1. Up(P, x) \subseteq R
    BY UpLeast
  <2> QED
    BY <2>1, UpSame
<1>3. Sourced(w.got, R, c)
  BY DEF OnTrack, Sourced
<1>4. \A s \in R : Heard(w.got, c[s]) \/ \E x \in Ahead(w, G) : s \in Up(Q, x)
  BY <1>1, <1>2 DEF OnTrack
<1>5. \A x \in w.seen : Heard(w.got, c[x]) /\ Q[x] \in w.seen \cup {w.at}
  BY DEF OnTrack
<1> QED
  BY <1>3, <1>4, <1>5 DEF OnTrack

LEMMA SteadyWalk ==
  ASSUME TablesOk, TablesOk', NEW u \in User, Steady(u), NEW w, OnTrack(w, Reach(u), ParentOf, bound, ViaGroup(u))
  PROVE  OnTrack(w, Reach(u)', ParentOf', bound', ViaGroup(u)')
<1>1. PICK P \in Parents, R \in SUBSET Role : P = ParentOf /\ R = Reach(u) /\ Shut(P, R) /\ ViaGroup(u) \subseteq R
  BY ReachIsShut
<1>2. ParentOf' \in Parents
  BY ParentsStay
<1>3. PICK Q \in Parents : Q = ParentOf'
  BY <1>2
<1>4. PICK b, c : b = bound /\ c = bound'
  OBVIOUS
<1>5. PICK G \in SUBSET R : G = ViaGroup(u)
  BY <1>1
<1>6. \A x \in R : Q[x] = P[x] /\ c[x] = b[x]
  BY <1>1, <1>3, <1>4 DEF Steady
<1>7. OnTrack(w, R, P, b, G)
  BY <1>1, <1>4, <1>5
<1>8. OnTrack(w, R, Q, c, G)
  BY <1>1, <1>6, <1>7, OnTrackStays
<1> QED
  BY <1>1, <1>3, <1>4, <1>5, <1>8 DEF Steady

LEMMA SteadyAnswer ==
  ASSUME NEW u \in User, Steady(u), NEW g, Right(g, Reach(u), bound)
  PROVE  Right(g, Reach(u)', bound')
  BY DEF Steady, Right, Sourced

\* Whatever a node knows of u is doubted or about to be dropped.
Void(u) ==
  \A n \in Node : /\ Walking(n, u) => <<n, u>> \in doubt
                  /\ Cached(n, u) => <<n, u>> \in doubt \/ Told(n, u)

\* What every edit and every announcement sees to.
Careful ==
  /\ walk' = walk
  /\ \A n \in Node, u \in User : Cached(n, u)' => cache'[n][u] = cache[n][u]
  /\ quiet' = 0 \/ (quiet' = quiet /\ \A u \in User : Steady(u))
  /\ \A u \in User : Steady(u) \/ Waits(u)' \/ Void(u)'
  /\ \A u \in User : Waits(u) => Waits(u)' \/ Void(u)'
  /\ \A n \in Node, u \in User : <<n, u>> \in doubt => <<n, u>> \in doubt' \/ (~ Walking(n, u) /\ ~ Cached(n, u)')
  /\ \A n \in Node, u \in User : Told(n, u) => Told(n, u)' \/ ~ Cached(n, u)' \/ <<n, u>> \in doubt'
  /\ Writing' => Writing \/ \A n \in Node, u \in User : Cached(n, u)' => <<n, u>> \in doubt' \/ Told(n, u)'

LEMMA WalkStays ==
  ASSUME FreshInv, TablesOk', Careful, NEW n \in Node, NEW u \in User, Walking(n, u)',
         \/ walk'[n].slow /\ quiet' > 1
         \/ ~ walk'[n].slow /\ quiet' > 0
         \/ <<n, u>> \notin doubt' /\ ~ Waits(u)'
  PROVE  OnTrack(walk'[n], Reach(u)', ParentOf', bound', ViaGroup(u)')
<1>1. walk' = walk /\ Walking(n, u)
  BY DEF Careful, Walking
<1>2. CASE (walk'[n].slow /\ quiet' > 1) \/ (~ walk'[n].slow /\ quiet' > 0)
  <2>1. quiet' = quiet /\ Steady(u)
    BY <1>2 DEF Careful
  <2>2. OnTrack(walk[n], Reach(u), ParentOf, bound, ViaGroup(u))
    BY <1>1, <1>2, <2>1 DEF FreshInv, WalksAreRight
  <2> QED
    BY <1>1, <2>1, <2>2, SteadyWalk DEF FreshInv
<1>3. CASE <<n, u>> \notin doubt' /\ ~ Waits(u)'
  <2>1. ~ Void(u)'
    BY <1>1, <1>3 DEF Void, Walking
  <2>2. Steady(u) /\ ~ Waits(u) /\ <<n, u>> \notin doubt
    BY <1>1, <1>3, <2>1 DEF Careful
  <2>3. OnTrack(walk[n], Reach(u), ParentOf, bound, ViaGroup(u))
    BY <1>1, <2>2 DEF FreshInv, WalksAreRight
  <2> QED
    BY <1>1, <2>2, <2>3, SteadyWalk DEF FreshInv
<1> QED
  BY <1>2, <1>3

LEMMA AnswerStays ==
  ASSUME FreshInv, FreshShapes', Careful, NEW n \in Node, NEW u \in User, Cached(n, u)',
         \/ quiet' + cache'[n][u].life > Ttl + 1
         \/ <<n, u>> \notin doubt' /\ ~ Told(n, u)' /\ ~ Waits(u)'
  PROVE  Right(cache'[n][u].got, Reach(u)', bound')
<1>1. cache'[n][u] = cache[n][u] /\ Cached(n, u)
  BY DEF Careful, Cached
<1>2. Ttl \in Nat /\ cache'[n][u].life \in 0..Ttl
  BY AccessAssumption DEF FreshShapes, Entry
<1>3. CASE quiet' + cache'[n][u].life > Ttl + 1
  <2>1. quiet' = quiet /\ Steady(u)
    BY <1>2, <1>3 DEF Careful
  <2>2. Right(cache[n][u].got, Reach(u), bound)
    BY <1>1, <1>3, <2>1 DEF FreshInv, AnswersAreRight
  <2> QED
    BY <1>1, <2>1, <2>2, SteadyAnswer
<1>4. CASE <<n, u>> \notin doubt' /\ ~ Told(n, u)' /\ ~ Waits(u)'
  <2>1. ~ Void(u)'
    BY <1>4 DEF Void
  <2>2. Steady(u) /\ ~ Waits(u) /\ <<n, u>> \notin doubt /\ ~ Told(n, u)
    BY <1>4, <2>1 DEF Careful
  <2>3. Right(cache[n][u].got, Reach(u), bound)
    BY <1>1, <2>2 DEF FreshInv, AnswersAreRight
  <2> QED
    BY <1>1, <2>2, <2>3, SteadyAnswer
<1> QED
  BY <1>3, <1>4

LEMMA CarefulKeeps ==
  ASSUME FreshInv, TablesOk', JobsOk', FreshShapes', Careful
  PROVE  FreshInv'
<1>1. WalksAreRight'
  BY WalkStays DEF WalksAreRight
<1>2. AnswersAreRight'
  BY AnswerStays DEF AnswersAreRight
<1>3. WritesAreTold'
  <2>1. ASSUME Writing', NEW n \in Node, NEW u \in User, Cached(n, u)' PROVE <<n, u>> \in doubt' \/ Told(n, u)'
    <3>1. CASE Writing
      <4>1. Cached(n, u)
        BY <2>1 DEF Careful, Cached
      <4>2. <<n, u>> \in doubt \/ Told(n, u)
        BY <3>1, <4>1 DEF FreshInv, WritesAreTold
      <4> QED
        BY <2>1, <4>2 DEF Careful
    <3>2. CASE ~ Writing
      BY <2>1, <3>2 DEF Careful
    <3> QED
      BY <3>1, <3>2
  <2> QED
    BY <2>1 DEF WritesAreTold
<1> QED
  BY <1>1, <1>2, <1>3 DEF FreshInv

LEMMA Drops ==
  ASSUME FreshShapes, NEW n \in Node, NEW us \in SUBSET User, Drop(n, us)
  PROVE  /\ cache' \in [Node -> [User -> Entry]] /\ news' \subseteq [to : Asked, us : SUBSET User]
         /\ \A m \in Node, u \in User : Cached(m, u)' => cache'[m][u] = cache[m][u] /\ ~ (m = n /\ u \in us)
         /\ \A m \in Node, u \in User : Told(m, u) \/ (m \in Asked /\ u \in us) => Told(m, u)'
<1>1. cache' = [cache EXCEPT ![n] = [u \in User |-> IF u \in us THEN NoEntry ELSE cache[n][u]]]
      /\ news' = news \cup {[to |-> m, us |-> us] : m \in Asked}
  BY DEF Drop
<1>2. NoEntry \in Entry /\ NoEntry.life = 0 /\ cache \in [Node -> [User -> Entry]] /\ news \subseteq [to : Asked, us : SUBSET User]
  BY AccessAssumption, GrantsThere DEF NoEntry, Entry, FreshShapes
<1>3. \A m \in Node, u \in User : cache'[m][u] = IF m = n /\ u \in us THEN NoEntry ELSE cache[m][u]
  BY <1>1, <1>2
<1>4. cache' \in [Node -> [User -> Entry]]
  <2>1. [u \in User |-> IF u \in us THEN NoEntry ELSE cache[n][u]] \in [User -> Entry]
    BY <1>2
  <2> QED
    BY <1>1, <1>2, <2>1
<1>5. \A m \in Node, u \in User : Cached(m, u)' => cache'[m][u] = cache[m][u] /\ ~ (m = n /\ u \in us)
  BY <1>2, <1>3 DEF Cached
<1>6. ASSUME NEW m \in Node, NEW u \in User, Told(m, u) \/ (m \in Asked /\ u \in us) PROVE Told(m, u)'
  <2>1. CASE Told(m, u)
    BY <1>1, <2>1 DEF Told
  <2>2. CASE m \in Asked /\ u \in us
    <3>1. [to |-> m, us |-> us] \in news'
      BY <1>1, <2>2
    <3> QED
      BY <2>2, <3>1 DEF Told
  <2> QED
    BY <1>6, <2>1, <2>2
<1> QED
  BY <1>1, <1>2, <1>4, <1>5, <1>6

LEMMA ShapesStay ==
  ASSUME FreshShapes, UNCHANGED <<scene, walk>>, edits' \in 0..MaxEdits, quiet' \in 0..(Ttl + 1),
         cache' \in [Node -> [User -> Entry]], news' \subseteq [to : Asked, us : SUBSET User],
         \A n \in Node, u \in User : Cached(n, u)' => cache'[n][u] = cache[n][u]
  PROVE  FreshShapes'
<1>1. \A n \in Node, u \in User : Cached(n, u)' => n \in Asked
  BY DEF FreshShapes, Cached
<1> QED
  BY <1>1 DEF FreshShapes

\* The edits in progress but for e stay what they are.
Others(e) == \A x \in Editor \ {e} : job'[x].op = job[x].op /\ job'[x].at = job[x].at /\ job'[x].u = job[x].u

LEMMA JobsStay ==
  ASSUME NEW e \in Editor, Others(e)
  PROVE  /\ \A u \in User : Waits(u) => Waits(u)' \/ (Doing(e, "assign", "cleared") /\ job[e].u = u)
         /\ ~ (job'[e].op = "put" /\ job'[e].at = "written") => (Writing' => Writing)
<1>1. ASSUME NEW u \in User, Waits(u), ~ (Doing(e, "assign", "cleared") /\ job[e].u = u) PROVE Waits(u)'
  <2>1. PICK x \in Editor : Doing(x, "assign", "cleared") /\ job[x].u = u
    BY <1>1 DEF Waits
  <2>2. x # e
    BY <1>1, <2>1
  <2> QED
    BY <2>1, <2>2 DEF Waits, Others, Doing
<1>2. ASSUME ~ (job'[e].op = "put" /\ job'[e].at = "written"), Writing' PROVE Writing
  <2>1. PICK x \in Editor : job'[x].op = "put" /\ job'[x].at = "written"
    BY <1>2 DEF Writing, Doing
  <2> QED
    BY <1>2, <2>1 DEF Writing, Others, Doing
<1> QED
  BY <1>1, <1>2

\* An edit that touches no answer.
LEMMA PlainEdit ==
  ASSUME FreshInv, TablesOk', JobsOk', NEW e \in Editor, Others(e), UNCHANGED <<scene, walk, cache, news>>,
         edits' \in 0..MaxEdits, quiet' = 0 \/ (quiet' = quiet /\ \A u \in User : Steady(u)),
         \A n \in Node, u \in User : <<n, u>> \in doubt => <<n, u>> \in doubt',
         \A u \in User : Steady(u) \/ Waits(u)' \/ Void(u)',
         \A u \in User : Doing(e, "assign", "cleared") /\ job[e].u = u => Void(u)',
         ~ (job'[e].op = "put" /\ job'[e].at = "written")
  PROVE  FreshInv'
<1>1. \A n \in Node, u \in User : (Cached(n, u)' <=> Cached(n, u)) /\ (Told(n, u)' <=> Told(n, u))
  BY DEF Cached, Told
<1>2. /\ \A u \in User : Waits(u) => Waits(u)' \/ Void(u)'
      /\ Writing' => Writing
  BY JobsStay
<1>3. Careful
  BY <1>1, <1>2 DEF Careful
<1>4. quiet' \in 0..(Ttl + 1)
  BY AccessAssumption DEF FreshInv, FreshShapes
<1>5. FreshShapes'
  BY <1>4, ShapesStay DEF FreshInv, FreshShapes
<1> QED
  BY <1>3, <1>5, CarefulKeeps

LEMMA EditsCount == FreshShapes /\ (edits' = edits \/ \E e \in Editor : Free(e)) => edits' \in 0..MaxEdits
  BY AccessAssumption DEF FreshShapes, Free

LEMMA PutCheckFresh ==
  ASSUME FreshInv, NEW e \in Editor, PutCheck(e)
  PROVE  FreshInv'
<1>1. /\ TablesOk' /\ JobsOk' /\ UNCHANGED <<tables, key, answers, quiet, doubt, kept>>
      /\ job'[e].at = "checked" /\ \A x \in Editor \ {e} : job'[x] = job[x]
  BY PutCheckJob DEF FreshInv
<1>2. Free(e) /\ job[e].op = "idle" /\ scene' = scene
  BY DEF PutCheck, Free
<1>3. UNCHANGED <<role, bound, userRoles, groupRoles, walk, cache, news, quiet, doubt>>
  BY <1>1 DEF tables, answers
<1>4. \A u \in User : Steady(u)
  BY <1>3, TablesStay DEF FreshInv
<1>5. Others(e) /\ edits' \in 0..MaxEdits
  BY <1>1, <1>2, EditsCount DEF Others, FreshInv
<1> QED
  BY <1>1, <1>2, <1>3, <1>4, <1>5, PlainEdit DEF Doing

LEMMA DeleteCountFresh ==
  ASSUME FreshInv, NEW e \in Editor, DeleteCount(e)
  PROVE  FreshInv'
<1>1. TablesOk' /\ JobsOk' /\ job'[e].op = "delete" /\ \A x \in Editor \ {e} : job'[x] = job[x]
  BY DeleteCountJob DEF FreshInv
<1>2. Free(e) /\ job[e].op = "idle" /\ UNCHANGED <<scene, tables, answers, past>>
  BY DEF DeleteCount, Free
<1>3. UNCHANGED <<role, bound, userRoles, groupRoles, walk, cache, news, quiet, doubt>>
  BY <1>2 DEF tables, answers, past
<1>4. \A u \in User : Steady(u)
  BY <1>3, TablesStay DEF FreshInv
<1>5. Others(e) /\ edits' \in 0..MaxEdits
  BY <1>1, <1>2, EditsCount DEF Others, FreshInv
<1> QED
  BY <1>1, <1>2, <1>3, <1>4, <1>5, PlainEdit DEF Doing

LEMMA FailFresh ==
  ASSUME FreshInv, NEW e \in Editor, Fail(e)
  PROVE  FreshInv'
<1>1. TablesOk' /\ JobsOk' /\ job'[e] = Idle /\ \A x \in Editor \ {e} : job'[x] = job[x]
  BY FailJob DEF FreshInv
<1>2. /\ UNCHANGED <<scene, tables, answers, edits, quiet>>
      /\ doubt' = IF job[e].op = "assign" THEN doubt \cup {<<n, job[e].u>> : n \in Node} ELSE doubt
  BY DEF Fail
<1>3. UNCHANGED <<role, bound, userRoles, groupRoles, walk, cache, news, quiet>>
  BY <1>2 DEF tables, answers
<1>4. \A u \in User : Steady(u)
  BY <1>3, TablesStay DEF FreshInv
<1>5. Others(e) /\ edits' \in 0..MaxEdits
  BY <1>1, <1>2, EditsCount DEF Others, FreshInv
<1>6. \A u \in User : Doing(e, "assign", "cleared") /\ job[e].u = u => Void(u)'
  BY <1>2 DEF Doing, Void
<1> QED
  BY <1>1, <1>2, <1>3, <1>4, <1>5, <1>6, PlainEdit, IdleIsFine

LEMMA CreateBindFresh ==
  ASSUME FreshInv, NEW e \in Editor, CreateBind(e)
  PROVE  FreshInv'
<1>1. TablesOk' /\ JobsOk' /\ job'[e] = Idle /\ \A x \in Editor \ {e} : job'[x] = job[x]
  BY CreateBindJob DEF FreshInv
<1>2. /\ UNCHANGED <<scene, answers, edits>> /\ quiet' = 0
      /\ doubt' = doubt \cup {x \in Node \X User : Cached(x[1], x[2]) \/ Walking(x[1], x[2])}
  BY DEF CreateBind
<1>3. UNCHANGED <<walk, cache, news>>
  BY <1>2 DEF answers
<1>4. ASSUME NEW u \in User PROVE Void(u)'
  <2>1. ASSUME NEW n \in Node, Cached(n, u) \/ Walking(n, u) PROVE <<n, u>> \in doubt'
    <3>1. <<n, u>> \in {x \in Node \X User : Cached(x[1], x[2]) \/ Walking(x[1], x[2])}
      BY <2>1
    <3> QED
      BY <1>2, <3>1
  <2>2. \A n \in Node : (Cached(n, u)' <=> Cached(n, u)) /\ (Walking(n, u)' <=> Walking(n, u))
    BY <1>3 DEF Cached, Walking
  <2> QED
    BY <2>1, <2>2 DEF Void
<1>5. Others(e) /\ edits' \in 0..MaxEdits
  BY <1>1, <1>2, EditsCount DEF Others, FreshInv
<1> QED
  BY <1>1, <1>2, <1>3, <1>4, <1>5, PlainEdit, IdleIsFine

LEMMA PutCommitFresh ==
  ASSUME FreshInv, NEW e \in Editor, PutCommit(e)
  PROVE  FreshInv'
<1>1. TablesOk' /\ JobsOk' /\ job'[e] = Idle /\ \A x \in Editor \ {e} : job'[x] = job[x]
  BY PutCommitJob DEF FreshInv
<1>2. /\ UNCHANGED <<scene, answers, edits>> /\ quiet' = 0 /\ Doing(e, "put", "written")
      /\ doubt' = doubt \cup {x \in Node \X User : Walking(x[1], x[2])}
  BY DEF PutCommit, Changed
<1>3. UNCHANGED <<walk, cache, news>>
  BY <1>2 DEF answers
<1>4. ASSUME NEW u \in User PROVE Void(u)'
  <2>1. ASSUME NEW n \in Node, Walking(n, u) PROVE <<n, u>> \in doubt'
    <3>1. <<n, u>> \in {x \in Node \X User : Walking(x[1], x[2])}
      BY <2>1
    <3> QED
      BY <1>2, <3>1
  <2>2. ASSUME NEW n \in Node, Cached(n, u) PROVE <<n, u>> \in doubt' \/ Told(n, u)
    BY <1>2, <2>2 DEF FreshInv, WritesAreTold, Writing
  <2>3. \A n \in Node : (Cached(n, u)' <=> Cached(n, u)) /\ (Walking(n, u)' <=> Walking(n, u)) /\ (Told(n, u)' <=> Told(n, u))
    BY <1>3 DEF Cached, Walking, Told
  <2> QED
    BY <2>1, <2>2, <2>3 DEF Void
<1>5. Others(e) /\ edits' \in 0..MaxEdits
  BY <1>1, <1>2, EditsCount DEF Others, FreshInv
<1> QED
  BY <1>1, <1>2, <1>3, <1>4, <1>5, PlainEdit, IdleIsFine

LEMMA CreateRowFresh ==
  ASSUME FreshInv, NEW e \in Editor, CreateRow(e)
  PROVE  FreshInv'
<1>1. /\ TablesOk' /\ JobsOk' /\ job'[e].op = "create" /\ \A x \in Editor \ {e} : job'[x] = job[x]
      /\ UNCHANGED <<userRoles, groupRoles>>
  BY CreateRowJob DEF FreshInv
<1>2. PICK r \in Role, p \in Role \cup {None} : ~ Born(r) /\ ParentOf' = [ParentOf EXCEPT ![r] = p]
  BY CreateRowJob DEF FreshInv
<1>3. Free(e) /\ job[e].op = "idle" /\ UNCHANGED <<scene, bound, answers, doubt>> /\ quiet' = 0
  BY DEF CreateRow, Free
<1>4. UNCHANGED <<walk, cache, news>>
  BY <1>3 DEF answers
<1>5. ASSUME NEW u \in User PROVE Steady(u)
  <2>1. r \notin Reach(u) /\ Reach(u) \subseteq Role /\ ParentOf \in Parents
    BY <1>2, ReachIsShut DEF FreshInv
  <2>2. \A x \in Reach(u) : ParentOf'[x] = ParentOf[x] /\ bound'[x] = bound[x]
    BY <1>2, <1>3, <2>1 DEF Parents
  <2>3. Direct(u)' = Direct(u) /\ ViaGroup(u)' = ViaGroup(u)
    BY <1>1 DEF Direct, ViaGroup
  <2> QED
    BY <1>1, <2>2, <2>3, ReachStays DEF FreshInv
<1>6. Others(e) /\ edits' \in 0..MaxEdits
  BY <1>1, <1>3, EditsCount DEF Others, FreshInv
<1> QED
  BY <1>1, <1>3, <1>4, <1>5, <1>6, PlainEdit DEF Doing

LEMMA SetRolesClearFresh ==
  ASSUME FreshInv, NEW e \in Editor, SetRolesClear(e)
  PROVE  FreshInv'
<1>1. /\ TablesOk' /\ JobsOk' /\ ParentOf' = ParentOf /\ job'[e].op = "assign" /\ UNCHANGED groupRoles
      /\ \A x \in Editor \ {e} : job'[x] = job[x]
  BY SetRolesClearJob DEF FreshInv
<1>2. PICK u \in User, S \in SUBSET Role :
        /\ userRoles' = {x \in userRoles : x[1] # u}
        /\ job' = [job EXCEPT ![e] = [Idle EXCEPT !.op = "assign", !.at = "cleared", !.u = u, !.set = S]]
  BY DEF SetRolesClear
<1>3. Free(e) /\ job[e].op = "idle" /\ UNCHANGED <<scene, bound, answers, doubt>> /\ quiet' = 0
  BY DEF SetRolesClear, Free
<1>4. UNCHANGED <<walk, cache, news>>
  BY <1>3 DEF answers
<1>5. Waits(u)'
  <2>1. job'[e] = [Idle EXCEPT !.op = "assign", !.at = "cleared", !.u = u, !.set = S]
    BY <1>2 DEF FreshInv, JobsOk
  <2>2. job'[e].op = "assign" /\ job'[e].at = "cleared" /\ job'[e].u = u
    BY <2>1 DEF Idle
  <2> QED
    BY <2>2 DEF Waits, Doing
<1>6. ASSUME NEW v \in User, v # u PROVE Steady(v)
  <2>1. Direct(v)' = Direct(v) /\ ViaGroup(v)' = ViaGroup(v)
    BY <1>1, <1>2, <1>6 DEF Direct, ViaGroup
  <2> QED
    BY <1>1, <1>3, <2>1, ReachStays DEF FreshInv
<1>7. Others(e) /\ edits' \in 0..MaxEdits
  BY <1>1, <1>3, EditsCount DEF Others, FreshInv
<1> QED
  BY <1>1, <1>3, <1>4, <1>5, <1>6, <1>7, PlainEdit DEF Doing

LEMMA PutWriteFresh ==
  ASSUME FreshInv, NEW e \in Editor, PutWrite(e)
  PROVE  FreshInv'
<1>1. TablesOk' /\ JobsOk' /\ job'[e].op = "put" /\ \A x \in Editor \ {e} : job'[x] = job[x]
  BY PutWriteJob DEF FreshInv
<1>2. /\ Doing(e, "put", "checked") /\ UNCHANGED <<scene, role, bound, userRoles, groupRoles, walk, edits, quiet>>
  BY DEF PutWrite, tables
<1>3. PICK n \in Node : Drop(n, User) /\ doubt' = doubt \ {<<n, u>> : u \in {v \in User : ~ Walking(n, v)}}
  BY DEF PutWrite, Audience
<1>4. FreshShapes
  BY DEF FreshInv
<1>5. /\ cache' \in [Node -> [User -> Entry]] /\ news' \subseteq [to : Asked, us : SUBSET User]
      /\ \A m \in Node, u \in User : Cached(m, u)' => cache'[m][u] = cache[m][u] /\ m # n
      /\ \A m \in Node, u \in User : Told(m, u) \/ m \in Asked => Told(m, u)'
  BY <1>3, <1>4, Drops
<1>6. FreshShapes'
  BY <1>2, <1>4, <1>5, ShapesStay DEF FreshShapes
<1>7. \A u \in User : Steady(u)
  BY <1>2, TablesStay DEF FreshInv
<1>8. Others(e)
  BY <1>1 DEF Others
<1>9. \A u \in User : Waits(u) => Waits(u)'
  BY <1>2, <1>8, JobsStay DEF Doing
<1>10. \A m \in Node, u \in User : <<m, u>> \in doubt => <<m, u>> \in doubt' \/ (~ Walking(m, u) /\ ~ Cached(m, u)')
  BY <1>3, <1>5
<1>11. \A m \in Node, u \in User : Cached(m, u)' => Told(m, u)'
  BY <1>5, <1>6 DEF FreshShapes
<1>12. Careful
  BY <1>2, <1>5, <1>7, <1>9, <1>10, <1>11 DEF Careful
<1> QED
  BY <1>1, <1>6, <1>12, CarefulKeeps

\* An edit that changes the tables for us and drops their answers.
LEMMA DroppingEdit ==
  ASSUME FreshInv, TablesOk', JobsOk', NEW e \in Editor, Others(e), UNCHANGED <<scene, walk, edits>>, job'[e] = Idle,
         NEW us \in SUBSET User, \E n \in Node : Drop(n, us), Changed(us), \A u \in User \ us : Steady(u),
         Doing(e, "assign", "cleared") => job[e].u \in us
  PROVE  FreshInv'
<1>1. PICK n \in Node : Drop(n, us)
  OBVIOUS
<1>2. quiet' = 0 /\ doubt' = doubt \cup {x \in Node \X us : Walking(x[1], x[2])}
  BY DEF Changed
<1>3. FreshShapes
  BY DEF FreshInv
<1>4. /\ cache' \in [Node -> [User -> Entry]] /\ news' \subseteq [to : Asked, us : SUBSET User]
      /\ \A m \in Node, u \in User : Cached(m, u)' => cache'[m][u] = cache[m][u]
      /\ \A m \in Node, u \in User : Told(m, u) \/ (m \in Asked /\ u \in us) => Told(m, u)'
  BY <1>1, <1>3, Drops
<1>5. FreshShapes'
  <2>1. quiet' \in 0..(Ttl + 1)
    BY <1>2, AccessAssumption
  <2> QED
    BY <1>3, <1>4, <2>1, ShapesStay DEF FreshShapes
<1>6. ASSUME NEW u \in us PROVE Void(u)'
  <2>1. ASSUME NEW m \in Node, Walking(m, u) PROVE <<m, u>> \in doubt'
    <3>1. <<m, u>> \in {x \in Node \X us : Walking(x[1], x[2])}
      BY <2>1
    <3> QED
      BY <1>2, <3>1
  <2>2. \A m \in Node : Cached(m, u)' => Told(m, u)'
    BY <1>4, <1>5 DEF FreshShapes
  <2>3. \A m \in Node : Walking(m, u)' <=> Walking(m, u)
    BY DEF Walking
  <2> QED
    BY <2>1, <2>2, <2>3 DEF Void
<1>7. Idle.op = "idle"
  BY DEF Idle
<1>8. (\A u \in User : Waits(u) => Waits(u)' \/ Void(u)') /\ (Writing' => Writing)
  BY <1>6, <1>7, JobsStay
<1>9. Careful
  BY <1>2, <1>4, <1>6, <1>8 DEF Careful
<1> QED
  BY <1>5, <1>9, CarefulKeeps

LEMMA DeleteRowFresh ==
  ASSUME FreshInv, NEW e \in Editor, DeleteRow(e)
  PROVE  FreshInv'
<1>1. TablesOk' /\ JobsOk' /\ job'[e] = Idle /\ job[e].op = "delete" /\ \A x \in Editor \ {e} : job'[x] = job[x]
  BY DeleteRowJob DEF FreshInv
<1>2. (\E n \in Node : Drop(n, User)) /\ Changed(User) /\ UNCHANGED <<scene, walk, edits>>
  BY DEF DeleteRow
<1>3. Others(e)
  BY <1>1 DEF Others
<1> QED
  BY <1>1, <1>2, <1>3, DroppingEdit DEF Doing

LEMMA SetRolesAddFresh ==
  ASSUME FreshInv, NEW e \in Editor, SetRolesAdd(e)
  PROVE  FreshInv'
<1>1. /\ TablesOk' /\ JobsOk' /\ ParentOf' = ParentOf /\ job'[e] = Idle
      /\ job[e].u \in User /\ userRoles' = userRoles \cup {<<job[e].u, r>> : r \in job[e].set}
      /\ UNCHANGED groupRoles
  BY SetRolesAddJob DEF FreshInv
<1>2. /\ (\E n \in Node : Drop(n, {job[e].u})) /\ Changed({job[e].u}) /\ UNCHANGED <<scene, bound, walk, edits>>
      /\ job' = [x \in Editor |-> IF x = e THEN Idle
                                  ELSE IF job[x].op = "delete" /\ job[x].r \in job[e].set THEN [job[x] EXCEPT !.late = TRUE]
                                  ELSE job[x]]
  BY DEF SetRolesAdd
<1>3. PICK u \in User : u = job[e].u
  BY <1>1
<1>4. Others(e)
  <2>1. ASSUME NEW x \in Editor \ {e} PROVE job'[x] = job[x] \/ job'[x] = [job[x] EXCEPT !.late = TRUE]
    BY <1>2
  <2>2. job \in [Editor -> Job]
    BY DEF FreshInv, JobsOk
  <2>3. \A j \in Job : LET k == [j EXCEPT !.late = TRUE] IN k.op = j.op /\ k.at = j.at /\ k.u = j.u
    BY DEF Job
  <2> QED
    BY <2>1, <2>2, <2>3 DEF Others
<1>5. ASSUME NEW v \in User \ {u} PROVE Steady(v)
  <2>1. Direct(v)' = Direct(v) /\ ViaGroup(v)' = ViaGroup(v)
    BY <1>1, <1>3 DEF Direct, ViaGroup
  <2> QED
    BY <1>1, <1>2, <2>1, ReachStays DEF FreshInv
<1>6. (\E n \in Node : Drop(n, {u})) /\ Changed({u})
  BY <1>2, <1>3
<1> QED
  BY <1>1, <1>2, <1>3, <1>4, <1>5, <1>6, DroppingEdit

LEMMA EditFresh ==
  ASSUME FreshInv, NEW e \in Editor, Edit(e)
  PROVE  FreshInv'
  BY PutCheckFresh, PutWriteFresh, PutCommitFresh, CreateRowFresh, CreateBindFresh, DeleteCountFresh, DeleteRowFresh,
     SetRolesClearFresh, SetRolesAddFresh, FailFresh DEF Edit

LEMMA HearFresh ==
  ASSUME FreshInv, NEW m \in news, Hear(m)
  PROVE  FreshInv'
<1>1. /\ news' = news \ {m} /\ UNCHANGED <<scene, role, bound, userRoles, groupRoles, job, walk, edits, quiet>>
      /\ \/ /\ cache' = [cache EXCEPT ![m.to] = [u \in User |-> IF u \in m.us THEN NoEntry ELSE cache[m.to][u]]]
            /\ doubt' = doubt \ {<<m.to, u>> : u \in {v \in m.us : ~ Walking(m.to, v)}}
         \/ cache' = cache /\ doubt' = doubt \cup {<<m.to, u>> : u \in m.us}
  BY DEF Hear, tables
<1>2. FreshShapes /\ m.to \in Asked /\ m.to \in Node /\ m.us \in SUBSET User
  BY AccessAssumption DEF FreshInv, FreshShapes
<1>3. TablesOk' /\ \A u \in User : Steady(u)
  BY <1>1, TablesStay DEF FreshInv
<1>4. JobsOk'
  BY <1>1 DEF FreshInv, JobsOk, JobOk, Live, Born
<1>5. /\ cache' \in [Node -> [User -> Entry]]
      /\ \A n \in Node, u \in User : Cached(n, u)' => cache'[n][u] = cache[n][u]
      /\ \A n \in Node, u \in User : <<n, u>> \in doubt => <<n, u>> \in doubt' \/ (~ Walking(n, u) /\ ~ Cached(n, u)')
      /\ \A u \in m.us : Cached(m.to, u)' => <<m.to, u>> \in doubt'
  <2>1. NoEntry \in Entry /\ NoEntry.life = 0 /\ cache \in [Node -> [User -> Entry]]
    BY <1>2, AccessAssumption, GrantsThere DEF NoEntry, Entry, FreshShapes
  <2>2. CASE cache' = cache /\ doubt' = doubt \cup {<<m.to, u>> : u \in m.us}
    BY <2>1, <2>2
  <2>3. CASE /\ cache' = [cache EXCEPT ![m.to] = [u \in User |-> IF u \in m.us THEN NoEntry ELSE cache[m.to][u]]]
             /\ doubt' = doubt \ {<<m.to, u>> : u \in {v \in m.us : ~ Walking(m.to, v)}}
    <3>1. \A n \in Node, u \in User : cache'[n][u] = IF n = m.to /\ u \in m.us THEN NoEntry ELSE cache[n][u]
      BY <1>2, <2>1, <2>3
    <3>2. cache' \in [Node -> [User -> Entry]]
      <4>1. [u \in User |-> IF u \in m.us THEN NoEntry ELSE cache[m.to][u]] \in [User -> Entry]
        BY <1>2, <2>1
      <4> QED
        BY <1>2, <2>1, <2>3, <4>1
    <3>3. \A n \in Node, u \in User : Cached(n, u)' => cache'[n][u] = cache[n][u] /\ ~ (n = m.to /\ u \in m.us)
      BY <2>1, <3>1 DEF Cached
    <3>4. ASSUME NEW n \in Node, NEW u \in User, <<n, u>> \in doubt, <<n, u>> \notin doubt'
          PROVE  n = m.to /\ u \in m.us /\ ~ Walking(n, u)
      <4>1. <<n, u>> \in {<<m.to, v>> : v \in {v \in m.us : ~ Walking(m.to, v)}}
        BY <2>3, <3>4
      <4> QED
        BY <4>1
    <3> QED
      BY <1>2, <3>2, <3>3, <3>4
  <2> QED
    BY <1>1, <2>2, <2>3
<1>6. ASSUME NEW n \in Node, NEW u \in User, Told(n, u) PROVE Told(n, u)' \/ ~ Cached(n, u)' \/ <<n, u>> \in doubt'
  <2>1. PICK k \in news : k.to = n /\ u \in k.us
    BY <1>6 DEF Told
  <2>2. CASE k = m
    BY <1>5, <2>1, <2>2
  <2>3. CASE k # m
    BY <1>1, <2>1, <2>3 DEF Told
  <2> QED
    BY <2>2, <2>3
<1>7. (\A u \in User : Waits(u)' <=> Waits(u)) /\ (Writing' <=> Writing)
  BY <1>1 DEF Waits, Writing, Doing
<1>8. FreshShapes'
  <2>1. news' \subseteq [to : Asked, us : SUBSET User]
    BY <1>1, <1>2 DEF FreshShapes
  <2> QED
    BY <1>1, <1>2, <1>5, <2>1, ShapesStay DEF FreshShapes
<1>9. Careful
  BY <1>1, <1>3, <1>5, <1>6, <1>7 DEF Careful
<1> QED
  BY <1>3, <1>4, <1>8, <1>9, CarefulKeeps

\* Neither a key nor a stutter.
LEMMA StillFresh ==
  ASSUME FreshInv, UNCHANGED <<scene, role, bound, userRoles, groupRoles, job, walk, cache, news, edits, quiet, doubt>>
  PROVE  FreshInv'
<1>1. TablesOk' /\ \A u \in User : Steady(u)
  BY TablesStay DEF FreshInv
<1>2. JobsOk'
  BY DEF FreshInv, JobsOk, JobOk, Live, Born
<1>3. FreshShapes'
  BY DEF FreshInv, FreshShapes, Cached
<1>4. /\ \A n \in Node, u \in User : (Cached(n, u)' <=> Cached(n, u)) /\ (Told(n, u)' <=> Told(n, u))
      /\ (\A u \in User : Waits(u)' <=> Waits(u)) /\ (Writing' <=> Writing)
  BY DEF Cached, Told, Waits, Writing, Doing
<1>5. Careful
  BY <1>1, <1>4 DEF Careful
<1> QED
  BY <1>1, <1>2, <1>3, <1>5, CarefulKeeps

LEMMA KeyFresh ==
  ASSUME FreshInv, KeyAction
  PROVE  FreshInv'
<1>1. UNCHANGED <<scene, tables, job, answers, edits, past>>
  BY DEF KeyAction, CreateKey, RevokeKey
<1> QED
  BY <1>1, StillFresh DEF tables, answers, past

-----------------------------------------------------------------------------
(* Walks *)

LEMMA MergeHears ==
  ASSUME NEW g \in Grants, NEW h \in Grants
  PROVE  /\ Merge(g, h) \in Grants /\ Heard(Merge(g, h), h)
         /\ \A k \in Grants : Heard(g, k) => Heard(Merge(g, h), k)
         /\ \A p \in Perm : Merge(g, h)[p] = g[p] \/ Merge(g, h)[p] = h[p]
<1>1. \A p \in Perm : g[p] \in 0..3 /\ h[p] \in 0..3
  BY DEF Grants
<1>2. \A p \in Perm : /\ Merge(g, h)[p] \in 0..3 /\ Merge(g, h)[p] >= g[p] /\ Merge(g, h)[p] >= h[p]
                      /\ Merge(g, h)[p] = g[p] \/ Merge(g, h)[p] = h[p]
  BY <1>1 DEF Merge, Pair
<1>3. Merge(g, h) \in Grants
  <2>1. \A p \in Perm : Pair(g[p], h[p]) \in 0..3
    BY <1>1 DEF Pair
  <2> QED
    BY <2>1 DEF Merge, Grants
<1>4. Heard(Merge(g, h), h)
  BY <1>2 DEF Heard
<1>5. ASSUME NEW k \in Grants, Heard(g, k) PROVE Heard(Merge(g, h), k)
  <2>1. ASSUME NEW p \in Perm PROVE k[p] <= Merge(g, h)[p]
    <3>1. k[p] \in 0..3 /\ k[p] <= g[p]
      BY <1>5 DEF Heard, Grants
    <3> QED
      BY <1>1, <1>2, <3>1
  <2> QED
    BY <2>1 DEF Heard
<1> QED
  BY <1>2, <1>3, <1>4, <1>5

\* The next role, as NextUp has it.
Step(P, r, seen) == IF P[r] \in seen \cup {r} THEN None ELSE P[r]

\* One role on the way up: where the climb ends, all that is above has been heard.
LEMMA ClimbOnTrack ==
  ASSUME NEW P \in Parents, NEW R \in SUBSET Role, Shut(P, R), NEW b \in [Role -> Grants], NEW G,
         NEW w, OnTrack(w, R, P, b, G), w.phase = "walk",
         NEW r \in Role, IF w.at = None THEN r \in w.todo ELSE r = w.at,
         NEW v, v.phase = "walk", v.got = Merge(w.got, b[r]), v.at = Step(P, r, w.seen),
         v.todo = IF w.at = None THEN w.todo \ {r} ELSE w.todo,
         v.seen = IF v.at = None THEN {} ELSE w.seen \cup {r}
  PROVE  OnTrack(v, R, P, b, G)
<1>1. /\ r \in R /\ w.got \in Grants /\ b[r] \in Grants /\ w.seen \subseteq R
      /\ Ahead(w, G) = w.todo \cup ({w.at} \ {None}) /\ Ahead(v, G) = v.todo \cup ({v.at} \ {None})
  BY DEF OnTrack, Ahead
<1>2. /\ v.got \in Grants /\ Heard(v.got, b[r]) /\ \A k \in Grants : Heard(w.got, k) => Heard(v.got, k)
      /\ \A p \in Perm : v.got[p] = w.got[p] \/ v.got[p] = b[r][p]
  BY <1>1, MergeHears
<1>3. P[r] \in R \cup {None} /\ v.at \in R \cup {None} /\ None \notin Role
  BY <1>1, NoneIsNoRole DEF Shut, Step
<1>4. Sourced(v.got, R, b)
  <2>1. ASSUME NEW p \in Perm PROVE v.got[p] = 0 \/ \E x \in R : v.got[p] = b[x][p]
    <3>1. w.got[p] = 0 \/ \E x \in R : w.got[p] = b[x][p]
      BY DEF OnTrack, Sourced
    <3> QED
      BY <1>1, <1>2, <3>1
  <2> QED
    BY <2>1 DEF Sourced
<1>5. ASSUME NEW s \in Role, Heard(w.got, b[s]) PROVE Heard(v.got, b[s])
  BY <1>2, <1>5
<1>6. \A x \in w.seen \cup {r} : Heard(v.got, b[x]) /\ P[x] \in w.seen \cup {r, P[r]}
  <2>1. ASSUME NEW x \in w.seen PROVE Heard(v.got, b[x]) /\ P[x] \in w.seen \cup {r}
    BY <1>1, <1>5 DEF OnTrack
  <2> QED
    BY <1>2, <2>1
<1>7. ASSUME NEW s \in Up(P, r) PROVE Heard(v.got, b[s]) \/ (v.at \in Role /\ s \in Up(P, v.at))
  <2>1. CASE P[r] \in w.seen \cup {r}
    <3>1. Shut(P, w.seen \cup {r}) /\ w.seen \cup {r} \subseteq Role
      BY <1>1, <1>6, <2>1 DEF Shut
    <3>2. s \in w.seen \cup {r}
      BY <3>1, UpLeast
    <3> QED
      BY <1>6, <3>2
  <2>2. CASE P[r] \notin w.seen \cup {r}
    <3>1. v.at = P[r]
      BY <2>2 DEF Step
    <3>2. CASE P[r] = None
      BY <1>2, <3>2, UpUnfolds
    <3>3. CASE P[r] # None
      <4>1. Up(P, r) = {r} \cup Up(P, P[r]) /\ P[r] \in Role
        BY <3>3, UpUnfolds
      <4> QED
        BY <1>2, <3>1, <4>1
    <3> QED
      BY <3>2, <3>3
  <2> QED
    BY <2>1, <2>2
<1>8. ASSUME NEW s \in R PROVE Heard(v.got, b[s]) \/ \E x \in Ahead(v, G) : s \in Up(P, x)
  <2>1. CASE Heard(w.got, b[s])
    BY <1>5, <2>1
  <2>2. CASE \E x \in Ahead(w, G) : s \in Up(P, x)
    <3>1. PICK x \in Ahead(w, G) : s \in Up(P, x)
      BY <2>2
    <3>2. CASE x = r
      BY <1>1, <1>3, <1>7, <3>1, <3>2
    <3>3. CASE x # r
      <4>1. x \in v.todo
        BY <1>1, <3>3
      <4> QED
        BY <1>1, <3>1, <4>1
    <3> QED
      BY <3>2, <3>3
  <2> QED
    BY <2>1, <2>2 DEF OnTrack
<1>9. \A x \in v.seen : Heard(v.got, b[x]) /\ P[x] \in v.seen \cup {v.at}
  <2>1. CASE v.at = None
    BY <2>1
  <2>2. CASE v.at # None
    <3>1. v.at = P[r] /\ v.seen = w.seen \cup {r}
      BY <2>2 DEF Step
    <3> QED
      BY <1>6, <3>1
  <2> QED
    BY <2>1, <2>2
<1>10. v.todo \subseteq R /\ v.seen \subseteq R
  BY <1>1 DEF OnTrack
<1> QED
  BY <1>2, <1>3, <1>4, <1>8, <1>9, <1>10 DEF OnTrack

TablesRest == UNCHANGED <<scene, role, bound, userRoles, groupRoles, job, news, edits>>

LEMMA RestingTables ==
  ASSUME FreshInv, TablesRest
  PROVE  /\ TablesOk' /\ JobsOk' /\ (\A u \in User : Steady(u)) /\ (\A u \in User : Waits(u)' <=> Waits(u))
         /\ (Writing' <=> Writing) /\ \A n \in Node, u \in User : Told(n, u)' <=> Told(n, u)
<1>1. TablesOk' /\ \A u \in User : Steady(u)
  BY TablesStay DEF FreshInv, TablesRest
<1>2. JobsOk'
  BY DEF FreshInv, JobsOk, JobOk, Live, Born, TablesRest
<1> QED
  BY <1>1, <1>2 DEF TablesRest, Waits, Writing, Told, Doing

\* When a walk is bound to be on track, and what it is then.
Sure(w, undoubted) == (w.slow /\ quiet > 1) \/ (~ w.slow /\ quiet > 0) \/ undoubted
InOrder(w, u) == OnTrack(w, Reach(u), ParentOf, bound, ViaGroup(u))

\* The walk of one node goes on, as w.
LEMMA WalkMoves ==
  ASSUME FreshInv, TablesRest, quiet' = quiet, NEW n \in Asked, NEW w \in WalkRow, walk' = [walk EXCEPT ![n] = w],
         w.phase # "idle" => w.u \in User /\ (Sure(w, <<n, w.u>> \notin doubt' /\ ~ Waits(w.u)) => InOrder(w, w.u)),
         \A m \in Node, u \in User : m # n /\ <<m, u>> \in doubt => <<m, u>> \in doubt'
  PROVE  /\ walk' \in [Node -> WalkRow] /\ (\A m \in Node : walk'[m].phase # "idle" => m \in Asked /\ walk'[m].u \in User)
         /\ WalksAreRight'
<1>0. n \in Node
  BY AccessAssumption
<1>1. walk \in [Node -> WalkRow] /\ \A m \in Node : walk[m].phase # "idle" => m \in Asked /\ walk[m].u \in User
  BY DEF FreshInv, FreshShapes
<1>2. walk'[n] = w /\ \A m \in Node \ {n} : walk'[m] = walk[m]
  BY <1>0, <1>1
<1>3. TablesOk' /\ (\A u \in User : Steady(u)) /\ (\A u \in User : Waits(u)' <=> Waits(u))
  BY RestingTables
<1>4. ASSUME NEW m \in Node, NEW u \in User, Walking(m, u)', Sure(walk'[m], <<m, u>> \notin doubt' /\ ~ Waits(u))
      PROVE  OnTrack(walk'[m], Reach(u)', ParentOf', bound', ViaGroup(u)')
  <2>1. OnTrack(walk'[m], Reach(u), ParentOf, bound, ViaGroup(u))
    <3>1. CASE m = n
      <4>1. walk'[m] = w /\ w.phase # "idle" /\ w.u = u
        BY <1>2, <1>4, <3>1 DEF Walking
      <4>2. Sure(w, <<n, w.u>> \notin doubt' /\ ~ Waits(w.u))
        BY <1>4, <3>1, <4>1
      <4> QED
        BY <4>1, <4>2 DEF InOrder
    <3>2. CASE m # n
      <4>1. walk'[m] = walk[m] /\ Walking(m, u)
        BY <1>2, <1>4, <3>2 DEF Walking
      <4>2. \/ walk[m].slow /\ quiet > 1
            \/ ~ walk[m].slow /\ quiet > 0
            \/ <<m, u>> \notin doubt /\ ~ Waits(u)
        BY <1>4, <3>2, <4>1 DEF Sure
      <4> QED
        BY <4>1, <4>2 DEF FreshInv, WalksAreRight
    <3> QED
      BY <3>1, <3>2
  <2> QED
    BY <1>3, <2>1, SteadyWalk DEF FreshInv
<1>5. WalksAreRight'
  <2>1. ASSUME NEW m \in Node, NEW u \in User, Walking(m, u)',
               \/ walk'[m].slow /\ quiet' > 1
               \/ ~ walk'[m].slow /\ quiet' > 0
               \/ <<m, u>> \notin doubt' /\ ~ Waits(u)'
        PROVE  OnTrack(walk'[m], Reach(u)', ParentOf', bound', ViaGroup(u)')
    <3>1. Sure(walk'[m], <<m, u>> \notin doubt' /\ ~ Waits(u))
      BY <1>3, <2>1 DEF Sure
    <3> QED
      BY <1>4, <2>1, <3>1
  <2> QED
    BY <2>1 DEF WalksAreRight
<1>6. walk' \in [Node -> WalkRow] /\ \A m \in Node : walk'[m].phase # "idle" => m \in Asked /\ walk'[m].u \in User
  BY <1>1, <1>2
<1> QED
  BY <1>5, <1>6

\* The walks go on and no answer comes or goes.
LEMMA WalkOnly ==
  ASSUME FreshInv, TablesRest, UNCHANGED <<quiet, cache>>, NEW n \in Asked, NEW w \in WalkRow, walk' = [walk EXCEPT ![n] = w],
         w.phase # "idle" => w.u \in User /\ (Sure(w, <<n, w.u>> \notin doubt' /\ ~ Waits(w.u)) => InOrder(w, w.u)),
         \A m \in Node, u \in User : <<m, u>> \in doubt => <<m, u>> \in doubt' \/ (m = n /\ ~ Cached(m, u))
  PROVE  FreshInv'
<1>1. /\ walk' \in [Node -> WalkRow] /\ (\A m \in Node : walk'[m].phase # "idle" => m \in Asked /\ walk'[m].u \in User)
      /\ WalksAreRight'
  BY WalkMoves
<1>2. /\ TablesOk' /\ JobsOk' /\ (\A u \in User : Steady(u)) /\ (\A u \in User : Waits(u)' <=> Waits(u))
      /\ (Writing' <=> Writing) /\ \A m \in Node, u \in User : Told(m, u)' <=> Told(m, u)
  BY RestingTables
<1>3. \A m \in Node, u \in User : Cached(m, u)' <=> Cached(m, u)
  BY DEF Cached
<1>4. FreshShapes'
  BY <1>1, <1>3 DEF FreshInv, FreshShapes, TablesRest
<1>5. AnswersAreRight'
  <2>1. ASSUME NEW m \in Node, NEW u \in User, Cached(m, u)',
               \/ quiet' + cache'[m][u].life > Ttl + 1
               \/ <<m, u>> \notin doubt' /\ ~ Told(m, u)' /\ ~ Waits(u)'
        PROVE  Right(cache'[m][u].got, Reach(u)', bound')
    <3>1. Right(cache[m][u].got, Reach(u), bound)
      BY <1>2, <1>3, <2>1 DEF FreshInv, AnswersAreRight
    <3> QED
      BY <1>2, <3>1, SteadyAnswer
  <2> QED
    BY <2>1 DEF AnswersAreRight
<1>6. WritesAreTold'
  BY <1>2, <1>3 DEF WritesAreTold, FreshInv
<1> QED
  BY <1>1, <1>2, <1>4, <1>5, <1>6 DEF FreshInv

LEMMA BeginFresh ==
  ASSUME FreshInv, NEW n \in Asked, NEW u \in User, Begin(n, u)
  PROVE  FreshInv'
<1> DEFINE w == [NoWalk EXCEPT !.u = u, !.phase = "groups", !.todo = WithParents(Direct(u))]
<1>1. /\ TablesRest /\ UNCHANGED <<quiet, cache>> /\ walk' = [walk EXCEPT ![n] = w] /\ ~ Cached(n, u)
      /\ doubt' = doubt \ {<<n, u>>}
  BY DEF Begin, TablesRest, tables
<1>2. PICK P \in Parents, R \in SUBSET Role : /\ P = ParentOf /\ R = Reach(u) /\ Shut(P, R) /\ Direct(u) \subseteq R
                                             /\ ViaGroup(u) \subseteq R
  BY ReachIsShut DEF FreshInv
<1>3. WithParents(Direct(u)) \subseteq R /\ Direct(u) \subseteq WithParents(Direct(u))
  <2>1. \A r \in Direct(u) : Parent(r) \in R \cup {None}
    BY <1>2 DEF ParentOf, Shut
  <2> QED
    BY <1>2, <2>1 DEF WithParents
<1>4. /\ w.u = u /\ w.phase = "groups" /\ w.todo = WithParents(Direct(u)) /\ w.at = None /\ w.seen = {} /\ w.got = Bare
      /\ w.slow = FALSE
  BY DEF NoWalk
<1>5. w \in WalkRow
  <2>1. PICK S \in SUBSET Role : S = WithParents(Direct(u))
    BY <1>2, <1>3
  <2>2. NoWalk \in WalkRow
    BY GrantsThere DEF NoWalk, WalkRow
  <2>3. [NoWalk EXCEPT !.u = u, !.phase = "groups", !.todo = S] \in WalkRow
    BY <2>2 DEF WalkRow
  <2> QED
    BY <2>1, <2>3
<1> HIDE DEF w
<1>6. InOrder(w, u)
  <2>1. Sourced(w.got, Reach(u), bound)
    BY <1>4 DEF Sourced, Bare
  <2>2. \A s \in R : \E x \in Ahead(w, ViaGroup(u)) : s \in Up(P, x)
    BY <1>2, <1>3, <1>4 DEF Reach, Ahead
  <2> QED
    BY <1>2, <1>3, <1>4, <2>1, <2>2, GrantsThere DEF InOrder, OnTrack
<1> QED
  BY <1>1, <1>4, <1>5, <1>6, WalkOnly

\* A walk that goes on for the same user is on track if it was.
LEMMA WalkGoesOn ==
  ASSUME FreshInv, TablesRest, UNCHANGED <<quiet, cache, doubt>>, NEW n \in Asked, NEW w \in WalkRow,
         walk' = [walk EXCEPT ![n] = w], walk[n].phase # "idle", w.u = walk[n].u, w.slow = walk[n].slow,
         \A u \in User : walk[n].u = u /\ InOrder(walk[n], u) => InOrder(w, u)
  PROVE  FreshInv'
<1>1. n \in Node /\ walk[n].u \in User
  BY AccessAssumption DEF FreshInv, FreshShapes
<1>2. PICK u \in User : u = walk[n].u
  BY <1>1
<1>3. ASSUME Sure(w, <<n, w.u>> \notin doubt' /\ ~ Waits(w.u)) PROVE InOrder(w, w.u)
  <2>1. \/ walk[n].slow /\ quiet > 1
        \/ ~ walk[n].slow /\ quiet > 0
        \/ <<n, u>> \notin doubt /\ ~ Waits(u)
    BY <1>2, <1>3 DEF Sure
  <2>2. OnTrack(walk[n], Reach(u), ParentOf, bound, ViaGroup(u))
    BY <1>1, <1>2, <2>1 DEF FreshInv, WalksAreRight, Walking
  <2> QED
    BY <1>2, <2>2 DEF InOrder
<1> QED
  BY <1>1, <1>3, WalkOnly

LEMMA AddGroupsFresh ==
  ASSUME FreshInv, NEW n \in Asked, AddGroups(n)
  PROVE  FreshInv'
<1>1. /\ n \in Node /\ walk[n].phase = "groups" /\ walk[n].u \in User /\ walk[n] \in WalkRow
      /\ TablesRest /\ UNCHANGED <<quiet, cache, doubt>>
      /\ walk' = [walk EXCEPT ![n] = [walk[n] EXCEPT !.phase = "walk", !.todo = walk[n].todo \cup WithParents(ViaGroup(walk[n].u))]]
  <2>1. /\ n \in Node /\ walk[n].phase = "groups" /\ walk[n].u \in User /\ walk[n] \in WalkRow
    BY AccessAssumption DEF AddGroups, FreshInv, FreshShapes
  <2>2. TablesRest /\ UNCHANGED <<quiet, cache, doubt>>
    BY DEF AddGroups, TablesRest, tables, past
  <2>3. walk' = [walk EXCEPT ![n] = [walk[n] EXCEPT !.phase = "walk", !.todo = walk[n].todo \cup WithParents(ViaGroup(walk[n].u))]]
    BY DEF AddGroups
  <2> QED
    BY <2>1, <2>2, <2>3
<1>2. PICK u \in User : u = walk[n].u
  BY <1>1
<1>3. PICK P \in Parents, R \in SUBSET Role : P = ParentOf /\ R = Reach(u) /\ Shut(P, R) /\ ViaGroup(u) \subseteq R
  BY ReachIsShut DEF FreshInv
<1>4. PICK V \in SUBSET R : V = WithParents(ViaGroup(u)) /\ ViaGroup(u) \subseteq V
  <2>1. \A r \in ViaGroup(u) : Parent(r) \in R \cup {None}
    BY <1>3 DEF ParentOf, Shut
  <2>2. WithParents(ViaGroup(u)) \subseteq R /\ ViaGroup(u) \subseteq WithParents(ViaGroup(u))
    BY <1>3, <2>1 DEF WithParents
  <2> QED
    BY <2>2
<1>5. PICK T \in SUBSET Role : T = walk[n].todo \cup V
  BY <1>1, <1>4 DEF WalkRow
<1>6. PICK w \in WalkRow : /\ walk' = [walk EXCEPT ![n] = w] /\ w.phase = "walk" /\ w.todo = T /\ w.u = u
                           /\ w.at = walk[n].at /\ w.seen = walk[n].seen /\ w.got = walk[n].got /\ w.slow = walk[n].slow
  <2>1. [walk[n] EXCEPT !.phase = "walk", !.todo = T] \in WalkRow
    BY <1>1 DEF WalkRow
  <2>2. walk' = [walk EXCEPT ![n] = [walk[n] EXCEPT !.phase = "walk", !.todo = T]]
    BY <1>1, <1>2, <1>4, <1>5
  <2> QED
    BY <1>1, <1>2, <2>1, <2>2 DEF WalkRow
<1>7. ASSUME InOrder(walk[n], u) PROVE InOrder(w, u)
  <2>1. Ahead(walk[n], ViaGroup(u)) \subseteq Ahead(w, ViaGroup(u))
    BY <1>1, <1>4, <1>5, <1>6 DEF Ahead
  <2>2. w.todo \subseteq R
    BY <1>3, <1>4, <1>5, <1>6, <1>7 DEF InOrder, OnTrack
  <2>3. \A s \in R : Heard(w.got, bound[s]) \/ \E x \in Ahead(w, ViaGroup(u)) : s \in Up(P, x)
    BY <1>3, <1>6, <1>7, <2>1 DEF InOrder, OnTrack
  <2> QED
    BY <1>3, <1>6, <1>7, <2>2, <2>3 DEF InOrder, OnTrack
<1>8. \A v \in User : walk[n].u = v /\ InOrder(walk[n], v) => InOrder(w, v)
  BY <1>2, <1>7
<1>9. walk[n].phase # "idle" /\ w.u = walk[n].u
  BY <1>1, <1>2, <1>6
<1> QED
  BY <1>1, <1>6, <1>8, <1>9, WalkGoesOn

LEMMA ClimbFresh ==
  ASSUME FreshInv, NEW n \in Asked, Climb(n)
  PROVE  FreshInv'
<1>1. /\ n \in Node /\ walk[n].phase = "walk" /\ walk[n].u \in User /\ walk[n] \in WalkRow
      /\ TablesRest /\ UNCHANGED <<quiet, cache, doubt>>
  BY AccessAssumption DEF Climb, TablesRest, tables, past, FreshInv, FreshShapes
<1>2. PICK r \in (IF walk[n].at = None THEN walk[n].todo ELSE {walk[n].at}) : walk' = [walk EXCEPT ![n] = Climbed(walk[n], r)]
  BY DEF Climb
<1>3. r \in Role /\ IF walk[n].at = None THEN r \in walk[n].todo ELSE r = walk[n].at
  BY <1>1, <1>2 DEF WalkRow
<1>4. PICK u \in User : u = walk[n].u
  BY <1>1
<1>5. PICK P \in Parents, R \in SUBSET Role : P = ParentOf /\ R = Reach(u) /\ Shut(P, R)
  BY ReachIsShut DEF FreshInv
<1>6. bound \in [Role -> Grants]
  BY DEF FreshInv, TablesOk
<1>7. PICK up, g, T, S : /\ up = Step(P, r, walk[n].seen) /\ g = Merge(walk[n].got, bound[r])
                         /\ T = (IF walk[n].at = None THEN walk[n].todo \ {r} ELSE walk[n].todo)
                         /\ S = (IF up = None THEN {} ELSE walk[n].seen \cup {r})
  OBVIOUS
<1>8. up \in Role \cup {None} /\ g \in Grants /\ T \in SUBSET Role /\ S \in SUBSET Role
  BY <1>1, <1>3, <1>6, <1>7, MergeHears DEF WalkRow, Step, Parents
<1>9. Climbed(walk[n], r) = [walk[n] EXCEPT !.got = g, !.todo = T, !.at = up, !.seen = S]
  <2>1. up = NextUp(r, walk[n].seen)
    BY <1>3, <1>5, <1>7 DEF Step, NextUp, ParentOf
  <2> QED
    BY <1>7, <2>1 DEF Climbed
<1>10. PICK w \in WalkRow : /\ walk' = [walk EXCEPT ![n] = w] /\ w.phase = "walk" /\ w.todo = T /\ w.u = u
                            /\ w.at = up /\ w.seen = S /\ w.got = g /\ w.slow = walk[n].slow
  <2>1. [walk[n] EXCEPT !.got = g, !.todo = T, !.at = up, !.seen = S] \in WalkRow
    BY <1>1, <1>8 DEF WalkRow
  <2> QED
    BY <1>1, <1>2, <1>4, <1>9, <2>1 DEF WalkRow
<1>11. ASSUME InOrder(walk[n], u) PROVE InOrder(w, u)
  <2>1. PICK G, b : G = ViaGroup(u) /\ b = bound
    OBVIOUS
  <2>2. OnTrack(walk[n], R, P, b, G) /\ b \in [Role -> Grants]
    BY <1>5, <1>6, <1>11, <2>1 DEF InOrder
  <2>3. PICK v : v = walk[n]
    OBVIOUS
  <2>4. OnTrack(w, R, P, b, G)
    BY <1>1, <1>3, <1>5, <1>7, <1>10, <2>1, <2>2, <2>3, ClimbOnTrack
  <2> QED
    BY <1>5, <2>1, <2>4 DEF InOrder
<1>12. \A v \in User : walk[n].u = v /\ InOrder(walk[n], v) => InOrder(w, v)
  BY <1>4, <1>11
<1>13. walk[n].phase # "idle" /\ w.u = walk[n].u
  BY <1>1, <1>4, <1>10
<1> QED
  BY <1>1, <1>10, <1>12, <1>13, WalkGoesOn

\* A walk that has come to its end has heard everything.
LEMMA WalkEnds ==
  ASSUME NEW u \in User, NEW w, InOrder(w, u), w.phase = "walk", w.todo = {}, w.at = None
  PROVE  Right(w.got, Reach(u), bound)
<1>1. Ahead(w, ViaGroup(u)) = {}
  BY DEF Ahead
<1> QED
  BY <1>1 DEF InOrder, OnTrack, Right

LEMMA KeepFresh ==
  ASSUME FreshInv, NEW n \in Asked, Keep(n)
  PROVE  FreshInv'
<1>1. /\ n \in Node /\ walk[n].phase = "walk" /\ walk[n].todo = {} /\ walk[n].at = None
      /\ walk[n].u \in User /\ walk[n] \in WalkRow /\ cache \in [Node -> [User -> Entry]]
      /\ TablesRest /\ quiet' = quiet /\ walk' = [walk EXCEPT ![n] = NoWalk]
      /\ cache' = [cache EXCEPT ![n] = [cache[n] EXCEPT ![walk[n].u] = [got |-> walk[n].got, life |-> Ttl]]]
      /\ doubt' = IF Writing THEN doubt \cup {<<n, walk[n].u>>} ELSE doubt
  BY AccessAssumption DEF Keep, Writing, TablesRest, tables, past, FreshInv, FreshShapes
<1>2. PICK u \in User : u = walk[n].u
  BY <1>1
<1>3. PICK c \in Entry : c = [got |-> walk[n].got, life |-> Ttl] /\ c.got = walk[n].got /\ c.life = Ttl
  BY <1>1, AccessAssumption DEF WalkRow, Entry
<1>4. /\ cache' \in [Node -> [User -> Entry]] /\ cache'[n][u] = c
      /\ \A m \in Node, v \in User : ~ (m = n /\ v = u) => cache'[m][v] = cache[m][v]
  BY <1>1, <1>2, <1>3
<1>5. NoWalk \in WalkRow /\ NoWalk.phase = "idle"
  BY GrantsThere DEF NoWalk, WalkRow
<1>6. /\ walk' \in [Node -> WalkRow] /\ (\A m \in Node : walk'[m].phase # "idle" => m \in Asked /\ walk'[m].u \in User)
      /\ WalksAreRight'
  BY <1>1, <1>5, WalkMoves
<1>7. /\ TablesOk' /\ JobsOk' /\ (\A v \in User : Steady(v)) /\ (\A v \in User : Waits(v)' <=> Waits(v))
      /\ (Writing' <=> Writing) /\ \A m \in Node, v \in User : Told(m, v)' <=> Told(m, v)
  BY <1>1, RestingTables
<1>8. \A m \in Node, v \in User : ~ (m = n /\ v = u) => (Cached(m, v)' <=> Cached(m, v))
  BY <1>4 DEF Cached
<1>9. FreshShapes'
  BY <1>1, <1>4, <1>6, <1>8 DEF FreshInv, FreshShapes, TablesRest
<1>10. ASSUME NEW m \in Node, NEW v \in User, Cached(m, v)',
              \/ quiet' + cache'[m][v].life > Ttl + 1
              \/ <<m, v>> \notin doubt' /\ ~ Told(m, v)' /\ ~ Waits(v)'
       PROVE  Right(cache'[m][v].got, Reach(v)', bound')
  <2>1. Right(cache'[m][v].got, Reach(v), bound)
    <3>1. CASE m = n /\ v = u
      <4>1. \/ walk[n].slow /\ quiet > 1
            \/ ~ walk[n].slow /\ quiet > 0
            \/ <<n, u>> \notin doubt /\ ~ Waits(u)
        <5>1. quiet + Ttl > Ttl + 1 => quiet > 1
          BY AccessAssumption DEF FreshInv, FreshShapes
        <5>2. quiet \in Int
          BY DEF FreshInv, FreshShapes
        <5> QED
          BY <1>1, <1>3, <1>4, <1>7, <1>10, <3>1, <5>1, <5>2
      <4>2. InOrder(walk[n], u)
        BY <1>1, <1>2, <4>1 DEF FreshInv, WalksAreRight, Walking, InOrder
      <4>3. Right(walk[n].got, Reach(u), bound)
        BY <1>1, <4>2, WalkEnds
      <4> QED
        BY <1>3, <1>4, <3>1, <4>3
    <3>2. CASE ~ (m = n /\ v = u)
      <4>1. Cached(m, v) /\ cache'[m][v] = cache[m][v]
        BY <1>4, <1>8, <1>10, <3>2
      <4>2. <<m, v>> \notin doubt' => <<m, v>> \notin doubt
        BY <1>1
      <4> QED
        BY <1>1, <1>7, <1>10, <4>1, <4>2 DEF FreshInv, AnswersAreRight
    <3> QED
      BY <3>1, <3>2
  <2> QED
    BY <1>7, <2>1, SteadyAnswer
<1>11. AnswersAreRight'
  BY <1>10 DEF AnswersAreRight
<1>12. WritesAreTold'
  <2>1. ASSUME Writing', NEW m \in Node, NEW v \in User, Cached(m, v)' PROVE <<m, v>> \in doubt' \/ Told(m, v)'
    <3>1. CASE m = n /\ v = u
      BY <1>1, <1>2, <1>7, <2>1, <3>1
    <3>2. CASE ~ (m = n /\ v = u)
      BY <1>1, <1>7, <1>8, <2>1, <3>2 DEF FreshInv, WritesAreTold
    <3> QED
      BY <3>1, <3>2
  <2> QED
    BY <2>1 DEF WritesAreTold
<1> QED
  BY <1>6, <1>7, <1>9, <1>11, <1>12 DEF FreshInv

LEMMA AgedEntry ==
  ASSUME NEW c \in Entry
  PROVE  Aged(c) \in Entry /\ (Aged(c).life > 0 => Aged(c).life = c.life - 1 /\ Aged(c).got = c.got /\ c.life > 0)
<1>1. c.life \in 0..Ttl /\ Ttl \in Nat \ {0}
  BY AccessAssumption DEF Entry
<1>2. CASE c.life > 1
  <2>1. Aged(c) = [c EXCEPT !.life = c.life - 1]
    BY <1>2 DEF Aged
  <2>2. c.life - 1 \in 0..Ttl
    BY <1>1, <1>2
  <2> QED
    BY <1>1, <1>2, <2>1, <2>2 DEF Entry
<1>3. CASE ~ (c.life > 1)
  <2>1. Aged(c) = NoEntry
    BY <1>3 DEF Aged
  <2> QED
    BY <1>1, <2>1, GrantsThere DEF NoEntry, Entry
<1> QED
  BY <1>2, <1>3

LEMMA TickFresh ==
  ASSUME FreshInv, Tick
  PROVE  FreshInv'
<1>1. /\ TablesRest /\ doubt' = doubt /\ \A n \in Node : ~ walk[n].slow
      /\ walk' = [n \in Node |-> [walk[n] EXCEPT !.slow = (walk[n].slow \/ walk[n].phase # "idle")]]
      /\ cache' = [n \in Node |-> [u \in User |-> Aged(cache[n][u])]]
      /\ quiet' = IF quiet > Ttl THEN quiet ELSE quiet + 1
  BY DEF Tick, TablesRest, tables
<1>2. /\ TablesOk' /\ JobsOk' /\ (\A u \in User : Steady(u)) /\ (\A u \in User : Waits(u)' <=> Waits(u))
      /\ (Writing' <=> Writing) /\ \A n \in Node, u \in User : Told(n, u)' <=> Told(n, u)
  BY <1>1, RestingTables
<1>3. /\ walk \in [Node -> WalkRow] /\ cache \in [Node -> [User -> Entry]] /\ quiet \in 0..(Ttl + 1) /\ Ttl \in Nat \ {0}
  BY AccessAssumption DEF FreshInv, FreshShapes
<1>4. ASSUME NEW n \in Node
      PROVE  /\ walk'[n] \in WalkRow /\ walk'[n].phase = walk[n].phase /\ walk'[n].u = walk[n].u
             /\ walk'[n].todo = walk[n].todo /\ walk'[n].at = walk[n].at /\ walk'[n].seen = walk[n].seen
             /\ walk'[n].got = walk[n].got /\ (walk[n].phase # "idle" => walk'[n].slow = TRUE)
  <2>1. PICK b \in BOOLEAN : b = (walk[n].slow \/ walk[n].phase # "idle")
    OBVIOUS
  <2>2. walk'[n] = [walk[n] EXCEPT !.slow = b] /\ walk[n] \in WalkRow
    BY <1>1, <1>3, <2>1, Zenon
  <2> QED
    BY <2>1, <2>2 DEF WalkRow
<1>5. ASSUME NEW n \in Node, NEW u \in User
      PROVE  /\ cache'[n][u] \in Entry
             /\ Cached(n, u)' => /\ Cached(n, u) /\ cache'[n][u].got = cache[n][u].got
                                 /\ cache'[n][u].life = cache[n][u].life - 1
  <2>1. cache'[n][u] = Aged(cache[n][u]) /\ cache[n][u] \in Entry
    BY <1>1, <1>3
  <2>2. PICK c \in Entry : c = cache[n][u]
    BY <2>1
  <2> QED
    BY <2>1, <2>2, AgedEntry DEF Cached
<1>6. FreshShapes'
  <2>1. walk' \in [Node -> WalkRow] /\ \A n \in Node : walk'[n].phase # "idle" => n \in Asked /\ walk'[n].u \in User
    BY <1>1, <1>4 DEF FreshInv, FreshShapes
  <2>2. cache' \in [Node -> [User -> Entry]] /\ \A n \in Node, u \in User : Cached(n, u)' => n \in Asked
    BY <1>1, <1>5 DEF FreshInv, FreshShapes
  <2>3. quiet' \in 0..(Ttl + 1)
    BY <1>1, <1>3
  <2> QED
    BY <1>1, <2>1, <2>2, <2>3 DEF FreshInv, FreshShapes, TablesRest
<1>7. ASSUME NEW n \in Node, NEW u \in User, Walking(n, u)',
             \/ walk'[n].slow /\ quiet' > 1
             \/ ~ walk'[n].slow /\ quiet' > 0
             \/ <<n, u>> \notin doubt' /\ ~ Waits(u)'
      PROVE  OnTrack(walk'[n], Reach(u)', ParentOf', bound', ViaGroup(u)')
  <2>0. walk'[n].phase # "idle" /\ walk'[n].u = u /\ walk'[n].phase = walk[n].phase /\ walk'[n].u = walk[n].u
    BY <1>4, <1>7 DEF Walking
  <2>1. Walking(n, u) /\ walk'[n].slow = TRUE /\ ~ walk[n].slow
    BY <1>1, <1>4, <2>0 DEF Walking
  <2>2. quiet' > 1 => quiet > 0
    BY <1>1, <1>3
  <2>3. (~ walk[n].slow /\ quiet > 0) \/ (<<n, u>> \notin doubt /\ ~ Waits(u))
    BY <1>1, <1>2, <1>7, <2>1, <2>2
  <2>4. OnTrack(walk[n], Reach(u), ParentOf, bound, ViaGroup(u))
    BY <2>1, <2>3 DEF FreshInv, WalksAreRight
  <2>5. OnTrack(walk'[n], Reach(u), ParentOf, bound, ViaGroup(u))
    BY <1>4, <2>4 DEF OnTrack, Ahead
  <2> QED
    BY <1>2, <2>5, SteadyWalk DEF FreshInv
<1>8. ASSUME NEW n \in Node, NEW u \in User, Cached(n, u)',
             \/ quiet' + cache'[n][u].life > Ttl + 1
             \/ <<n, u>> \notin doubt' /\ ~ Told(n, u)' /\ ~ Waits(u)'
      PROVE  Right(cache'[n][u].got, Reach(u)', bound')
  <2>1. /\ Cached(n, u) /\ cache'[n][u].got = cache[n][u].got /\ cache'[n][u].life = cache[n][u].life - 1
        /\ cache[n][u].life \in Int
    BY <1>3, <1>5, <1>8 DEF Entry
  <2>2. quiet' + cache'[n][u].life > Ttl + 1 => quiet + cache[n][u].life > Ttl + 1
    BY <1>1, <1>3, <2>1
  <2>3. Right(cache[n][u].got, Reach(u), bound)
    BY <1>1, <1>2, <1>8, <2>1, <2>2 DEF FreshInv, AnswersAreRight
  <2> QED
    BY <1>2, <2>1, <2>3, SteadyAnswer
<1>9. WalksAreRight' /\ AnswersAreRight'
  BY <1>7, <1>8 DEF WalksAreRight, AnswersAreRight
<1>10. WritesAreTold'
  BY <1>1, <1>2, <1>5 DEF FreshInv, WritesAreTold
<1> QED
  BY <1>2, <1>6, <1>9, <1>10 DEF FreshInv

LEMMA FreshStep == FreshInv /\ [Next]_vars => FreshInv'
<1> SUFFICES ASSUME FreshInv, [Next]_vars PROVE FreshInv'
  OBVIOUS
<1>1. CASE UNCHANGED vars
  BY <1>1, StillFresh DEF vars, tables, answers, past
<1>2. CASE \E n \in Asked : Compute(n)
  BY <1>2, BeginFresh, AddGroupsFresh, ClimbFresh, KeepFresh DEF Compute
<1>3. CASE \E e \in Editor : Edit(e)
  BY <1>3, EditFresh
<1>4. CASE \E m \in news : Hear(m)
  BY <1>4, HearFresh
<1> QED
  BY <1>1, <1>2, <1>3, <1>4, KeyFresh, TickFresh DEF Next

LEMMA InitFresh == Init => FreshInv
<1> SUFFICES ASSUME Init PROVE FreshInv
  OBVIOUS
<1>1. TablesOk /\ JobsOk
  BY InitTables
<1>2. /\ \A e \in Editor : job[e] = Idle
      /\ walk = [n \in Node |-> NoWalk] /\ cache = [n \in Node |-> [u \in User |-> NoEntry]]
      /\ news = {} /\ edits = 0 /\ quiet = 0 /\ scene \in Scenes
  BY DEF Init
<1>3. NoWalk \in WalkRow /\ NoWalk.phase = "idle" /\ NoEntry \in Entry /\ NoEntry.life = 0
  BY GrantsThere, AccessAssumption DEF NoWalk, WalkRow, NoEntry, Entry
<1>4. /\ \A n \in Node : walk[n].phase = "idle"
      /\ \A n \in Node, u \in User : ~ Cached(n, u)
  BY <1>2, <1>3 DEF Cached
<1>5. FreshShapes
  BY <1>2, <1>3, <1>4, AccessAssumption DEF FreshShapes
<1>6. WalksAreRight /\ AnswersAreRight /\ WritesAreTold
  BY <1>4 DEF WalksAreRight, AnswersAreRight, WritesAreTold, Walking
<1> QED
  BY <1>1, <1>5, <1>6 DEF FreshInv

\* What is right is what the tables say.
LEMMA EffectiveIs ==
  ASSUME TablesOk, NEW u \in User, NEW g, Right(g, Reach(u), bound)
  PROVE  g = Effective(u)
<1>1. PICK R \in SUBSET Role : R = Reach(u)
  BY ReachIsShut
<1>2. \A r \in Direct(u) \cup ViaGroup(u) : Above(r) = Up(ParentOf, r)
  BY AboveIsUp DEF TablesOk, Direct, ViaGroup
<1>3. UNION {Above(r) : r \in Direct(u) \cup ViaGroup(u)} = R
  BY <1>1, <1>2 DEF Reach
<1>4. Effective(u) = [p \in Perm |-> Max({0} \cup {bound[r][p] : r \in R})]
  BY <1>3 DEF Effective
<1>5. ASSUME NEW p \in Perm PROVE g[p] = Max({0} \cup {bound[r][p] : r \in R})
  <2> DEFINE S == {0} \cup {bound[r][p] : r \in R}
  <2>1. g[p] \in S
    BY <1>1 DEF Right, Sourced
  <2>2. \A y \in S : y \in Int /\ g[p] >= y
    <3>1. g[p] \in 0..3
      BY DEF Right, Grants
    <3>2. \A r \in R : bound[r][p] \in 0..3 /\ bound[r][p] <= g[p]
      BY <1>1 DEF Right, Heard, TablesOk, Grants
    <3> QED
      BY <3>1, <3>2
  <2> HIDE DEF S
  <2>3. \A x \in S : (\A y \in S : x >= y) => x = g[p]
    BY <2>1, <2>2
  <2>4. Max(S) = g[p]
    BY <2>1, <2>2, <2>3 DEF Max
  <2> QED
    BY <2>4 DEF S
<1>6. g = [p \in Perm |-> g[p]]
  BY DEF Right, Grants
<1> QED
  BY <1>4, <1>5, <1>6

\* The answers that a node keeps about what a user may do are what the tables say once these
\* have rested for longer than the life of an answer; and, before that, unless an edit or its
\* announcement is still on the way or the answer has been doubted (AnswersAreFresh).
THEOREM AnswersHold == NodeSpec => []AnswersAreFresh
<1>1. NodeInit => FreshInv
  BY InitFresh DEF NodeInit
<1>2. FreshInv /\ [NodeNext]_<<vars, options, sessions, log>> => FreshInv'
  BY FreshStep, VarsOrNext
<1>3. FreshInv => AnswersAreFresh
  <2> SUFFICES ASSUME FreshInv PROVE AnswersAreFresh
    OBVIOUS
  <2>1. TypeOK
    <3>1. \A r \in Role : /\ role[r].state \in {"unborn", "live", "gone"} /\ role[r].parent \in Role \cup {None}
                          /\ bound[r] \in Grants /\ (~ Live(r) => bound[r] = Bare)
      BY DEF FreshInv, TablesOk, RoleRow
    <3>2. userRoles \subseteq {x \in User \X Role : Live(x[2])} /\ groupRoles \subseteq {r \in Role : Live(r)}
      BY DEF FreshInv, TablesOk
    <3>3. \A n \in Node : walk[n].got \in Grants /\ walk[n].todo \subseteq Role
      BY DEF FreshInv, FreshShapes, WalkRow
    <3>4. \A n \in Node, u \in User : cache[n][u].got \in Grants /\ cache[n][u].life \in 0..Ttl
      BY DEF FreshInv, FreshShapes, Entry
    <3>5. news \subseteq [to : Node, us : SUBSET User] /\ edits \in 0..MaxEdits /\ quiet \in 0..(Ttl + 1) /\ scene \in Scenes
      BY AccessAssumption DEF FreshInv, FreshShapes
    <3> QED
      BY <3>1, <3>2, <3>3, <3>4, <3>5 DEF TypeOK
  <2>2. StaleAtMostTtl
    <3>1. ASSUME quiet > Ttl, NEW n \in Node, NEW u \in User, Cached(n, u) PROVE cache[n][u].got = Effective(u)
      <4>1. quiet + cache[n][u].life > Ttl + 1
        BY <3>1, <2>1, AccessAssumption DEF TypeOK, Cached
      <4>2. Right(cache[n][u].got, Reach(u), bound)
        BY <3>1, <4>1 DEF FreshInv, AnswersAreRight
      <4> QED
        BY <4>2, EffectiveIs DEF FreshInv
    <3> QED
      BY <3>1 DEF StaleAtMostTtl
  <2>3. EditsReachTheCache
    <3>1. ASSUME NEW n \in Node, NEW u \in User, Cached(n, u), <<n, u>> \notin doubt, ~ Told(n, u), ~ Waits(u)
          PROVE  cache[n][u].got = Effective(u)
      <4>1. Right(cache[n][u].got, Reach(u), bound)
        BY <3>1 DEF FreshInv, AnswersAreRight
      <4> QED
        BY <4>1, EffectiveIs DEF FreshInv
    <3> QED
      BY <3>1 DEF EditsReachTheCache, Told, Waits
  <2> QED
    BY <2>1, <2>2, <2>3 DEF AnswersAreFresh
<1> QED
  BY <1>1, <1>2, <1>3, PTL DEF NodeSpec

-----------------------------------------------------------------------------
(* The log: numbers of days and rolls *)

LEMMA DivIs ==
  ASSUME NEW a \in Int, NEW d \in Nat \ {0}
  PROVE  /\ a \div d \in Int /\ (a \div d) * d <= a /\ a < (a \div d) * d + d
         /\ a \in Nat => a \div d \in Nat
  OBVIOUS

LEMMA LessTimes ==
  ASSUME NEW x \in Int, NEW y \in Int, NEW d \in Nat \ {0}, x * d < y * d
  PROVE  x < y
  OBVIOUS

LEMMA DivRises ==
  ASSUME NEW a \in Int, NEW b \in Int, NEW d \in Nat \ {0}, a <= b
  PROVE  a \div d <= b \div d
<1>1. PICK x \in Int : x = a \div d
  BY DivIs
<1>2. PICK y \in Int : y = b \div d
  BY DivIs
<1>3. x * d <= a /\ b < y * d + d
  BY <1>1, <1>2, DivIs
<1>4. y * d + d = (y + 1) * d
  BY <1>2
<1>5. x * d < (y + 1) * d
  <2>1. x * d \in Int /\ (y + 1) * d \in Int
    BY <1>1, <1>2
  <2> QED
    BY <1>3, <1>4, <2>1
<1>6. x < y + 1
  BY <1>5, LessTimes
<1> QED
  BY <1>1, <1>2, <1>6

LEMMA DivShift ==
  ASSUME NEW a \in Int, NEW b \in Int, NEW R \in Nat, NEW d \in Nat \ {0}, a < b - R * d
  PROVE  a \div d <= b \div d - R
<1>1. PICK x \in Int : x = a \div d
  BY DivIs
<1>2. PICK y \in Int : y = b \div d
  BY DivIs
<1>3. x * d <= a /\ b < y * d + d
  BY <1>1, <1>2, DivIs
<1>4. (y + 1 - R) * d = y * d + d - R * d
  <2>1. PICK z \in Int : z = y + 1
    BY <1>2
  <2>2. (z - R) * d = z * d - R * d
    OBVIOUS
  <2>3. z * d = y * d + d
    BY <1>2, <2>1
  <2>4. (y + 1 - R) * d = (z - R) * d
    BY <2>1
  <2> QED
    BY <2>2, <2>3, <2>4
<1>5. x * d < (y + 1 - R) * d
  <2>1. x * d \in Int /\ (y + 1 - R) * d \in Int /\ y * d \in Int /\ R * d \in Int
    BY <1>1, <1>2
  <2> QED
    BY <1>3, <1>4, <2>1
<1>6. x < y + 1 - R
  BY <1>5, LessTimes
<1> QED
  BY <1>1, <1>2, <1>6

LEMMA DivOfTimes ==
  ASSUME NEW k \in Int, NEW d \in Nat \ {0}
  PROVE  (k * d) \div d = k
<1>1. PICK x \in Int : x = (k * d) \div d
  BY DivIs
<1>2. x * d <= k * d /\ k * d < x * d + d
  BY <1>1, DivIs
<1>3. x * d + d = (x + 1) * d
  BY <1>1
<1>4. k < x + 1
  BY <1>1, <1>2, <1>3, LessTimes
<1>5. x <= k
  <2>1. (k + 1) * d = k * d + d
    OBVIOUS
  <2>2. x * d < (k + 1) * d
    BY <1>1, <1>2, <2>1
  <2> QED
    BY <1>1, <2>2, LessTimes
<1> QED
  BY <1>1, <1>4, <1>5

\* AuditChain counts as FiniteSets does.
LEMMA LogCounts == \A S : Log!Cardinality(S) = Cardinality(S)
  BY DEF Log!Cardinality, Cardinality

\* Sets of rows whose times are known.
Timed(rows) == rows \subseteq Log!Row /\ \A r \in rows : row[r].at \in Nat

LEMMA RowsAreFinite ==
  ASSUME NEW rows \in SUBSET Log!Row
  PROVE  IsFiniteSet(rows) /\ Cardinality(rows) \in Nat
<1>1. IsFiniteSet(Log!Row)
  BY FS_Interval, LogAssumption DEF Log!Row
<1> QED
  BY <1>1, FS_Subset, FS_CardinalityType

\* The order of creation is total.
LEMMA EarlierIsTotal ==
  ASSUME NEW rows, Timed(rows), NEW r \in rows, NEW s \in rows
  PROVE  /\ ~ Log!Earlier(r, r)
         /\ r # s => (Log!Earlier(r, s) <=> ~ Log!Earlier(s, r))
         /\ Log!Earlier(r, s) => row[r].at <= row[s].at
         /\ \A t \in rows : Log!Earlier(r, s) /\ Log!Earlier(s, t) => Log!Earlier(r, t)
<1>1. \A x \in rows : x \in Nat /\ row[x].at \in Nat
  <2>1. Log!Row \subseteq Nat
    BY LogAssumption DEF Log!Row
  <2> QED
    BY <2>1 DEF Timed
<1> QED
  BY <1>1 DEF Log!Earlier

\* A later row has a higher place.
LEMMA PlacesRise ==
  ASSUME NEW rows, Timed(rows), NEW r \in rows
  PROVE  /\ Log!Place(r, rows) \in 0..(Cardinality(rows) - 1)
         /\ \A s \in rows : Log!Earlier(r, s) => Log!Place(r, rows) < Log!Place(s, rows)
<1> DEFINE B(x) == {s \in rows : Log!Earlier(s, x)}
<1>1. \A x \in rows : Log!Place(x, rows) = Cardinality(B(x)) /\ B(x) \subseteq Log!Row
  <2>1. ASSUME NEW x \in rows PROVE Log!Place(x, rows) = Cardinality(B(x))
    BY LogCounts DEF Log!Place
  <2>2. rows \subseteq Log!Row
    BY DEF Timed
  <2> QED
    BY <2>1, <2>2
<1>2. \A x \in rows : x \notin B(x)
  BY EarlierIsTotal
<1>3. \A s \in rows : Log!Earlier(r, s) => B(r) \cup {r} \subseteq B(s)
  BY EarlierIsTotal
<1>4. B(r) \cup {r} \subseteq rows
  OBVIOUS
<1> HIDE DEF B
<1>5. \A x \in rows : IsFiniteSet(B(x)) /\ Cardinality(B(x)) \in Nat
  BY <1>1, RowsAreFinite
<1>6. Cardinality(B(r) \cup {r}) = Cardinality(B(r)) + 1
  BY <1>2, <1>5, FS_AddElement
<1>7. IsFiniteSet(rows) /\ Cardinality(rows) \in Nat
  BY RowsAreFinite DEF Timed
<1>8. Cardinality(B(r)) + 1 <= Cardinality(rows)
  BY <1>4, <1>6, <1>7, FS_Subset
<1>9. ASSUME NEW s \in rows, Log!Earlier(r, s) PROVE Cardinality(B(r)) < Cardinality(B(s))
  <2>1. Cardinality(B(r) \cup {r}) <= Cardinality(B(s))
    BY <1>3, <1>5, <1>9, FS_Subset
  <2> QED
    BY <1>5, <1>6, <2>1
<1> QED
  BY <1>1, <1>5, <1>7, <1>8, <1>9

\* Every place is taken.
LEMMA PlacesFill ==
  ASSUME NEW rows, Timed(rows), NEW k \in 0..(Cardinality(rows) - 1)
  PROVE  \E r \in rows : Log!Place(r, rows) = k
<1>1. IsFiniteSet(rows) /\ Cardinality(rows) \in Nat
  BY RowsAreFinite DEF Timed
<1>2. PICK c \in Nat : c = Cardinality(rows)
  BY <1>1
<1> DEFINE f == [r \in rows |-> Log!Place(r, rows)]
<1>3. f \in [rows -> 0..(c - 1)]
  BY <1>2, PlacesRise
<1>4. ASSUME NEW x \in rows, NEW y \in rows, f[x] = f[y] PROVE x = y
  <2>1. Log!Place(x, rows) = Log!Place(y, rows) /\ Log!Place(x, rows) \in Int
    BY <1>4, PlacesRise
  <2>2. ~ Log!Earlier(x, y) /\ ~ Log!Earlier(y, x)
    BY <2>1, PlacesRise
  <2> QED
    BY <2>2, EarlierIsTotal
<1>5. f \in Injection(rows, 0..(c - 1))
  BY <1>3, <1>4 DEF Injection, IsInjective
<1>6. IsFiniteSet(0..(c - 1)) /\ Cardinality(0..(c - 1)) = c
  BY <1>2, FS_Interval
<1>7. f \in Surjection(rows, 0..(c - 1))
  BY <1>2, <1>5, <1>6, FS_Injection
<1>8. \E r \in rows : f[r] = k
  BY <1>2, <1>7 DEF Surjection
<1> QED
  BY <1>8

LEMMA FirstIsFirst ==
  ASSUME NEW roll, Timed(roll), roll # {}
  PROVE  Log!First(roll) \in roll /\ \A s \in roll \ {Log!First(roll)} : Log!Earlier(Log!First(roll), s)
<1>1. IsFiniteSet(roll) /\ Cardinality(roll) \in Nat /\ Cardinality(roll) # 0
  BY RowsAreFinite, FS_EmptySet DEF Timed
<1>2. PICK r \in roll : Log!Place(r, roll) = 0
  BY <1>1, PlacesFill
<1>3. ASSUME NEW s \in roll \ {r} PROVE Log!Earlier(r, s)
  <2>1. CASE Log!Earlier(s, r)
    <3>1. Log!Place(s, roll) < 0 /\ Log!Place(s, roll) \in Nat
      BY <1>2, <2>1, PlacesRise
    <3> QED
      BY <3>1
  <2> QED
    BY <2>1, EarlierIsTotal
<1> QED
  BY <1>3 DEF Log!First

\* Rolls are not empty, and what is in a later roll is later.
LEMMA RollsAre ==
  ASSUME NEW rows, Timed(rows), NEW n, n = Len(Log!Rolls(rows))
  PROVE  /\ n \in Nat /\ \A i \in 1..n : \A r : r \in Log!Rolls(rows)[i] <=> r \in rows /\ Log!RollOf(r, rows) = i
         /\ \A r \in rows : Log!RollOf(r, rows) \in 1..n
         /\ \A i \in 1..n : \E r \in rows : Log!RollOf(r, rows) = i
         /\ \A r, s \in rows : Log!RollOf(r, rows) < Log!RollOf(s, rows) => Log!Earlier(r, s)
<1>1. PICK c \in Nat : c = Cardinality(rows)
  BY RowsAreFinite DEF Timed
<1>2. PICK b \in Nat \ {0} : b = Batch
  BY LogAssumption
<1>3. PICK q \in Nat : q = (c + b - 1) \div b
  <2>1. c + b - 1 \in Nat
    OBVIOUS
  <2> QED
    BY <2>1, DivIs
<1>4. Log!Rolls(rows) = [i \in 1..q |-> {r \in rows : Log!RollOf(r, rows) = i}]
  <2>1. Log!Rolls(rows) = [i \in 1..((Cardinality(rows) + Batch - 1) \div Batch) |-> {r \in rows : Log!RollOf(r, rows) = i}]
    BY LogCounts DEF Log!Rolls
  <2>2. (Cardinality(rows) + Batch - 1) \div Batch = q
    BY <1>1, <1>2, <1>3
  <2> QED
    BY <2>1, <2>2
<1>5. n = q
  BY <1>3, <1>4
<1>6. ASSUME NEW r \in rows
      PROVE  Log!RollOf(r, rows) \in 1..q
  <2>1. PICK p \in 0..(c - 1) : p = Log!Place(r, rows)
    BY <1>1, PlacesRise
  <2>2. PICK x \in Nat : x = p \div b
    BY <2>1, DivIs
  <2>3. x * b <= p
    BY <2>2, DivIs
  <2>4. c + b - 1 < q * b + b
    BY <1>3, DivIs
  <2>5. (x + 1) * b < (q + 1) * b
    <3>1. (x + 1) * b = x * b + b /\ (q + 1) * b = q * b + b
      OBVIOUS
    <3>2. x * b \in Int /\ q * b \in Int
      OBVIOUS
    <3> QED
      BY <2>3, <2>4, <3>1, <3>2
  <2>6. x + 1 < q + 1
    BY <2>5, LessTimes
  <2> QED
    BY <1>2, <2>1, <2>2, <2>6 DEF Log!RollOf
<1>7. ASSUME NEW i \in 1..q
      PROVE  \E r \in rows : Log!RollOf(r, rows) = i
  <2>1. q * b <= c + b - 1
    BY <1>3, DivIs
  <2>2. PICK k \in Nat : k = i - 1
    OBVIOUS
  <2>3. k * b + b <= c + b - 1
    <3>1. PICK d \in Nat : q = k + 1 + d
      <4>1. q - k - 1 \in Nat /\ q = k + 1 + (q - k - 1)
        BY <2>2
      <4> QED
        BY <4>1
    <3>2. q * b = k * b + b + d * b
      BY <3>1
    <3>3. d * b \in Nat /\ k * b \in Nat /\ q * b \in Nat
      OBVIOUS
    <3> QED
      BY <2>1, <3>2, <3>3
  <2>4. k * b \in 0..(c - 1)
    <3>1. k * b \in Nat
      OBVIOUS
    <3> QED
      BY <2>3, <3>1
  <2>5. PICK r \in rows : Log!Place(r, rows) = k * b
    BY <1>1, <2>4, PlacesFill
  <2>6. Log!RollOf(r, rows) = (k * b) \div b + 1
    BY <1>2, <2>5 DEF Log!RollOf
  <2>7. (k * b) \div b = k
    BY DivOfTimes
  <2>8. Log!RollOf(r, rows) = i
    BY <2>2, <2>6, <2>7
  <2> QED
    BY <2>8
<1>8. ASSUME NEW r \in rows, NEW s \in rows, Log!RollOf(r, rows) < Log!RollOf(s, rows)
      PROVE  Log!Earlier(r, s)
  <2>1. r # s
    BY <1>6, <1>8
  <2>2. CASE Log!Earlier(s, r)
    <3>1. PICK x \in Int : x = Log!Place(s, rows)
      BY PlacesRise
    <3>2. PICK y \in Int : y = Log!Place(r, rows)
      BY PlacesRise
    <3>3. x <= y
      BY <2>2, <3>1, <3>2, PlacesRise
    <3>4. x \div b <= y \div b /\ x \div b \in Int /\ y \div b \in Int
      BY <3>3, DivRises, DivIs
    <3>5. Log!RollOf(s, rows) = x \div b + 1 /\ Log!RollOf(r, rows) = y \div b + 1
      BY <1>2, <3>1, <3>2 DEF Log!RollOf
    <3> QED
      BY <1>8, <3>4, <3>5
  <2> QED
    BY <2>1, <2>2, EarlierIsTotal
<1> QED
  BY <1>4, <1>5, <1>6, <1>7, <1>8

RowRecord == [in : BOOLEAN, gone : BOOLEAN, at : Nat, about : BOOLEAN, hashed : BOOLEAN,
              anchor : Nat, erased : BOOLEAN, altered : BOOLEAN]
AnchorRecord == [day : Int, seq : Nat \ {0}, root : SUBSET Log!Row, prev : Nat, pruned : BOOLEAN]

LogShapes ==
  /\ clock \in 0..MaxTime /\ logged \in 0..MaxRow /\ doing \in LogScenes
  /\ buffer \in Seq(Log!Row) /\ flight \subseteq Seq(Log!Row)
  /\ \A f \in flight : /\ Log!ToSet(f) \cap Log!ToSet(buffer) = {}
                       /\ \A g \in flight \ {f} : Log!ToSet(f) \cap Log!ToSet(g) = {}
  /\ row \in [Log!Row -> RowRecord]
  /\ anchors \in Seq(AnchorRecord) /\ file \in Seq(Nat)
  /\ worker \in {"idle", "fold", "export"} /\ eraser \in {"idle", "read", "write", "gone"}
  /\ receipt \subseteq Log!Row /\ untidy \in BOOLEAN /\ raced \in BOOLEAN
  /\ check \in [at : {"idle", "anchors", "done"}, todo : SUBSET Nat, bad : BOOLEAN, stale : {"no", "fresh", "overdue"},
                marks : SUBSET Log!Row, swept : BOOLEAN]

\* An entry is nothing yet while it is on its way, and arrives within MaxDelay.
EntriesArrive ==
  /\ \A r \in Log!Row : row[r].at <= clock
  /\ \A r \in Log!Row : r > logged => row[r] = Log!Nowhere
  /\ \A r \in Log!OnTheWay :
       /\ r <= logged /\ row[r].at + MaxDelay >= clock /\ row[r].anchor = Log!None
       /\ ~row[r].in /\ ~row[r].gone /\ ~row[r].hashed /\ ~row[r].erased /\ ~row[r].altered
  /\ Log!NoEntryIsLost

\* What is still to be folded came after all that has been.
Pending(r) == r \in Log!OnTheWay \/ (row[r].in /\ row[r].anchor = Log!None /\ (row[r].hashed \/ ~row[r].erased))

AnchorsAreOrdered ==
  /\ \A i \in DOMAIN anchors : anchors[i].prev = i - 1 /\ anchors[i].day <= Log!Day(clock)
  /\ \A i, j \in DOMAIN anchors : i < j => Log!After(anchors[j], anchors[i])
  /\ \A i \in DOMAIN anchors, r \in Log!Row : Pending(r) => anchors[i].day <= Log!Day(row[r].at)
  /\ Len(file) <= Len(anchors) /\ file = [k \in 1..Len(file) |-> k]

\* Rows and anchors know each other.
RowsMatchAnchors ==
  /\ \A r \in Log!Row : ~row[r].in => row[r].anchor = Log!None /\ ~row[r].hashed /\ ~row[r].erased /\ ~row[r].altered
  /\ \A r \in Log!In : row[r].anchor # Log!None =>
       /\ row[r].anchor \in DOMAIN anchors /\ row[r].hashed
       /\ anchors[row[r].anchor].day <= Log!Day(row[r].at)
  /\ ~untidy => \A i \in Log!Unpruned : anchors[i].root = Log!InAnchor(i)

\* The receipt of an erasure is what the erasure will leave, or has left.
ReceiptIsRight ==
  /\ \A r \in Log!Row : row[r].erased => eraser = "gone"
  /\ eraser \in {"read", "write"} => worker # "fold"
  /\ eraser \in {"idle", "read"} => receipt = {}
  /\ eraser = "write" /\ ~raced /\ ~untidy => receipt = {r \in Log!Target : row[r].hashed}
  /\ eraser = "gone" /\ ~raced /\ ~untidy => Log!ReceiptHolds

Excused == untidy \/ (raced /\ eraser = "gone") \/ check.swept \/ \E r \in Log!Row : row[r].altered

\* A complaint has its reasons, and a row that was edited before is still to be read or has been.
CheckIsRight ==
  /\ check.bad => Excused
  /\ check.at = "anchors" /\ ~check.swept => check.todo \subseteq Log!Unpruned
  /\ \A r \in check.marks :
       /\ r <= logged /\ r \notin Log!OnTheWay
       /\ row[r].in /\ ~row[r].erased =>
            row[r].altered /\ row[r].anchor # Log!None /\ (check.bad \/ row[r].anchor \in check.todo)
  /\ check.at = "done" => check.todo = {}

LogInv ==
  LogShapes /\ EntriesArrive /\ AnchorsAreOrdered /\ RowsMatchAnchors /\ ReceiptIsRight /\ CheckIsRight

-----------------------------------------------------------------------------
Ordered(as) == \A i, j \in DOMAIN as : i < j => Log!After(as[j], as[i])

LEMMA MaxIs ==
  ASSUME NEW S \in SUBSET Nat, NEW m \in S, \A y \in S : y <= m
  PROVE  Log!Max(S) = m
<1>1. \A x \in S : (\A y \in S : x >= y) => x = m
  OBVIOUS
<1>2. \A y \in S : m >= y
  OBVIOUS
<1> QED
  BY <1>1, <1>2 DEF Log!Max

LEMMA AnchorsAre ==
  ASSUME NEW as \in Seq(AnchorRecord)
  PROVE  /\ Len(as) \in Nat /\ DOMAIN as = 1..Len(as)
         /\ \A i \in 1..Len(as) : as[i] \in AnchorRecord /\ as[i].day \in Int /\ as[i].seq \in Nat \ {0}
<1>1. Len(as) \in Nat /\ DOMAIN as = 1..Len(as) /\ \A i \in 1..Len(as) : as[i] \in AnchorRecord
  BY LenProperties, ElementOfSeq
<1>2. \A a \in AnchorRecord : a.day \in Int /\ a.seq \in Nat \ {0}
  BY DEF AnchorRecord
<1> QED
  BY <1>1, <1>2

\* Two anchors are not each after the other.
LEMMA AfterIsOneWay ==
  ASSUME NEW a \in AnchorRecord, NEW b \in AnchorRecord, Log!After(a, b)
  PROVE  /\ ~ Log!After(b, a) /\ a.day >= b.day
         /\ a.day = b.day => a.seq > b.seq
<1>1. a.day \in Int /\ b.day \in Int /\ a.seq \in Int /\ b.seq \in Int
  BY DEF AnchorRecord
<1> QED
  BY <1>1 DEF Log!After

LEMMA NextSeqIs ==
  ASSUME anchors \in Seq(AnchorRecord), Ordered(anchors),
         NEW D \in Int, \A i \in DOMAIN anchors : anchors[i].day <= D
  PROVE  /\ Log!NextSeq(anchors, D) \in Nat \ {0}
         /\ \A i \in DOMAIN anchors : anchors[i].day = D => anchors[i].seq < Log!NextSeq(anchors, D)
<1> DEFINE S == {0} \cup {anchors[i].seq : i \in {j \in DOMAIN anchors : anchors[j].day = D}}
<1>1. Log!NextSeq(anchors, D) = Log!Max(S) + 1
  BY DEF Log!NextSeq
<1>2. PICK n \in Nat : n = Len(anchors) /\ DOMAIN anchors = 1..n
  BY AnchorsAre
<1>3. \A i \in 1..n : anchors[i] \in AnchorRecord /\ anchors[i].day \in Int /\ anchors[i].seq \in Nat \ {0}
  BY <1>2, AnchorsAre
<1>4. \E m \in S : m \in Nat /\ \A y \in S : y <= m
  <2>1. CASE \A i \in 1..n : anchors[i].day # D
    <3>1. \A y \in S : y = 0
      BY <1>2, <2>1
    <3>2. 0 \in S
      OBVIOUS
    <3>3. \A y \in S : y <= 0
      BY <3>1
    <3> HIDE DEF S
    <3>4. 0 \in Nat
      OBVIOUS
    <3> QED
      BY ONLY <3>2, <3>3, <3>4
  <2>2. CASE \E i \in 1..n : anchors[i].day = D
    <3>1. PICK i \in 1..n : anchors[i].day = D
      BY <2>2
    <3>2. n \in 1..n
      BY <3>1
    <3>3. \A j \in 1..n : j # n => Log!After(anchors[n], anchors[j])
      BY <1>2, <3>2 DEF Ordered
    <3>4. anchors[n].day = D
      <4>1. anchors[n].day <= D
        BY <1>2, <3>2
      <4>2. anchors[n].day >= D
        BY <1>3, <3>1, <3>2, <3>3 DEF Log!After
      <4> QED
        BY <1>3, <3>2, <4>1, <4>2
    <3>5. \A j \in 1..n : anchors[j].day = D => anchors[j].seq <= anchors[n].seq
      BY <1>3, <3>2, <3>3, <3>4 DEF Log!After
    <3>6. anchors[n].seq \in S /\ anchors[n].seq \in Nat
      BY <1>2, <1>3, <3>2, <3>4
    <3>7. \A y \in S : y <= anchors[n].seq
      BY <1>2, <1>3, <3>2, <3>5
    <3> QED
      BY <3>6, <3>7
  <2> QED
    BY <2>1, <2>2
<1>5. S \subseteq Nat
  BY <1>2, <1>3
<1>6. \A i \in DOMAIN anchors : anchors[i].day = D => anchors[i].seq \in S
  OBVIOUS
<1> HIDE DEF S
<1>7. PICK m \in S : m \in Nat /\ \A y \in S : y <= m
  BY <1>4
<1>8. Log!Max(S) = m
  BY <1>5, <1>7, MaxIs
<1> QED
  BY <1>1, <1>2, <1>3, <1>6, <1>7, <1>8

LEMMA NewestIs ==
  ASSUME NEW as \in Seq(AnchorRecord), Ordered(as)
  PROVE  Log!Newest(as) = Len(as)
<1>1. PICK n \in Nat : n = Len(as) /\ DOMAIN as = 1..n
  BY AnchorsAre
<1>2. \A i \in 1..n : as[i] \in AnchorRecord
  BY <1>1, AnchorsAre
<1>3. CASE as = << >>
  BY <1>3 DEF Log!Newest
<1>4. CASE as # << >>
  <2>1. n \in 1..n
    <3>1. n # 0
      BY <1>1, <1>4, EmptySeq
    <3> QED
      BY <3>1
  <2>2. \A j \in 1..n : j # n => Log!After(as[n], as[j])
    <3>1. \A j \in 1..n : j # n => j < n
      OBVIOUS
    <3> QED
      BY <1>1, <2>1, <3>1 DEF Ordered
  <2>3. ASSUME NEW i \in 1..n, \A j \in (1..n) \ {i} : Log!After(as[i], as[j]) PROVE i = n
    <3>1. CASE i # n
      <4>1. Log!After(as[i], as[n]) /\ Log!After(as[n], as[i])
        BY <2>1, <2>2, <2>3, <3>1
      <4> QED
        BY <1>2, <2>1, <4>1, AfterIsOneWay
    <3> QED
      BY <3>1
  <2>4. Log!Newest(as) = CHOOSE i \in 1..n : \A j \in (1..n) \ {i} : Log!After(as[i], as[j])
    BY <1>1, <1>4 DEF Log!Newest
  <2>5. \A j \in (1..n) \ {n} : Log!After(as[n], as[j])
    BY <2>2
  <2> QED
    BY <1>1, <2>1, <2>3, <2>4, <2>5
<1> QED
  BY <1>3, <1>4

\* The numbers of the new anchors follow the numbers of their day.
LEMMA NumbersRise ==
  ASSUME anchors \in Seq(AnchorRecord), Ordered(anchors), NEW rolls, NEW n \in Nat,
         \A i \in 1..n : Log!RollDay(rolls[i]) \in Int,
         \A k \in DOMAIN anchors, i \in 1..n : anchors[k].day <= Log!RollDay(rolls[i]),
         NEW i \in 1..n
  PROVE  /\ Log!Number(rolls, i) \in Nat \ {0}
         /\ \A k \in DOMAIN anchors : anchors[k].day = Log!RollDay(rolls[i]) => anchors[k].seq < Log!Number(rolls, i)
         /\ \A j \in 1..n : i < j /\ Log!RollDay(rolls[i]) = Log!RollDay(rolls[j]) =>
                            Log!Number(rolls, i) < Log!Number(rolls, j)
<1> DEFINE C(j) == {k \in 1..(j - 1) : Log!RollDay(rolls[k]) = Log!RollDay(rolls[j])}
<1>1. ASSUME NEW j \in 1..n PROVE Log!Number(rolls, j) = Log!NextSeq(anchors, Log!RollDay(rolls[j])) + Cardinality(C(j))
  BY LogCounts DEF Log!Number
<1>2. ASSUME NEW j \in 1..n PROVE IsFiniteSet(C(j)) /\ Cardinality(C(j)) \in Nat
  <2>1. IsFiniteSet(1..(j - 1))
    BY FS_Interval
  <2>2. C(j) \subseteq 1..(j - 1)
    OBVIOUS
  <2> HIDE DEF C
  <2> QED
    BY <2>1, <2>2, FS_Subset, FS_CardinalityType
<1>3. ASSUME NEW j \in 1..n, i < j, Log!RollDay(rolls[i]) = Log!RollDay(rolls[j])
      PROVE  C(i) \cup {i} \subseteq C(j)
  BY <1>3
<1>4. i \notin C(i)
  OBVIOUS
<1> HIDE DEF C
<1>5. ASSUME NEW j \in 1..n, i < j, Log!RollDay(rolls[i]) = Log!RollDay(rolls[j])
      PROVE  Cardinality(C(i)) < Cardinality(C(j))
  <2>1. Cardinality(C(i) \cup {i}) = Cardinality(C(i)) + 1
    BY <1>2, <1>4, FS_AddElement
  <2>2. Cardinality(C(i) \cup {i}) <= Cardinality(C(j))
    BY <1>2, <1>3, <1>5, FS_Subset
  <2> QED
    BY <1>2, <2>1, <2>2
<1>6. ASSUME NEW j \in 1..n
      PROVE  /\ Log!NextSeq(anchors, Log!RollDay(rolls[j])) \in Nat \ {0}
             /\ \A k \in DOMAIN anchors : anchors[k].day = Log!RollDay(rolls[j]) =>
                                           anchors[k].seq < Log!NextSeq(anchors, Log!RollDay(rolls[j]))
  BY NextSeqIs
<1>7. \A k \in DOMAIN anchors : anchors[k].seq \in Nat
  BY AnchorsAre
<1>8. Log!Number(rolls, i) \in Nat \ {0}
  BY <1>1, <1>2, <1>6
<1>9. \A k \in DOMAIN anchors : anchors[k].day = Log!RollDay(rolls[i]) => anchors[k].seq < Log!Number(rolls, i)
  BY <1>1, <1>2, <1>6, <1>7
<1>10. ASSUME NEW j \in 1..n, i < j, Log!RollDay(rolls[i]) = Log!RollDay(rolls[j])
       PROVE  Log!Number(rolls, i) < Log!Number(rolls, j)
  <2>1. PICK a \in Nat : a = Log!NextSeq(anchors, Log!RollDay(rolls[j]))
    BY <1>6
  <2>2. Log!Number(rolls, i) = a + Cardinality(C(i)) /\ Log!Number(rolls, j) = a + Cardinality(C(j))
    BY <1>1, <1>10, <2>1
  <2>3. PICK x \in Nat : x = Cardinality(C(i))
    BY <1>2
  <2>4. PICK y \in Nat : y = Cardinality(C(j))
    BY <1>2
  <2>5. x < y
    BY <1>5, <1>10, <2>3, <2>4
  <2> QED
    BY <2>2, <2>3, <2>4, <2>5
<1> QED
  BY <1>8, <1>9, <1>10

\* A sequence that keeps the days and numbers of an ordered one is ordered, and so is each
\* beginning of it.
LEMMA OrderedAlike ==
  ASSUME NEW as \in Seq(AnchorRecord), Ordered(as), NEW bs, NEW n \in Nat, n <= Len(as), DOMAIN bs = 1..n,
         \A k \in 1..n : bs[k].day = as[k].day /\ bs[k].seq = as[k].seq
  PROVE  Ordered(bs)
<1>1. PICK l \in Nat : l = Len(as) /\ DOMAIN as = 1..l
  BY AnchorsAre
<1>2. ASSUME NEW i \in 1..n, NEW j \in 1..n, i < j PROVE Log!After(bs[j], bs[i])
  <2>1. Log!After(as[j], as[i])
    <3>1. i \in DOMAIN as /\ j \in DOMAIN as
      <4>1. n <= l
        BY <1>1
      <4>2. \A x \in 1..n : x \in 1..l
        BY <4>1
      <4> QED
        BY <1>1, <4>2
    <3> QED
      BY <1>2, <3>1 DEF Ordered
  <2> QED
    BY <2>1 DEF Log!After
<1> QED
  BY <1>2 DEF Ordered

\* Rolls to be folded, in the order of their days and not before the days of the anchors.
RollsFollow(rolls, n) ==
  /\ n \in Nat /\ n = Len(rolls)
  /\ \A i \in 1..n : rolls[i] \subseteq Log!Row /\ Log!RollDay(rolls[i]) \in Int
  /\ \A i, j \in 1..n : i < j => Log!RollDay(rolls[i]) <= Log!RollDay(rolls[j])
  /\ \A k \in DOMAIN anchors, i \in 1..n : anchors[k].day <= Log!RollDay(rolls[i])

\* The anchors with n new ones behind the m old ones.
RollsAdded(new, rolls, m, n) ==
  /\ new \in Seq(AnchorRecord) /\ Len(new) = m + n /\ Ordered(new)
  /\ \A k \in 1..m : new[k] = anchors[k]
  /\ \A i \in 1..n : /\ new[m + i].root = rolls[i] /\ new[m + i].day = Log!RollDay(rolls[i])
                     /\ new[m + i].prev = m + i - 1 /\ ~new[m + i].pruned

LEMMA AddAnchorsAre ==
  ASSUME anchors \in Seq(AnchorRecord), Ordered(anchors), NEW rolls, NEW n \in Nat, RollsFollow(rolls, n),
         NEW new, new = Log!AddAnchors(rolls), NEW m \in Nat, m = Len(anchors)
  PROVE  RollsAdded(new, rolls, m, n)
<1>0. /\ n = Len(rolls)
      /\ \A i \in 1..n : rolls[i] \subseteq Log!Row /\ Log!RollDay(rolls[i]) \in Int
      /\ \A i, j \in 1..n : i < j => Log!RollDay(rolls[i]) <= Log!RollDay(rolls[j])
      /\ \A k \in DOMAIN anchors, i \in 1..n : anchors[k].day <= Log!RollDay(rolls[i])
  BY DEF RollsFollow
<1>1. PICK fresh : fresh = [i \in 1..n |-> Log!NewAnchor(rolls, i)]
  OBVIOUS
<1>2. ASSUME NEW i \in 1..n
      PROVE  /\ fresh[i] \in AnchorRecord /\ fresh[i].root = rolls[i] /\ fresh[i].day = Log!RollDay(rolls[i])
             /\ fresh[i].seq = Log!Number(rolls, i) /\ ~fresh[i].pruned
             /\ fresh[i].day \in Int /\ fresh[i].seq \in Int
  <2>1. fresh[i] = [day |-> Log!RollDay(rolls[i]), seq |-> Log!Number(rolls, i), root |-> rolls[i], prev |-> 0, pruned |-> FALSE]
    BY <1>1 DEF Log!NewAnchor
  <2>2. Log!Number(rolls, i) \in Nat \ {0}
    BY <1>0, NumbersRise
  <2> QED
    BY <1>0, <2>1, <2>2 DEF AnchorRecord
<1>3. fresh \in Seq(AnchorRecord) /\ Len(fresh) = n
  <2>1. fresh \in [1..n -> AnchorRecord]
    BY <1>1, <1>2
  <2> QED
    BY <2>1
<1>4. PICK all : all = anchors \o fresh
  OBVIOUS
<1>5. /\ all \in Seq(AnchorRecord) /\ Len(all) = m + n
      /\ \A k \in 1..m : all[k] = anchors[k]
      /\ \A i \in 1..n : all[m + i] = fresh[i]
  <2>1. /\ all \in Seq(AnchorRecord) /\ Len(all) = m + n
        /\ \A k \in 1..(m + n) : all[k] = IF k <= m THEN anchors[k] ELSE fresh[k - m]
    <3>1. /\ all \in Seq(AnchorRecord) /\ Len(all) = Len(anchors) + Len(fresh)
          /\ \A k \in 1..(Len(anchors) + Len(fresh)) : all[k] = IF k <= Len(anchors) THEN anchors[k] ELSE fresh[k - Len(anchors)]
      BY <1>3, <1>4, ConcatProperties
    <3> QED
      BY <1>3, <3>1
  <2>2. ASSUME NEW i \in 1..n PROVE all[m + i] = fresh[i]
    <3>1. m + i \in 1..(m + n) /\ ~ (m + i <= m) /\ m + i - m = i
      OBVIOUS
    <3> QED
      BY <2>1, <3>1
  <2>3. ASSUME NEW k \in 1..m PROVE all[k] = anchors[k]
    <3>1. k \in 1..(m + n) /\ k <= m
      OBVIOUS
    <3> QED
      BY <2>1, <3>1
  <2> QED
    BY <2>1, <2>2, <2>3
<1>6. ASSUME NEW k \in 1..(m + n) PROVE k \in 1..m \/ \E i \in 1..n : k = m + i
  <2>1. CASE k > m
    <3>1. k - m \in 1..n /\ k = m + (k - m)
      BY <2>1
    <3> QED
      BY <3>1
  <2> QED
    BY <2>1
<1>7. Ordered(all)
  <2>1. DOMAIN all = 1..(m + n) /\ DOMAIN anchors = 1..m
    BY <1>5, AnchorsAre
  <2>2. ASSUME NEW i \in 1..m, NEW j \in 1..m, i < j PROVE Log!After(all[j], all[i])
    BY <1>5, <2>1, <2>2 DEF Ordered
  <2>3. ASSUME NEW k \in 1..m, NEW j \in 1..n PROVE Log!After(all[m + j], all[k])
    <3>1. anchors[k].day <= fresh[j].day /\ (anchors[k].day = fresh[j].day => anchors[k].seq < fresh[j].seq)
      <4>1. anchors[k].day <= Log!RollDay(rolls[j])
        BY <1>0, <2>1
      <4>2. anchors[k].day = Log!RollDay(rolls[j]) => anchors[k].seq < Log!Number(rolls, j)
        BY <1>0, <2>1, NumbersRise
      <4>3. fresh[j].day = Log!RollDay(rolls[j]) /\ fresh[j].seq = Log!Number(rolls, j)
        BY <1>2
      <4> QED
        BY ONLY <4>1, <4>2, <4>3
    <3>2. anchors[k].day \in Int /\ anchors[k].seq \in Int
      BY AnchorsAre
    <3>3. fresh[j].day \in Int /\ fresh[j].seq \in Int
      BY ONLY <1>2, j \in 1..n
    <3>4. Log!After(fresh[j], anchors[k])
      BY ONLY <3>1, <3>2, <3>3 DEF Log!After
    <3>5. all[m + j] = fresh[j] /\ all[k] = anchors[k]
      BY <1>5
    <3> QED
      BY <3>4, <3>5
  <2>4. ASSUME NEW i \in 1..n, NEW j \in 1..n, i < j PROVE Log!After(all[m + j], all[m + i])
    <3>1. fresh[i].day <= fresh[j].day /\ (fresh[i].day = fresh[j].day => fresh[i].seq < fresh[j].seq)
      <4>1. Log!RollDay(rolls[i]) <= Log!RollDay(rolls[j])
        BY <1>0, <2>4
      <4>2. Log!RollDay(rolls[i]) = Log!RollDay(rolls[j]) => Log!Number(rolls, i) < Log!Number(rolls, j)
        BY <1>0, <2>4, NumbersRise
      <4>3. fresh[j].day = Log!RollDay(rolls[j]) /\ fresh[j].seq = Log!Number(rolls, j)
        BY <1>2
      <4>4. fresh[i].day = Log!RollDay(rolls[i]) /\ fresh[i].seq = Log!Number(rolls, i)
        BY <1>2
      <4> QED
        BY ONLY <4>1, <4>2, <4>3, <4>4
    <3>2. fresh[i].day \in Int /\ fresh[i].seq \in Int /\ fresh[j].day \in Int /\ fresh[j].seq \in Int
      BY <1>2
    <3>3. Log!After(fresh[j], fresh[i])
      BY ONLY <3>1, <3>2 DEF Log!After
    <3> QED
      BY <1>5, <3>3
  <2>5. ASSUME NEW x \in 1..(m + n), NEW y \in 1..(m + n), x < y PROVE Log!After(all[y], all[x])
    <3>1. CASE y \in 1..m
      <4>1. x \in 1..m
        BY <2>5, <3>1
      <4> QED
        BY <2>2, <2>5, <3>1, <4>1
    <3>2. CASE \E j \in 1..n : y = m + j
      <4>1. PICK j \in 1..n : y = m + j
        BY <3>2
      <4>2. CASE x \in 1..m
        BY <2>3, <4>1, <4>2
      <4>3. CASE \E i \in 1..n : x = m + i
        <5>1. PICK i \in 1..n : x = m + i
          BY <4>3
        <5>2. i < j
          BY <2>5, <4>1, <5>1
        <5> QED
          BY <2>4, <4>1, <5>1, <5>2
      <4> QED
        BY <1>6, <4>2, <4>3
    <3> QED
      BY <1>6, <3>1, <3>2
  <2> QED
    BY <2>1, <2>5 DEF Ordered
<1>8. new = [k \in 1..(m + n) |-> IF k <= m THEN anchors[k] ELSE [all[k] EXCEPT !.prev = Log!Newest(SubSeq(all, 1, k - 1))]]
  <2>1. Log!AddAnchors(rolls) = LET as == anchors \o [i \in 1..Len(rolls) |-> Log!NewAnchor(rolls, i)]
                                IN [i \in 1..Len(as) |-> IF i <= Len(anchors) THEN anchors[i]
                                                          ELSE [as[i] EXCEPT !.prev = Log!Newest(SubSeq(as, 1, i - 1))]]
    BY DEF Log!AddAnchors
  <2> QED
    BY <1>0, <1>1, <1>4, <1>5, <2>1
<1>9. ASSUME NEW k \in 1..(m + n) PROVE Log!Newest(SubSeq(all, 1, k - 1)) = k - 1
  <2>1. PICK part : part = SubSeq(all, 1, k - 1)
    OBVIOUS
  <2>2. \A i \in 1..(k - 1) : all[i] \in AnchorRecord
    BY <1>5, AnchorsAre
  <2>3. /\ part \in Seq(AnchorRecord) /\ Len(part) = k - 1
        /\ \A i \in 1..(k - 1) : part[i] = all[i]
    <3>1. /\ part \in Seq(AnchorRecord) /\ Len(part) = IF 1 <= k - 1 THEN k - 1 - 1 + 1 ELSE 0
          /\ \A i \in 1..(k - 1 - 1 + 1) : part[i] = all[1 + i - 1]
      BY <2>1, <2>2, SubSeqProperties
    <3> QED
      BY <3>1
  <2>4. Ordered(part)
    <3>1. DOMAIN part = 1..(k - 1) /\ k - 1 \in Nat /\ k - 1 <= Len(all)
      BY <1>5, <2>3, AnchorsAre
    <3> QED
      BY <1>5, <1>7, <2>3, <3>1, OrderedAlike
  <2> QED
    BY <2>1, <2>3, <2>4, NewestIs
<1>10. ASSUME NEW i \in 1..n
       PROVE  /\ new[m + i] \in AnchorRecord /\ new[m + i].root = rolls[i] /\ new[m + i].day = Log!RollDay(rolls[i])
              /\ new[m + i].seq = all[m + i].seq /\ new[m + i].prev = m + i - 1 /\ ~new[m + i].pruned
  <2>1. m + i \in 1..(m + n) /\ ~ (m + i <= m) /\ m + i - 1 \in Nat
    OBVIOUS
  <2>2. PICK a \in AnchorRecord : a = fresh[i]
    BY <1>2
  <2>3. new[m + i] = [a EXCEPT !.prev = m + i - 1]
    <3>1. PICK k \in 1..(m + n) : k = m + i
      BY <2>1
    <3>2. new[k] = [all[k] EXCEPT !.prev = Log!Newest(SubSeq(all, 1, k - 1))]
      BY <1>8, <2>1, <3>1
    <3>3. Log!Newest(SubSeq(all, 1, k - 1)) = k - 1
      BY <1>9
    <3>4. all[k] = a
      BY <1>5, <2>2, <3>1
    <3>5. new[k] = [a EXCEPT !.prev = k - 1]
      BY <3>2, <3>3, <3>4
    <3> QED
      BY <3>1, <3>5
  <2>4. /\ [a EXCEPT !.prev = m + i - 1] \in AnchorRecord
        /\ \A p \in Nat : /\ [a EXCEPT !.prev = p].root = a.root /\ [a EXCEPT !.prev = p].day = a.day
                           /\ [a EXCEPT !.prev = p].seq = a.seq /\ [a EXCEPT !.prev = p].prev = p
                           /\ [a EXCEPT !.prev = p].pruned = a.pruned
    BY <2>1 DEF AnchorRecord
  <2> QED
    BY <1>2, <1>5, <2>1, <2>2, <2>3, <2>4
<1>11. ASSUME NEW k \in 1..m PROVE new[k] = anchors[k] /\ new[k] \in AnchorRecord
  <2>1. k \in 1..(m + n) /\ k <= m
    OBVIOUS
  <2> QED
    BY <1>8, <2>1, AnchorsAre
<1>12. new \in Seq(AnchorRecord) /\ Len(new) = m + n
  <2>1. ASSUME NEW k \in 1..(m + n) PROVE new[k] \in AnchorRecord
    BY <1>6, <1>10, <1>11
  <2>2. DOMAIN new = 1..(m + n) /\ new = [k \in 1..(m + n) |-> new[k]]
    BY <1>8
  <2>3. new \in [1..(m + n) -> AnchorRecord]
    BY <2>1, <2>2
  <2> QED
    BY <2>3
<1>13. Ordered(new)
  <2>1. ASSUME NEW k \in 1..(m + n) PROVE new[k].day = all[k].day /\ new[k].seq = all[k].seq
    <3>1. CASE k \in 1..m
      BY <1>5, <1>11, <3>1
    <3>2. CASE \E i \in 1..n : k = m + i
      <4>1. PICK i \in 1..n : k = m + i
        BY <3>2
      <4>2. all[k] = fresh[i] /\ new[k].day = Log!RollDay(rolls[i]) /\ new[k].seq = all[k].seq
        BY <1>5, <1>10, <4>1
      <4> QED
        BY <1>2, <4>2
    <3> QED
      BY <1>6, <3>1, <3>2
  <2>2. DOMAIN new = 1..(m + n) /\ m + n \in Nat /\ m + n <= Len(all)
    BY <1>5, <1>8
  <2> QED
    BY <1>5, <1>7, <2>1, <2>2, OrderedAlike
<1> QED
  BY <1>10, <1>11, <1>12, <1>13 DEF RollsAdded

-----------------------------------------------------------------------------
(* What a step leaves alone *)

LEMMA EntriesKeep ==
  ASSUME EntriesArrive, UNCHANGED <<clock, doing, logged, row>>, Log!OnTheWay' \subseteq Log!OnTheWay,
         Log!buffered => Log!OnTheWay' = Log!OnTheWay
  PROVE  EntriesArrive'
<1>1. Log!NoEntryIsLost'
  BY DEF EntriesArrive, Log!NoEntryIsLost, Log!buffered
<1> QED
  BY <1>1 DEF EntriesArrive

LEMMA OrderKeep ==
  AnchorsAreOrdered /\ UNCHANGED <<clock, anchors, file, row>> /\ Log!OnTheWay' \subseteq Log!OnTheWay => AnchorsAreOrdered'
  BY DEF AnchorsAreOrdered, Pending

LEMMA MatchKeep ==
  RowsMatchAnchors /\ UNCHANGED <<row, anchors, untidy>> => RowsMatchAnchors'
  BY DEF RowsMatchAnchors, Log!In, Log!InAnchor, Log!Unpruned

LEMMA ReceiptKeep ==
  ASSUME ReceiptIsRight, UNCHANGED <<row, eraser, receipt, untidy, raced>>,
         eraser \in {"read", "write"} => worker' # "fold"
  PROVE  ReceiptIsRight'
  BY DEF ReceiptIsRight, Log!ReceiptHolds, Log!Target, Log!In

LEMMA CheckKeep ==
  ASSUME CheckIsRight, UNCHANGED <<check, row, anchors, logged, untidy>>, Log!OnTheWay' \subseteq Log!OnTheWay,
         raced /\ eraser = "gone" => raced' /\ eraser' = "gone"
  PROVE  CheckIsRight'
  BY DEF CheckIsRight, Excused, Log!Unpruned

WayKept == UNCHANGED <<buffer, flight>> => Log!OnTheWay' = Log!OnTheWay

LEMMA WayKeep == WayKept
  BY DEF WayKept, Log!OnTheWay

LEMMA RowsAre ==
  ASSUME LogShapes, NEW r \in Log!Row
  PROVE  /\ row[r].in \in BOOLEAN /\ row[r].gone \in BOOLEAN /\ row[r].at \in Nat /\ row[r].about \in BOOLEAN
         /\ row[r].hashed \in BOOLEAN /\ row[r].anchor \in Nat /\ row[r].erased \in BOOLEAN /\ row[r].altered \in BOOLEAN
  BY DEF LogShapes, RowRecord

LEMMA OnTheWayIs ==
  ASSUME LogShapes
  PROVE  /\ Log!OnTheWay \subseteq Log!Row
         /\ \A f \in flight : f \in Seq(Log!Row) /\ Log!ToSet(f) \subseteq Log!OnTheWay
         /\ Log!ToSet(buffer) \subseteq Log!OnTheWay
<1>1. \A f \in Seq(Log!Row) : Log!ToSet(f) \subseteq Log!Row
  <2>1. ASSUME NEW f \in Seq(Log!Row), NEW i \in DOMAIN f PROVE f[i] \in Log!Row
    BY <2>1
  <2> QED
    BY <2>1 DEF Log!ToSet
<1>2. buffer \in Seq(Log!Row) /\ \A f \in flight : f \in Seq(Log!Row)
  BY DEF LogShapes
<1> QED
  BY <1>1, <1>2 DEF Log!OnTheWay

-----------------------------------------------------------------------------
(* Steps that leave the rows alone *)

LEMMA TryLockLog == LogInv /\ Log!TryLock => LogInv'
<1> SUFFICES ASSUME LogInv, Log!TryLock PROVE LogInv'
  OBVIOUS
<1>1. /\ UNCHANGED <<clock, doing, logged, buffer, flight, row, anchors, file, eraser, receipt, events, sweeper, check, untidy, raced>>
      /\ worker' = IF Log!Locked THEN "export" ELSE "fold"
  BY DEF Log!TryLock, Log!log, Log!chain, Log!erasing, Log!history
<1>2. Log!OnTheWay' = Log!OnTheWay
  BY <1>1, WayKeep DEF WayKept
<1>3. LogShapes'
  BY <1>1 DEF LogInv, LogShapes
<1>4. eraser \in {"read", "write"} => worker' # "fold"
  BY <1>1 DEF Log!Locked
<1> QED
  BY <1>1, <1>2, <1>3, <1>4, EntriesKeep, OrderKeep, MatchKeep, ReceiptKeep, CheckKeep DEF LogInv

\* The worker ends or gives up.
LEMMA WorkerRestsLog == LogInv /\ (Log!ExportDone \/ Log!WorkerFails) => LogInv'
<1> SUFFICES ASSUME LogInv, Log!ExportDone \/ Log!WorkerFails PROVE LogInv'
  OBVIOUS
<1>1. /\ UNCHANGED <<clock, doing, logged, buffer, flight, row, anchors, file, eraser, receipt, events, sweeper, check, untidy, raced>>
      /\ worker' = "idle"
  BY DEF Log!ExportDone, Log!WorkerFails, Log!log, Log!chain, Log!erasing, Log!history
<1>2. Log!OnTheWay' = Log!OnTheWay
  BY <1>1, WayKeep DEF WayKept
<1>3. LogShapes'
  BY <1>1 DEF LogInv, LogShapes
<1> QED
  BY <1>1, <1>2, <1>3, EntriesKeep, OrderKeep, MatchKeep, ReceiptKeep, CheckKeep DEF LogInv

\* The next line of the file is the next anchor.
LEMMA ExportLineLog == LogInv /\ Log!ExportLine => LogInv'
<1> SUFFICES ASSUME LogInv, Log!ExportLine PROVE LogInv'
  OBVIOUS
<1>1. /\ UNCHANGED <<clock, doing, logged, buffer, flight, row, anchors, worker, eraser, receipt, events, sweeper, check, untidy, raced>>
      /\ Log!Missing # {} /\ file' = Append(file, Log!NextLine)
  BY DEF Log!ExportLine, Log!log, Log!erasing, Log!history
<1>2. Log!OnTheWay' = Log!OnTheWay
  BY <1>1, WayKeep DEF WayKept
<1>4. PICK n \in Nat : n = Len(anchors) /\ DOMAIN anchors = 1..n
  BY AnchorsAre DEF LogInv, LogShapes
<1>5. PICK m \in Nat : m = Len(file) /\ m <= n /\ file = [k \in 1..m |-> k]
  <2>1. Len(file) \in Nat
    BY LenProperties DEF LogInv, LogShapes
  <2> QED
    BY <1>4, <2>1 DEF LogInv, AnchorsAreOrdered
<1>6. \A i, j \in 1..n : i < j => Log!After(anchors[j], anchors[i])
  BY <1>4 DEF LogInv, AnchorsAreOrdered
<1>7. \A i, j \in 1..n : Log!After(anchors[j], anchors[i]) => i < j
  <2>1. ASSUME NEW i \in 1..n, NEW j \in 1..n, Log!After(anchors[j], anchors[i]), ~ (i < j) PROVE FALSE
    <3>1. anchors[i] \in AnchorRecord /\ anchors[j] \in AnchorRecord
      BY <1>4, AnchorsAre DEF LogInv, LogShapes
    <3>2. ~ Log!After(anchors[i], anchors[j])
      BY <2>1, <3>1, AfterIsOneWay
    <3>3. i = j
      BY <1>6, <2>1, <3>2
    <3> QED
      BY <2>1, <3>2, <3>3
  <2> QED
    BY <2>1
<1>8. Log!Missing = (m + 1)..n
  <2>1. CASE m = 0
    <3>1. file = << >>
      BY <1>5, <2>1
    <3>2. Log!Missing = 1..n
      BY <1>4, <3>1 DEF Log!Missing
    <3> QED
      BY <2>1, <3>2
  <2>2. CASE m # 0
    <3>1. file # << >> /\ Log!Last(file) = m /\ m \in 1..n
      BY <1>5, <2>2 DEF Log!Last
    <3>2. Log!Missing = {i \in 1..n : Log!After(anchors[i], anchors[m])}
      BY <1>4, <3>1 DEF Log!Missing, Log!Beyond
    <3>3. \A i \in 1..n : Log!After(anchors[i], anchors[m]) <=> m < i
      BY <1>6, <1>7, <3>1
    <3> QED
      BY <3>2, <3>3
  <2> QED
    BY <2>1, <2>2
<1>9. m + 1 \in 1..n
  BY <1>1, <1>8
<1>10. Log!NextLine = m + 1
  <2>1. Log!NextLine = CHOOSE i \in (m + 1)..n : \A j \in ((m + 1)..n) \ {i} : Log!After(anchors[j], anchors[i])
    BY <1>8 DEF Log!NextLine
  <2>2. m + 1 \in (m + 1)..n
    BY <1>9
  <2>3. \A j \in ((m + 1)..n) \ {m + 1} : Log!After(anchors[j], anchors[m + 1])
    BY <1>6, <1>9
  <2>4. ASSUME NEW i \in (m + 1)..n, \A j \in ((m + 1)..n) \ {i} : Log!After(anchors[j], anchors[i]), i # m + 1 PROVE FALSE
    <3>1. Log!After(anchors[m + 1], anchors[i])
      BY <2>2, <2>4
    <3>2. m + 1 < i /\ i \in 1..n
      BY <2>4
    <3> QED
      BY <1>7, <1>9, <3>1, <3>2
  <2> QED
    BY <2>1, <2>2, <2>3, <2>4
<1>11. Len(file') <= Len(anchors') /\ file' = [k \in 1..Len(file') |-> k]
  <2>1. file \in Seq(Nat)
    BY <1>5
  <2>2. /\ Len(file') = m + 1 /\ file' \in Seq(Nat)
        /\ \A k \in 1..m : file'[k] = k
        /\ file'[m + 1] = m + 1
    BY <1>1, <1>5, <1>10, <2>1, AppendProperties
  <2>3. file' = [k \in 1..(m + 1) |-> file'[k]]
    BY <2>2
  <2>4. \A k \in 1..(m + 1) : file'[k] = k
    BY <2>2
  <2> QED
    BY <1>1, <1>4, <1>9, <2>2, <2>3, <2>4
<1>12. LogShapes'
  <2>1. file' \in Seq(Nat)
    BY <1>1, <1>10, AppendProperties DEF LogInv, LogShapes
  <2> QED
    BY <1>1, <2>1 DEF LogInv, LogShapes
<1>13. AnchorsAreOrdered'
  BY <1>1, <1>2, <1>11 DEF LogInv, AnchorsAreOrdered, Pending
<1>14. eraser \in {"read", "write"} => worker' # "fold"
  BY <1>1 DEF LogInv, ReceiptIsRight
<1> QED
  BY <1>1, <1>2, <1>12, <1>13, <1>14, EntriesKeep, MatchKeep, ReceiptKeep, CheckKeep DEF LogInv

\* What is in a sequence made of others.
LEMMA InSequences ==
  /\ Log!ToSet(<< >>) = {}
  /\ \A r \in Log!Row : Log!ToSet(<<r>>) = {r}
  /\ \A f, g \in Seq(Log!Row) : f \o g \in Seq(Log!Row) /\ Log!ToSet(f \o g) = Log!ToSet(f) \cup Log!ToSet(g)
  /\ \A f \in Seq(Log!Row), r \in Log!Row : Append(f, r) \in Seq(Log!Row) /\ Log!ToSet(Append(f, r)) = Log!ToSet(f) \cup {r}
<1>1. Log!ToSet(<< >>) = {}
  BY DEF Log!ToSet
<1>2. ASSUME NEW r \in Log!Row PROVE Log!ToSet(<<r>>) = {r}
  BY DEF Log!ToSet
<1>3. ASSUME NEW f \in Seq(Log!Row), NEW g \in Seq(Log!Row)
      PROVE  f \o g \in Seq(Log!Row) /\ Log!ToSet(f \o g) = Log!ToSet(f) \cup Log!ToSet(g)
  <2>1. PICK m \in Nat : m = Len(f) /\ DOMAIN f = 1..m
    BY LenProperties
  <2>2. PICK n \in Nat : n = Len(g) /\ DOMAIN g = 1..n
    BY LenProperties
  <2>3. PICK h \in Seq(Log!Row) : h = f \o g
    BY ConcatProperties
  <2>4. DOMAIN h = 1..(m + n) /\ \A i \in 1..(m + n) : h[i] = IF i <= m THEN f[i] ELSE g[i - m]
    BY <2>1, <2>2, <2>3, ConcatProperties, LenProperties
  <2>5. \A x : x \in Log!ToSet(h) => x \in Log!ToSet(f) \cup Log!ToSet(g)
    <3>1. ASSUME NEW i \in 1..(m + n) PROVE h[i] \in Log!ToSet(f) \cup Log!ToSet(g)
      <4>1. CASE i <= m
        <5>1. i \in 1..m /\ h[i] = f[i]
          BY <2>4, <4>1
        <5> QED
          BY <2>1, <5>1 DEF Log!ToSet
      <4>2. CASE ~ (i <= m)
        <5>1. i - m \in 1..n /\ h[i] = g[i - m]
          BY <2>4, <4>2
        <5> QED
          BY <2>2, <5>1 DEF Log!ToSet
      <4> QED
        BY <4>1, <4>2
    <3> QED
      BY <2>4, <3>1 DEF Log!ToSet
  <2>6. ASSUME NEW i \in 1..m PROVE f[i] \in Log!ToSet(h)
    <3>1. i \in 1..(m + n) /\ h[i] = f[i]
      BY <2>4
    <3> QED
      BY <2>4, <3>1 DEF Log!ToSet
  <2>7. ASSUME NEW i \in 1..n PROVE g[i] \in Log!ToSet(h)
    <3>1. m + i \in 1..(m + n) /\ ~ (m + i <= m) /\ m + i - m = i
      OBVIOUS
    <3>2. h[m + i] = g[i]
      BY <2>4, <3>1
    <3> QED
      BY <2>4, <3>1, <3>2 DEF Log!ToSet
  <2>8. \A x : x \in Log!ToSet(f) \cup Log!ToSet(g) => x \in Log!ToSet(h)
    BY <2>1, <2>2, <2>6, <2>7 DEF Log!ToSet
  <2> QED
    BY <2>3, <2>5, <2>8
<1>4. ASSUME NEW f \in Seq(Log!Row), NEW r \in Log!Row
      PROVE  Append(f, r) \in Seq(Log!Row) /\ Log!ToSet(Append(f, r)) = Log!ToSet(f) \cup {r}
  <2>1. Append(f, r) = f \o <<r>> /\ <<r>> \in Seq(Log!Row)
    BY AppendIsConcat
  <2>2. PICK g \in Seq(Log!Row) : g = <<r>>
    BY <2>1
  <2>3. f \o g \in Seq(Log!Row) /\ Log!ToSet(f \o g) = Log!ToSet(f) \cup Log!ToSet(g)
    BY <1>3
  <2>4. Log!ToSet(g) = {r}
    BY <1>2, <2>2
  <2> QED
    BY <2>1, <2>2, <2>3, <2>4
<1> QED
  BY <1>1, <1>2, <1>3, <1>4

LEMMA FlushBufferLog == LogInv /\ Log!FlushBuffer => LogInv'
<1> SUFFICES ASSUME LogInv, Log!FlushBuffer PROVE LogInv'
  OBVIOUS
<1>1. /\ UNCHANGED <<clock, doing, logged, row, anchors, file, worker, eraser, receipt, events, sweeper, check, untidy, raced>>
      /\ flight' = flight \cup {buffer} /\ buffer' = << >>
  BY DEF Log!FlushBuffer, Log!chain, Log!erasing, Log!history
<1>2. Log!OnTheWay' = Log!OnTheWay
  <2>1. Log!OnTheWay' = Log!ToSet(<< >>) \cup UNION {Log!ToSet(f) : f \in flight \cup {buffer}}
    BY <1>1 DEF Log!OnTheWay
  <2> QED
    BY <2>1, InSequences DEF Log!OnTheWay
<1>3. LogShapes'
  <2>1. << >> \in Seq(Log!Row)
    BY EmptySeq
  <2>2. \A f \in flight' : /\ Log!ToSet(f) \cap Log!ToSet(buffer') = {}
                           /\ \A g \in flight' \ {f} : Log!ToSet(f) \cap Log!ToSet(g) = {}
    BY <1>1, InSequences DEF LogInv, LogShapes
  <2> QED
    BY <1>1, <2>1, <2>2 DEF LogInv, LogShapes
<1>4. eraser \in {"read", "write"} => worker' # "fold"
  BY <1>1 DEF LogInv, ReceiptIsRight
<1> QED
  BY <1>1, <1>2, <1>3, <1>4, EntriesKeep, OrderKeep, MatchKeep, ReceiptKeep, CheckKeep DEF LogInv

LEMMA InsertFailsLog ==
  ASSUME LogInv, NEW f \in flight, Log!InsertFails(f)
  PROVE  LogInv'
<1>1. /\ UNCHANGED <<clock, doing, logged, row, anchors, file, worker, eraser, receipt, events, sweeper, check, untidy, raced>>
      /\ flight' = flight \ {f} /\ buffer' = IF Log!buffered THEN f \o buffer ELSE buffer
  BY DEF Log!InsertFails, Log!KeptBack, Log!chain, Log!erasing, Log!history
<1>2. f \in Seq(Log!Row) /\ buffer \in Seq(Log!Row)
  BY DEF LogInv, LogShapes
<1>3. Log!OnTheWay' = Log!ToSet(buffer') \cup UNION {Log!ToSet(g) : g \in flight \ {f}}
  BY <1>1 DEF Log!OnTheWay
<1>4. Log!OnTheWay' \subseteq Log!OnTheWay /\ buffer' \in Seq(Log!Row) /\ (Log!buffered => Log!OnTheWay' = Log!OnTheWay)
  <2>1. CASE Log!buffered
    <3>1. Log!ToSet(buffer') = Log!ToSet(f) \cup Log!ToSet(buffer) /\ buffer' \in Seq(Log!Row)
      BY <1>1, <1>2, <2>1, InSequences
    <3> QED
      BY <1>3, <3>1 DEF Log!OnTheWay
  <2>2. CASE ~Log!buffered
    BY <1>1, <1>2, <1>3, <2>2 DEF Log!OnTheWay
  <2> QED
    BY <2>1, <2>2
<1>5. LogShapes'
  <2>1. \A g \in flight' : /\ Log!ToSet(g) \cap Log!ToSet(buffer') = {}
                           /\ \A h \in flight' \ {g} : Log!ToSet(g) \cap Log!ToSet(h) = {}
    <3>1. Log!ToSet(buffer') \subseteq Log!ToSet(f) \cup Log!ToSet(buffer)
      BY <1>1, <1>2, InSequences
    <3>2. \A g \in flight : /\ Log!ToSet(g) \cap Log!ToSet(buffer) = {}
                            /\ \A h \in flight \ {g} : Log!ToSet(g) \cap Log!ToSet(h) = {}
      BY DEF LogInv, LogShapes
    <3> QED
      BY <1>1, <3>1, <3>2
  <2> QED
    BY <1>1, <1>4, <2>1 DEF LogInv, LogShapes
<1>6. eraser \in {"read", "write"} => worker' # "fold"
  BY <1>1 DEF LogInv, ReceiptIsRight
<1> QED
  BY <1>1, <1>4, <1>5, <1>6, EntriesKeep, OrderKeep, MatchKeep, ReceiptKeep, CheckKeep DEF LogInv

LEMMA TickLog == LogInv /\ Log!Tick => LogInv'
<1> SUFFICES ASSUME LogInv, Log!Tick PROVE LogInv'
  OBVIOUS
<1>1. /\ UNCHANGED <<doing, logged, buffer, flight, row, anchors, file, worker, eraser, receipt, events, sweeper, check, untidy, raced>>
      /\ clock' = clock + 1 /\ \A r \in Log!OnTheWay : clock' - row[r].at <= MaxDelay
  BY DEF Log!Tick, Log!log, Log!chain, Log!erasing, Log!history
<1>2. Log!OnTheWay' = Log!OnTheWay
  BY <1>1, WayKeep DEF WayKept
<1>3. clock \in Nat /\ clock' \in 0..MaxTime
  BY <1>1, LogAssumption DEF LogInv, LogShapes, Log!Tick
<1>4. LogShapes'
  BY <1>1, <1>3 DEF LogInv, LogShapes
<1>5. \A r \in Log!Row : row[r].at \in Nat
  BY RowsAre DEF LogInv
<1>6. \A r \in Log!Row : row'[r].at <= clock'
  BY <1>1, <1>3, <1>5 DEF LogInv, EntriesArrive
<1>7. \A r \in Log!OnTheWay : row[r].at + MaxDelay >= clock'
  <2>1. \A r \in Log!OnTheWay : row[r].at \in Nat
    BY <1>5, OnTheWayIs DEF LogInv
  <2> QED
    BY <1>1, <1>3, <2>1, LogAssumption
<1>8. EntriesArrive'
  <2>1. Log!NoEntryIsLost'
    BY <1>1, <1>2 DEF LogInv, EntriesArrive, Log!NoEntryIsLost, Log!buffered
  <2> QED
    BY <1>1, <1>2, <1>6, <1>7, <2>1 DEF LogInv, EntriesArrive
<1>9. AnchorsAreOrdered'
  <2>1. Log!Day(clock) <= Log!Day(clock') /\ Log!Day(clock) \in Int /\ Log!Day(clock') \in Int
    <3>1. PICK d \in Nat \ {0} : d = DayLength
      BY LogAssumption
    <3>2. clock \in Int /\ clock' \in Int /\ clock <= clock'
      BY <1>1, <1>3
    <3>3. clock \div d <= clock' \div d
      BY <3>2, DivRises
    <3>4. clock \div d \in Int /\ clock' \div d \in Int
      BY <3>2, DivIs
    <3> QED
      BY <3>1, <3>3, <3>4 DEF Log!Day
  <2>2. \A i \in DOMAIN anchors : anchors[i].day \in Int
    BY AnchorsAre DEF LogInv, LogShapes
  <2>3. \A i \in DOMAIN anchors : anchors[i].day <= Log!Day(clock')
    BY <2>1, <2>2 DEF LogInv, AnchorsAreOrdered
  <2>4. Log!Day(clock)' = Log!Day(clock')
    BY DEF Log!Day
  <2> QED
    BY <1>1, <1>2, <2>3, <2>4 DEF LogInv, AnchorsAreOrdered, Pending
<1>10. eraser \in {"read", "write"} => worker' # "fold"
  BY <1>1 DEF LogInv, ReceiptIsRight
<1> QED
  BY <1>1, <1>2, <1>4, <1>8, <1>9, <1>10, MatchKeep, ReceiptKeep, CheckKeep DEF LogInv

-----------------------------------------------------------------------------
(* The erasure, but for what it writes *)

\* The erasure gets the lock, or fails.
LEMMA EraseLockLog == LogInv /\ Log!EraseLock => LogInv'
<1> SUFFICES ASSUME LogInv, Log!EraseLock PROVE LogInv'
  OBVIOUS
<1>1. /\ UNCHANGED <<clock, doing, logged, buffer, flight, row, anchors, file, worker, receipt, events, sweeper, check, untidy, raced>>
      /\ "erase" \in doing /\ eraser = "idle" /\ ~Log!Locked /\ eraser' = "read"
  BY DEF Log!EraseLock, Log!log, Log!chain, Log!history
<1>2. Log!OnTheWay' = Log!OnTheWay
  BY <1>1, WayKeep DEF WayKept
<1>3. LogShapes'
  BY <1>1 DEF LogInv, LogShapes
<1>4. worker # "fold"
  BY <1>1 DEF Log!Locked
<1>5. (\A r \in Log!Row : ~row[r].erased) /\ receipt = {}
  BY <1>1 DEF LogInv, ReceiptIsRight
<1>6. ReceiptIsRight'
  BY <1>1, <1>4, <1>5 DEF ReceiptIsRight
<1> QED
  BY <1>1, <1>2, <1>3, <1>6, EntriesKeep, OrderKeep, MatchKeep, CheckKeep DEF LogInv

LEMMA EraseReceiptLog == LogInv /\ Log!EraseReceipt => LogInv'
<1> SUFFICES ASSUME LogInv, Log!EraseReceipt PROVE LogInv'
  OBVIOUS
<1>1. /\ UNCHANGED <<clock, doing, logged, buffer, flight, row, anchors, file, worker, events, sweeper, check, untidy, raced>>
      /\ eraser = "read"
      /\ \/ Log!Target = {} /\ eraser' = "gone" /\ receipt' = receipt
         \/ eraser' = "write" /\ receipt' = {r \in Log!Target : row[r].hashed}
  BY DEF Log!EraseReceipt, Log!log, Log!chain, Log!history
<1>2. Log!OnTheWay' = Log!OnTheWay
  BY <1>1, WayKeep DEF WayKept
<1>3. LogShapes'
  <2>1. {r \in Log!Target : row[r].hashed} \subseteq Log!Row
    BY DEF Log!Target, Log!In
  <2> QED
    BY <1>1, <2>1 DEF LogInv, LogShapes
<1>4. (\A r \in Log!Row : ~row[r].erased) /\ receipt = {} /\ worker # "fold"
  BY <1>1 DEF LogInv, ReceiptIsRight
<1>5. Log!Target' = Log!Target
  BY <1>1 DEF Log!Target, Log!In
<1>6. {r \in Log!In : row[r].erased /\ row[r].hashed} = {}
  BY <1>4 DEF Log!In
<1>7. \A r \in Log!Row : ~row'[r].erased
  BY <1>1, <1>4
<1>8. worker' # "fold"
  BY <1>1, <1>4
<1>9. ReceiptIsRight'
  <2>1. CASE eraser' = "gone" /\ receipt' = receipt
    <3>1. Log!ReceiptHolds'
      BY <1>1, <1>4, <1>6, <2>1 DEF Log!ReceiptHolds, Log!In
    <3> QED
      BY <1>7, <1>8, <2>1, <3>1 DEF ReceiptIsRight
  <2>2. CASE eraser' = "write" /\ receipt' = {r \in Log!Target : row[r].hashed}
    <3>1. receipt' = {r \in Log!Target' : row'[r].hashed}
      BY <1>1, <1>5, <2>2
    <3> QED
      BY <1>7, <1>8, <2>2, <3>1 DEF ReceiptIsRight
  <2>3. (eraser' = "gone" /\ receipt' = receipt) \/ (eraser' = "write" /\ receipt' = {r \in Log!Target : row[r].hashed})
    BY DEF Log!EraseReceipt
  <2> QED
    BY <2>1, <2>2, <2>3
<1> QED
  BY <1>1, <1>2, <1>3, <1>9, EntriesKeep, OrderKeep, MatchKeep, CheckKeep DEF LogInv

LEMMA EraseFailsLog == LogInv /\ Log!EraseFails => LogInv'
<1> SUFFICES ASSUME LogInv, Log!EraseFails PROVE LogInv'
  OBVIOUS
<1>1. /\ UNCHANGED <<clock, doing, logged, buffer, flight, row, anchors, file, worker, events, sweeper, check, untidy>>
      /\ eraser \in {"read", "write"} /\ eraser' = "idle" /\ receipt' = {} /\ raced' = FALSE
  BY DEF Log!EraseFails, Log!log, Log!chain
<1>2. Log!OnTheWay' = Log!OnTheWay
  BY <1>1, WayKeep DEF WayKept
<1>3. LogShapes'
  BY <1>1 DEF LogInv, LogShapes
<1>4. \A r \in Log!Row : ~row[r].erased
  BY <1>1 DEF LogInv, ReceiptIsRight
<1>5. ReceiptIsRight'
  BY <1>1, <1>4 DEF ReceiptIsRight
<1> QED
  BY <1>1, <1>2, <1>3, <1>5, EntriesKeep, OrderKeep, MatchKeep, CheckKeep DEF LogInv

-----------------------------------------------------------------------------
(* The verifier *)

LEMMA ChecksAre ==
  ASSUME LogShapes
  PROVE  /\ check \in [at : {"idle", "anchors", "done"}, todo : SUBSET Nat, bad : BOOLEAN, stale : {"no", "fresh", "overdue"},
                       marks : SUBSET Log!Row, swept : BOOLEAN]
         /\ Log!Unpruned \subseteq Nat
<1>1. Log!Unpruned \subseteq Nat
  BY AnchorsAre DEF LogShapes, Log!Unpruned
<1> QED
  BY <1>1 DEF LogShapes

\* A step of the verifier alone.
VerifierOnly ==
  UNCHANGED <<clock, doing, logged, buffer, flight, row, anchors, file, worker, eraser, receipt, events, sweeper, untidy, raced>>

LEMMA VerifierStep ==
  ASSUME LogInv, VerifierOnly, CheckIsRight',
         check' \in [at : {"idle", "anchors", "done"}, todo : SUBSET Nat, bad : BOOLEAN, stale : {"no", "fresh", "overdue"},
                     marks : SUBSET Log!Row, swept : BOOLEAN]
  PROVE  LogInv'
<1>1. Log!OnTheWay' = Log!OnTheWay
  BY WayKeep DEF WayKept, VerifierOnly
<1>2. LogShapes'
  BY DEF LogInv, LogShapes, VerifierOnly
<1>3. eraser \in {"read", "write"} => worker' # "fold"
  BY DEF LogInv, ReceiptIsRight, VerifierOnly
<1>4. EntriesArrive' /\ AnchorsAreOrdered'
  BY <1>1, EntriesKeep, OrderKeep DEF LogInv, VerifierOnly
<1>5. RowsMatchAnchors' /\ ReceiptIsRight'
  BY <1>3, MatchKeep, ReceiptKeep DEF LogInv, VerifierOnly
<1> QED
  BY <1>2, <1>4, <1>5 DEF LogInv

LEMMA VerifyLog == LogInv /\ Log!Verify => LogInv'
<1> SUFFICES ASSUME LogInv, Log!Verify PROVE LogInv'
  OBVIOUS
<1>1. VerifierOnly
  BY DEF Log!Verify, VerifierOnly, Log!log, Log!chain, Log!erasing, Log!history
<1>2. PICK M : M = {r \in Log!In : row[r].altered /\ ~row[r].erased /\ row[r].anchor \in Log!Unpruned}
  OBVIOUS
<1>3. check' = [at |-> "anchors", todo |-> Log!Unpruned, bad |-> FALSE, stale |-> "no", marks |-> M, swept |-> FALSE]
  BY <1>2 DEF Log!Verify, Log!Asleep
<1>4. M \subseteq Log!Row
  BY <1>2 DEF Log!In
<1>5. check' \in [at : {"idle", "anchors", "done"}, todo : SUBSET Nat, bad : BOOLEAN, stale : {"no", "fresh", "overdue"},
                  marks : SUBSET Log!Row, swept : BOOLEAN]
  BY <1>3, <1>4, ChecksAre DEF LogInv
<1>6. Log!OnTheWay' = Log!OnTheWay /\ Log!Unpruned' = Log!Unpruned
  BY <1>1, WayKeep DEF WayKept, VerifierOnly, Log!Unpruned
<1>7. ASSUME NEW r \in M
      PROVE  /\ r <= logged /\ r \notin Log!OnTheWay
             /\ row[r].altered /\ row[r].anchor \in Log!Unpruned
  <2>1. r \in Log!Row /\ row[r].in /\ row[r].altered /\ row[r].anchor \in Log!Unpruned
    BY <1>2 DEF Log!In
  <2>2. row[r] # Log!Nowhere
    BY <2>1 DEF Log!Nowhere
  <2>3. r \in Nat /\ logged \in Nat
    BY <2>1, LogAssumption DEF LogInv, LogShapes, Log!Row
  <2> QED
    BY <2>1, <2>2, <2>3 DEF LogInv, EntriesArrive
<1>8. \A r \in M : row[r].anchor # Log!None
  BY <1>7, AnchorsAre DEF LogInv, LogShapes, Log!Unpruned, Log!None
<1>9. CheckIsRight'
  BY <1>1, <1>3, <1>6, <1>7, <1>8 DEF CheckIsRight, VerifierOnly
<1> QED
  BY <1>1, <1>5, <1>9, VerifierStep

LEMMA CheckAnchorLog ==
  ASSUME LogInv, NEW i \in DOMAIN anchors, Log!CheckAnchor(i)
  PROVE  LogInv'
<1>1. VerifierOnly
  BY DEF Log!CheckAnchor, VerifierOnly, Log!log, Log!chain, Log!erasing, Log!history
<1>2. PICK b : b = (check.bad \/ ~Log!Refolds(i) \/ \E r \in Log!InAnchor(i) : row[r].hashed /\ ~Log!ContentHolds(r))
  OBVIOUS
<1>3. check.at = "anchors" /\ i \in check.todo /\ check' = [check EXCEPT !.todo = check.todo \ {i}, !.bad = b]
  BY <1>2 DEF Log!CheckAnchor
<1>4. b \in BOOLEAN
  BY <1>2
<1>5. PICK c : /\ c = check
               /\ c \in [at : {"idle", "anchors", "done"}, todo : SUBSET Nat, bad : BOOLEAN, stale : {"no", "fresh", "overdue"},
                         marks : SUBSET Log!Row, swept : BOOLEAN]
  BY ChecksAre DEF LogInv
<1>6. /\ check' \in [at : {"idle", "anchors", "done"}, todo : SUBSET Nat, bad : BOOLEAN, stale : {"no", "fresh", "overdue"},
                      marks : SUBSET Log!Row, swept : BOOLEAN]
      /\ check'.at = "anchors" /\ check'.todo = check.todo \ {i} /\ check'.bad = b /\ check'.marks = check.marks
      /\ check'.swept = check.swept
  BY <1>3, <1>4, <1>5
<1>7. Log!OnTheWay' = Log!OnTheWay /\ Log!Unpruned' = Log!Unpruned
  BY <1>1, WayKeep DEF WayKept, VerifierOnly, Log!Unpruned
<1>8. Excused' <=> Excused
  BY <1>1, <1>6 DEF Excused, VerifierOnly
<1>9. ASSUME b PROVE Excused
  <2>1. CASE check.bad
    BY <2>1 DEF LogInv, CheckIsRight
  <2>2. CASE ~check.swept /\ ~untidy /\ ~Log!Refolds(i)
    <3>1. i \in Log!Unpruned
      BY <1>3, <2>2 DEF LogInv, CheckIsRight
    <3>2. anchors[i].root = Log!InAnchor(i)
      BY <2>2, <3>1 DEF LogInv, RowsMatchAnchors
    <3>3. i # Log!None
      BY AnchorsAre DEF LogInv, LogShapes, Log!None
    <3>4. \A r \in Log!InAnchor(i) : row[r].hashed
      BY <3>3 DEF LogInv, RowsMatchAnchors, Log!InAnchor
    <3> QED
      BY <2>2, <3>2, <3>4 DEF Log!Refolds
  <2>3. ASSUME NEW r \in Log!InAnchor(i), row[r].hashed, ~Log!ContentHolds(r) PROVE Excused
    <3>1. r \in Log!Row
      BY DEF Log!InAnchor, Log!In
    <3>2. CASE row[r].erased
      <4>1. eraser = "gone" /\ ~Log!ReceiptHolds
        BY <2>3, <3>1, <3>2 DEF LogInv, ReceiptIsRight, Log!ContentHolds
      <4> QED
        BY <4>1 DEF LogInv, ReceiptIsRight, Excused
    <3>3. CASE ~row[r].erased
      BY <2>3, <3>1, <3>3 DEF Log!ContentHolds, Excused
    <3> QED
      BY <3>2, <3>3
  <2> QED
    BY <1>2, <1>9, <2>1, <2>2, <2>3 DEF Excused
<1>10. ASSUME NEW r \in check.marks, row[r].in, ~row[r].erased
       PROVE  row[r].altered /\ row[r].anchor # Log!None /\ (b \/ row[r].anchor \in check.todo \ {i})
  <2>1. row[r].altered /\ row[r].anchor # Log!None /\ (check.bad \/ row[r].anchor \in check.todo)
    BY <1>10 DEF LogInv, CheckIsRight
  <2>2. r \in Log!Row
    BY <1>5
  <2>3. CASE row[r].anchor = i
    <3>1. r \in Log!InAnchor(i) /\ row[r].hashed
      BY <1>10, <2>1, <2>2, <2>3 DEF LogInv, RowsMatchAnchors, Log!InAnchor, Log!In
    <3>2. ~Log!ContentHolds(r)
      BY <1>10, <2>1 DEF Log!ContentHolds
    <3> QED
      BY <1>2, <2>1, <3>1, <3>2
  <2>4. CASE row[r].anchor # i
    BY <1>2, <2>1, <2>4
  <2> QED
    BY <2>3, <2>4
<1>11. CheckIsRight'
  BY <1>1, <1>3, <1>6, <1>7, <1>8, <1>9, <1>10 DEF LogInv, CheckIsRight, VerifierOnly
<1> QED
  BY <1>1, <1>6, <1>11, VerifierStep

LEMMA WatchdogLog == LogInv /\ Log!Watchdog => LogInv'
<1> SUFFICES ASSUME LogInv, Log!Watchdog PROVE LogInv'
  OBVIOUS
<1>1. VerifierOnly
  BY DEF Log!Watchdog, VerifierOnly, Log!log, Log!chain, Log!erasing, Log!history
<1>2. PICK s \in {"no", "fresh", "overdue"} : check' = [check EXCEPT !.at = "done", !.stale = s]
  BY DEF Log!Watchdog, Log!Staleness
<1>3. check.todo = {}
  BY DEF Log!Watchdog
<1>4. PICK c : /\ c = check
               /\ c \in [at : {"idle", "anchors", "done"}, todo : SUBSET Nat, bad : BOOLEAN, stale : {"no", "fresh", "overdue"},
                         marks : SUBSET Log!Row, swept : BOOLEAN]
  BY ChecksAre DEF LogInv
<1>5. /\ check' \in [at : {"idle", "anchors", "done"}, todo : SUBSET Nat, bad : BOOLEAN, stale : {"no", "fresh", "overdue"},
                      marks : SUBSET Log!Row, swept : BOOLEAN]
      /\ check'.at = "done" /\ check'.todo = check.todo /\ check'.bad = check.bad /\ check'.marks = check.marks
      /\ check'.swept = check.swept
  BY <1>2, <1>4
<1>6. Log!OnTheWay' = Log!OnTheWay
  BY <1>1, WayKeep DEF WayKept, VerifierOnly
<1>7. Excused' <=> Excused
  BY <1>1, <1>5 DEF Excused, VerifierOnly
<1>8. CheckIsRight'
  BY <1>1, <1>3, <1>5, <1>6, <1>7 DEF LogInv, CheckIsRight, VerifierOnly
<1> QED
  BY <1>1, <1>5, <1>8, VerifierStep

LEMMA ReportLog == LogInv /\ Log!Report => LogInv'
<1> SUFFICES ASSUME LogInv, Log!Report PROVE LogInv'
  OBVIOUS
<1>1. VerifierOnly
  BY DEF Log!Report, VerifierOnly, Log!log, Log!chain, Log!erasing, Log!history
<1>2. check' = [at |-> "idle", todo |-> {}, bad |-> FALSE, stale |-> "no", marks |-> {}, swept |-> FALSE]
  BY DEF Log!Report, Log!Asleep
<1>3. CheckIsRight'
  BY <1>2 DEF CheckIsRight
<1> QED
  BY <1>1, <1>2, <1>3, VerifierStep

-----------------------------------------------------------------------------
(* Steps that change rows *)

\* The rows in the table stay as they are.
TableKept ==
  /\ Log!In' = Log!In /\ \A r \in Log!In : row'[r] = row[r]
  /\ \A r \in Log!Row \ Log!In : row'[r].anchor = Log!None /\ ~row'[r].hashed /\ ~row'[r].erased /\ ~row'[r].altered

LEMMA MatchTable ==
  ASSUME RowsMatchAnchors, TableKept, UNCHANGED <<anchors, untidy>>
  PROVE  RowsMatchAnchors'
<1>1. \A r \in Log!Row : row'[r].in => r \in Log!In
  BY DEF TableKept, Log!In
<1>2. \A r \in Log!Row : ~row'[r].in => r \notin Log!In
  BY DEF TableKept, Log!In
<1>3. \A r \in Log!Row : ~row'[r].in => row'[r].anchor = Log!None /\ ~row'[r].hashed /\ ~row'[r].erased /\ ~row'[r].altered
  BY <1>2 DEF TableKept
<1>4. \A r \in Log!In' : row'[r].anchor # Log!None =>
        /\ row'[r].anchor \in DOMAIN anchors' /\ row'[r].hashed
        /\ anchors'[row'[r].anchor].day <= Log!Day(row'[r].at)
  BY DEF TableKept, RowsMatchAnchors
<1>5. \A i : Log!InAnchor(i)' = Log!InAnchor(i)
  BY DEF TableKept, Log!InAnchor
<1>6. Log!Unpruned' = Log!Unpruned
  BY DEF Log!Unpruned
<1>7. untidy' \/ \A i \in Log!Unpruned' : anchors'[i].root = Log!InAnchor(i)'
  BY <1>5, <1>6 DEF RowsMatchAnchors
<1> QED
  BY <1>3, <1>4, <1>7 DEF RowsMatchAnchors

LEMMA ErasedInTable ==
  ASSUME LogShapes, TableKept
  PROVE  /\ \A r \in Log!Row : row'[r].erased => r \in Log!In /\ row[r].erased
         /\ \A r \in Log!Row : row'[r].altered => r \in Log!In /\ row[r].altered
         /\ Log!In \subseteq Log!Row
  BY DEF TableKept, Log!In

LEMMA ReceiptTable ==
  ASSUME LogShapes, ReceiptIsRight, TableKept, UNCHANGED <<eraser, receipt, untidy, raced>>,
         eraser \in {"read", "write"} => worker' # "fold"
  PROVE  ReceiptIsRight'
<1>1. \A r \in Log!Row : row'[r].erased => eraser' = "gone"
  BY ErasedInTable DEF ReceiptIsRight
<1>2. {r \in Log!Target : row[r].hashed}' = {r \in Log!Target : row[r].hashed}
  BY DEF TableKept, Log!Target
<1>3. Log!ReceiptHolds' <=> Log!ReceiptHolds
  BY DEF TableKept, Log!ReceiptHolds
<1> QED
  BY <1>1, <1>2, <1>3 DEF ReceiptIsRight

LEMMA CheckTable ==
  ASSUME LogShapes, CheckIsRight, RowsMatchAnchors, TableKept, UNCHANGED <<check, anchors, untidy>>,
         logged' \in Nat, logged <= logged', \A r \in check.marks : r \notin Log!OnTheWay',
         raced /\ eraser = "gone" => raced' /\ eraser' = "gone"
  PROVE  CheckIsRight'
<1>1. Excused => Excused'
  <2>1. ASSUME NEW r \in Log!Row, row[r].altered PROVE row'[r].altered
    <3>1. row[r].in
      BY <2>1 DEF RowsMatchAnchors
    <3> QED
      BY <2>1, <3>1 DEF TableKept, Log!In
  <2> QED
    BY <2>1 DEF Excused
<1>2. \A r \in check.marks : r \in Log!Row /\ r \in Nat /\ r <= logged
  <2>1. Log!Row \subseteq Nat
    BY LogAssumption DEF Log!Row
  <2> QED
    BY <2>1, ChecksAre DEF CheckIsRight
<1>3. logged \in Nat
  BY DEF LogShapes
<1>4. \A r \in check.marks : r <= logged'
  BY <1>2, <1>3
<1>5. ASSUME NEW r \in check.marks, row'[r].in, ~row'[r].erased
      PROVE  row'[r].altered /\ row'[r].anchor # Log!None /\ (check'.bad \/ row'[r].anchor \in check'.todo)
  <2>1. r \in Log!In
    BY <1>2, <1>5 DEF TableKept, Log!In
  <2>2. row'[r] = row[r] /\ row[r].in
    BY <2>1 DEF TableKept, Log!In
  <2> QED
    BY <1>5, <2>2 DEF CheckIsRight
<1>6. Log!Unpruned' = Log!Unpruned
  BY DEF Log!Unpruned
<1> QED
  BY <1>1, <1>4, <1>5, <1>6 DEF CheckIsRight

LEMMA LogLog ==
  ASSUME LogInv, NEW about \in BOOLEAN, Log!Log(about)
  PROVE  LogInv'
<1>1. PICK r : r = logged + 1
  OBVIOUS
<1> DEFINE N == [Log!Nowhere EXCEPT !.at = clock, !.about = about]
<1>2. /\ N \in RowRecord /\ N.at = clock /\ N.anchor = Log!None
      /\ ~N.in /\ ~N.gone /\ ~N.hashed /\ ~N.erased /\ ~N.altered
  <2>1. clock \in Nat
    BY LogAssumption DEF LogInv, LogShapes
  <2> QED
    BY <2>1 DEF Log!Nowhere, Log!None, RowRecord
<1> HIDE DEF N
<1>3. /\ UNCHANGED <<clock, doing, anchors, file, worker, eraser, receipt, events, sweeper, check, untidy, raced>>
      /\ logged' = r /\ row' = [row EXCEPT ![r] = N]
      /\ \/ buffer' = Append(buffer, r) /\ flight' = flight
         \/ flight' = flight \cup {<<r>>} /\ buffer' = buffer
  <2>1. row' = [row EXCEPT ![logged + 1] = N]
    BY DEF Log!Log, N
  <2>2. /\ UNCHANGED <<clock, doing, anchors, file, worker, eraser, receipt, events, sweeper, check, untidy, raced>>
        /\ logged' = r
    BY <1>1 DEF Log!Log, Log!chain, Log!erasing, Log!history
  <2>3. \/ buffer' = Append(buffer, r) /\ flight' = flight
        \/ flight' = flight \cup {<<r>>} /\ buffer' = buffer
    BY <1>1 DEF Log!Log
  <2> QED
    BY <1>1, <2>1, <2>2, <2>3
<1>4. r \in Log!Row /\ r \in 0..MaxRow /\ r > logged /\ logged \in Nat
  <2>1. logged < MaxRow \/ logged < MaxRow - 1
    <3>1. logged < MaxRow - (IF {"sweep", "alter"} \cap doing # {} THEN 1 ELSE 0)
      BY DEF Log!Log
    <3> QED
      BY <3>1, LogAssumption
  <2> QED
    BY <1>1, <2>1, LogAssumption DEF LogInv, LogShapes, Log!Row
<1>5. row[r] = Log!Nowhere
  BY <1>4 DEF LogInv, EntriesArrive
<1>6. row'[r] = N /\ \A x \in Log!Row \ {r} : row'[x] = row[x]
  BY <1>3, <1>4 DEF LogInv, LogShapes
<1>7. buffer \in Seq(Log!Row)
  BY DEF LogInv, LogShapes
<1>8. Log!OnTheWay' = Log!OnTheWay \cup {r}
  <2>1. CASE buffer' = Append(buffer, r) /\ flight' = flight
    <3>1. Log!ToSet(buffer') = Log!ToSet(buffer) \cup {r}
      BY <1>4, <1>7, <2>1, InSequences
    <3> QED
      BY <2>1, <3>1 DEF Log!OnTheWay
  <2>2. CASE flight' = flight \cup {<<r>>} /\ buffer' = buffer
    <3>1. Log!ToSet(<<r>>) = {r}
      BY <1>4, InSequences
    <3> QED
      BY <2>2, <3>1 DEF Log!OnTheWay
  <2> QED
    BY <1>3, <2>1, <2>2
<1>9. r \notin Log!OnTheWay
  BY <1>4 DEF LogInv, EntriesArrive
<1>10. LogShapes'
  <2>1. row' \in [Log!Row -> RowRecord]
    BY <1>2, <1>3 DEF LogInv, LogShapes
  <2>2. /\ buffer' \in Seq(Log!Row) /\ flight' \subseteq Seq(Log!Row)
        /\ \A f \in flight' : /\ Log!ToSet(f) \cap Log!ToSet(buffer') = {}
                              /\ \A g \in flight' \ {f} : Log!ToSet(f) \cap Log!ToSet(g) = {}
    <3>1. /\ flight \subseteq Seq(Log!Row)
          /\ \A f \in flight : /\ Log!ToSet(f) \cap Log!ToSet(buffer) = {}
                               /\ \A g \in flight \ {f} : Log!ToSet(f) \cap Log!ToSet(g) = {}
      BY DEF LogInv, LogShapes
    <3>2. r \notin Log!ToSet(buffer) /\ \A f \in flight : r \notin Log!ToSet(f)
      BY <1>9 DEF Log!OnTheWay
    <3>3. CASE buffer' = Append(buffer, r) /\ flight' = flight
      <4>1. Log!ToSet(buffer') = Log!ToSet(buffer) \cup {r} /\ buffer' \in Seq(Log!Row)
        BY <1>4, <1>7, <3>3, InSequences
      <4> QED
        BY <3>1, <3>2, <3>3, <4>1
    <3>4. CASE flight' = flight \cup {<<r>>} /\ buffer' = buffer
      <4>1. PICK f \in Seq(Log!Row) : f = <<r>> /\ Log!ToSet(f) = {r}
        <5>1. <<r>> \in Seq(Log!Row)
          BY <1>4
        <5>2. Log!ToSet(<<r>>) = {r}
          BY <1>4, InSequences
        <5> QED
          BY <5>1, <5>2
      <4>2. flight' = flight \cup {f} /\ buffer' = buffer
        BY <3>4, <4>1
      <4>3. Log!ToSet(f) \cap Log!ToSet(buffer) = {} /\ \A g \in flight : Log!ToSet(f) \cap Log!ToSet(g) = {}
        BY <3>2, <4>1
      <4>4. \A h \in flight' : h = f \/ h \in flight
        BY <4>2
      <4> QED
        BY <1>7, <3>1, <4>1, <4>2, <4>3, <4>4
    <3> QED
      BY <1>3, <3>3, <3>4
  <2> QED
    BY <1>3, <1>4, <2>1, <2>2 DEF LogInv, LogShapes
<1>11. TableKept
  <2>1. r \notin Log!In /\ ~row'[r].in
    BY <1>2, <1>5, <1>6 DEF Log!In, Log!Nowhere
  <2>2. Log!In' = Log!In
    BY <1>6, <2>1 DEF Log!In
  <2>3. \A x \in Log!In : row'[x] = row[x]
    BY <1>6, <2>1 DEF Log!In
  <2>4. \A x \in (Log!Row \ Log!In) \ {r} : row'[x] = row[x] /\ ~row[x].in
    BY <1>6 DEF Log!In
  <2>5. \A x \in (Log!Row \ Log!In) \ {r} : row'[x].anchor = Log!None /\ ~row'[x].hashed /\ ~row'[x].erased /\ ~row'[x].altered
    BY <2>4 DEF LogInv, RowsMatchAnchors
  <2>6. row'[r].anchor = Log!None /\ ~row'[r].hashed /\ ~row'[r].erased /\ ~row'[r].altered
    BY <1>2, <1>6
  <2> QED
    BY <2>2, <2>3, <2>5, <2>6 DEF TableKept
<1>12. EntriesArrive'
  <2>1. \A x \in Log!Row : row'[x].at <= clock'
    BY <1>2, <1>3, <1>6 DEF LogInv, EntriesArrive, LogShapes
  <2>2. \A x \in Log!Row : x > logged' => row'[x] = Log!Nowhere
    <3>1. Log!Row \subseteq Nat
      BY LogAssumption DEF Log!Row
    <3>2. \A x \in Log!Row : x > logged' => x > logged /\ x # r
      BY <1>3, <1>4, <3>1
    <3> QED
      BY <1>6, <3>2 DEF LogInv, EntriesArrive
  <2>3. ASSUME NEW x \in Log!OnTheWay'
        PROVE  /\ x <= logged' /\ row'[x].at + MaxDelay >= clock' /\ row'[x].anchor = Log!None
               /\ ~row'[x].in /\ ~row'[x].gone /\ ~row'[x].hashed /\ ~row'[x].erased /\ ~row'[x].altered
    <3>1. CASE x = r
      BY <1>2, <1>3, <1>4, <1>6, <3>1, LogAssumption DEF LogInv, LogShapes
    <3>2. CASE x \in Log!OnTheWay
      <4>1. x \in Log!Row /\ x # r /\ x \in Nat
        BY <1>9, <3>2, OnTheWayIs, LogAssumption DEF LogInv, Log!Row
      <4>2. row'[x] = row[x]
        BY <1>6, <4>1
      <4>3. x <= logged'
        BY <1>3, <1>4, <3>2, <4>1 DEF LogInv, EntriesArrive
      <4> QED
        BY <1>3, <3>2, <4>2, <4>3 DEF LogInv, EntriesArrive
    <3> QED
      BY <1>8, <3>1, <3>2
  <2>4. Log!NoEntryIsLost'
    <3>1. ASSUME Log!buffered, NEW x \in 1..r PROVE row'[x].in \/ row'[x].gone \/ x \in Log!OnTheWay'
      <4>1. CASE x = r
        BY <1>8, <4>1
      <4>2. CASE x # r
        <5>1. x \in 1..logged /\ x \in Log!Row
          <6>1. x \in Nat /\ 1 <= x /\ x <= logged /\ logged + 1 <= MaxRow
            BY <1>1, <1>4, <4>2
          <6> QED
            BY <1>4, <6>1, LogAssumption DEF Log!Row
        <5> QED
          BY <1>6, <1>8, <3>1, <4>2, <5>1 DEF LogInv, EntriesArrive, Log!NoEntryIsLost
      <4> QED
        BY <4>1, <4>2
    <3> QED
      BY <1>3, <3>1 DEF Log!NoEntryIsLost, Log!buffered
  <2> QED
    BY <2>1, <2>2, <2>3, <2>4 DEF EntriesArrive
<1>13. AnchorsAreOrdered'
  <2>1. ASSUME NEW i \in DOMAIN anchors, NEW x \in Log!Row, Pending(x)' PROVE anchors[i].day <= Log!Day(row'[x].at)
    <3>1. CASE x = r
      <4>1. row'[x].at = clock
        BY <1>2, <1>6, <3>1
      <4> QED
        BY <4>1 DEF LogInv, AnchorsAreOrdered
    <3>2. CASE x # r
      <4>1. row'[x] = row[x] /\ (x \in Log!OnTheWay' => x \in Log!OnTheWay)
        BY <1>6, <1>8, <3>2
      <4>2. Pending(x)
        BY <2>1, <4>1 DEF Pending
      <4> QED
        BY <4>1, <4>2 DEF LogInv, AnchorsAreOrdered
    <3> QED
      BY <3>1, <3>2
  <2> QED
    BY <1>3, <2>1 DEF LogInv, AnchorsAreOrdered
<1>14. eraser \in {"read", "write"} => worker' # "fold"
  BY <1>3 DEF LogInv, ReceiptIsRight
<1>15. RowsMatchAnchors' /\ ReceiptIsRight'
  BY <1>3, <1>11, <1>14, MatchTable, ReceiptTable DEF LogInv
<1>16. CheckIsRight'
  <2>1. \A x \in check.marks : x \notin Log!OnTheWay'
    <3>1. Log!Row \subseteq Nat
      BY LogAssumption DEF Log!Row
    <3>2. \A x \in check.marks : x \in Nat /\ x <= logged /\ x \notin Log!OnTheWay
      BY <3>1, ChecksAre DEF LogInv, CheckIsRight
    <3> QED
      BY <1>4, <1>8, <3>2
  <2>2. logged' \in Nat /\ logged <= logged'
    BY <1>3, <1>4
  <2> QED
    BY <1>3, <1>11, <2>1, <2>2, CheckTable DEF LogInv
<1> QED
  BY <1>10, <1>12, <1>13, <1>15, <1>16 DEF LogInv

LEMMA InsertLog ==
  ASSUME LogInv, NEW f \in flight, Log!Insert(f)
  PROVE  LogInv'
<1>1. PICK S : S = Log!ToSet(f)
  OBVIOUS
<1>2. /\ UNCHANGED <<clock, doing, logged, buffer, anchors, file, worker, eraser, receipt, events, sweeper, check, untidy>>
      /\ flight' = flight \ {f}
      /\ row' = [r \in Log!Row |-> IF r \in S THEN [row[r] EXCEPT !.in = TRUE, !.hashed = TRUE] ELSE row[r]]
      /\ raced' = (raced \/ (eraser = "write" /\ \E r \in S : row[r].about))
  BY <1>1 DEF Log!Insert, Log!chain, Log!erasing
<1>3. S \subseteq Log!OnTheWay /\ S \subseteq Log!Row
  BY <1>1, OnTheWayIs DEF LogInv
<1>4. Log!OnTheWay' = Log!OnTheWay \ S
  <2>1. /\ S \cap Log!ToSet(buffer) = {}
        /\ \A g \in flight \ {f} : S \cap Log!ToSet(g) = {}
    BY <1>1 DEF LogInv, LogShapes
  <2>2. Log!OnTheWay' = Log!ToSet(buffer) \cup UNION {Log!ToSet(g) : g \in flight \ {f}}
    BY <1>2 DEF Log!OnTheWay
  <2> QED
    BY <1>1, <2>1, <2>2 DEF Log!OnTheWay
<1>5. \A r \in S : /\ r <= logged /\ row[r].anchor = Log!None
                  /\ ~row[r].in /\ ~row[r].gone /\ ~row[r].hashed /\ ~row[r].erased /\ ~row[r].altered
  BY <1>3 DEF LogInv, EntriesArrive
<1>6. ASSUME NEW r \in S
      PROVE  /\ row'[r] \in RowRecord /\ row'[r].in /\ row'[r].hashed /\ row'[r].at = row[r].at
             /\ row'[r].anchor = Log!None /\ ~row'[r].erased /\ ~row'[r].altered /\ row'[r].about = row[r].about
  <2>1. PICK q \in RowRecord : q = row[r]
    BY <1>3 DEF LogInv, LogShapes
  <2>2. row'[r] = [q EXCEPT !.in = TRUE, !.hashed = TRUE]
    BY <1>2, <1>3, <2>1
  <2> QED
    BY <1>5, <2>1, <2>2 DEF RowRecord
<1>7. \A r \in Log!Row \ S : row'[r] = row[r]
  BY <1>2
<1>8. LogShapes'
  <2>1. row' \in [Log!Row -> RowRecord]
    <3>1. \A r \in Log!Row : row'[r] \in RowRecord
      BY <1>6, <1>7 DEF LogInv, LogShapes
    <3>2. row' = [r \in Log!Row |-> row'[r]]
      BY <1>2
    <3> QED
      BY <3>1, <3>2
  <2>2. raced' \in BOOLEAN
    BY <1>2 DEF LogInv, LogShapes
  <2>3. /\ flight' \subseteq Seq(Log!Row)
        /\ \A g \in flight' : /\ Log!ToSet(g) \cap Log!ToSet(buffer') = {}
                              /\ \A h \in flight' \ {g} : Log!ToSet(g) \cap Log!ToSet(h) = {}
    <3>1. /\ flight \subseteq Seq(Log!Row)
          /\ \A g \in flight : /\ Log!ToSet(g) \cap Log!ToSet(buffer) = {}
                               /\ \A h \in flight \ {g} : Log!ToSet(g) \cap Log!ToSet(h) = {}
      BY DEF LogInv, LogShapes
    <3> QED
      BY <1>2, <3>1
  <2> QED
    BY <1>2, <2>1, <2>2, <2>3 DEF LogInv, LogShapes
<1>9. EntriesArrive'
  <2>1. \A r \in Log!Row : row'[r].at <= clock'
    BY <1>2, <1>6, <1>7 DEF LogInv, EntriesArrive
  <2>2. ASSUME NEW r \in Log!Row, r > logged' PROVE row'[r] = Log!Nowhere
    <3>1. r \notin S
      <4>1. Log!Row \subseteq Nat /\ logged \in Nat
        BY LogAssumption DEF LogInv, LogShapes, Log!Row
      <4>2. r \in Nat /\ r > logged
        BY <1>2, <2>2, <4>1
      <4>3. ~ (r <= logged)
        BY <4>1, <4>2
      <4> QED
        BY <1>5, <4>3
    <3> QED
      BY <1>2, <1>7, <2>2, <3>1 DEF LogInv, EntriesArrive
  <2>3. \A r \in Log!OnTheWay' : r \in Log!OnTheWay /\ row'[r] = row[r]
    BY <1>4, <1>7, OnTheWayIs DEF LogInv
  <2>4. Log!NoEntryIsLost'
    <3>1. ASSUME Log!buffered, NEW r \in 1..logged PROVE row'[r].in \/ row'[r].gone \/ r \in Log!OnTheWay'
      <4>1. CASE r \in S
        BY <1>6, <4>1
      <4>2. CASE r \notin S
        <5>1. r \in Log!Row
          BY LogAssumption DEF LogInv, LogShapes, Log!Row
        <5> QED
          BY <1>4, <1>7, <3>1, <4>2, <5>1 DEF LogInv, EntriesArrive, Log!NoEntryIsLost
      <4> QED
        BY <4>1, <4>2
    <3> QED
      BY <1>2, <3>1 DEF Log!NoEntryIsLost, Log!buffered
  <2> QED
    BY <1>2, <2>1, <2>2, <2>3, <2>4 DEF LogInv, EntriesArrive
<1>10. AnchorsAreOrdered'
  <2>1. ASSUME NEW i \in DOMAIN anchors, NEW r \in Log!Row, Pending(r)' PROVE anchors[i].day <= Log!Day(row'[r].at)
    <3>1. CASE r \in S
      BY <1>3, <1>6, <3>1 DEF LogInv, AnchorsAreOrdered, Pending
    <3>2. CASE r \notin S
      <4>1. row'[r] = row[r] /\ (r \in Log!OnTheWay' => r \in Log!OnTheWay)
        BY <1>4, <1>7, <3>2
      <4>2. Pending(r)
        BY <2>1, <4>1 DEF Pending
      <4> QED
        BY <4>1, <4>2 DEF LogInv, AnchorsAreOrdered
    <3> QED
      BY <3>1, <3>2
  <2> QED
    BY <1>2, <2>1 DEF LogInv, AnchorsAreOrdered
<1>11. Log!In' = Log!In \cup S /\ S \cap Log!In = {}
  BY <1>3, <1>5, <1>6, <1>7 DEF Log!In
<1>12. RowsMatchAnchors'
  <2>1. \A r \in Log!Row : ~row'[r].in => r \notin S
    BY <1>6
  <2>2. \A r \in Log!Row : ~row'[r].in => row'[r].anchor = Log!None /\ ~row'[r].hashed /\ ~row'[r].erased /\ ~row'[r].altered
    BY <1>7, <2>1 DEF LogInv, RowsMatchAnchors
  <2>3. \A r \in Log!In' : row'[r].anchor # Log!None => r \in Log!In /\ row'[r] = row[r]
    <3>1. Log!In \subseteq Log!Row
      BY DEF Log!In
    <3> QED
      BY <1>6, <1>7, <1>11, <3>1
  <2>4. \A r \in Log!In' : row'[r].anchor # Log!None =>
          /\ row'[r].anchor \in DOMAIN anchors' /\ row'[r].hashed
          /\ anchors'[row'[r].anchor].day <= Log!Day(row'[r].at)
    BY <1>2, <2>3 DEF LogInv, RowsMatchAnchors
  <2>5. ASSUME NEW i \in Log!Unpruned PROVE Log!InAnchor(i)' = Log!InAnchor(i)
    <3>1. i # Log!None
      BY AnchorsAre DEF LogInv, LogShapes, Log!Unpruned, Log!None
    <3>2. \A r \in Log!In : row'[r] = row[r]
      BY <1>7, <1>11 DEF Log!In
    <3>3. \A r \in S : row'[r].anchor # i
      BY <1>6, <3>1
    <3> QED
      BY <1>11, <3>2, <3>3 DEF Log!InAnchor
  <2>6. Log!Unpruned' = Log!Unpruned
    BY <1>2 DEF Log!Unpruned
  <2>7. ~untidy' => \A i \in Log!Unpruned' : anchors'[i].root = Log!InAnchor(i)'
    BY <1>2, <2>5, <2>6 DEF LogInv, RowsMatchAnchors
  <2> QED
    BY <2>2, <2>4, <2>7 DEF RowsMatchAnchors
<1>13. ReceiptIsRight'
  <2>1. \A r \in Log!Row : row'[r].erased => eraser' = "gone"
    BY <1>2, <1>6, <1>7 DEF LogInv, ReceiptIsRight
  <2>2. ASSUME eraser = "write", ~raced' PROVE {r \in Log!Target : row[r].hashed}' = {r \in Log!Target : row[r].hashed}
    <3>1. \A r \in S : ~row[r].about
      BY <1>2, <2>2
    <3>2. \A r \in S : ~row'[r].about
      BY <1>6, <3>1
    <3>3. \A r \in Log!In : row'[r] = row[r]
      BY <1>7, <1>11 DEF Log!In
    <3> QED
      BY <1>11, <3>2, <3>3 DEF Log!Target
  <2>3. Log!ReceiptHolds' <=> Log!ReceiptHolds
    <3>1. \A r \in Log!In : row'[r] = row[r]
      BY <1>7, <1>11 DEF Log!In
    <3>2. \A r \in S : ~row'[r].erased
      BY <1>6
    <3>3. {r \in Log!In : row[r].erased /\ row[r].hashed}' = {r \in Log!In : row[r].erased /\ row[r].hashed}
      BY <1>11, <3>1, <3>2
    <3> QED
      BY <1>2, <3>3 DEF Log!ReceiptHolds
  <2>4. eraser' = "write" /\ ~raced' /\ ~untidy' => receipt' = {r \in Log!Target : row[r].hashed}'
    BY <1>2, <2>2 DEF LogInv, ReceiptIsRight
  <2>5. eraser' = "gone" /\ ~raced' /\ ~untidy' => Log!ReceiptHolds'
    BY <1>2, <2>3 DEF LogInv, ReceiptIsRight
  <2>6. /\ eraser' \in {"read", "write"} => worker' # "fold"
        /\ eraser' \in {"idle", "read"} => receipt' = {}
    BY <1>2 DEF LogInv, ReceiptIsRight
  <2> QED
    BY <2>1, <2>4, <2>5, <2>6 DEF ReceiptIsRight
<1>14. CheckIsRight'
  <2>1. \A r \in check.marks : r \in Log!Row /\ r \notin S /\ r \notin Log!OnTheWay'
    BY <1>3, <1>4, ChecksAre DEF LogInv, CheckIsRight
  <2>2. \A r \in check.marks : row'[r] = row[r]
    BY <1>7, <2>1
  <2>3. Excused => Excused'
    <3>1. \A r \in Log!Row : row[r].altered => row'[r].altered
      BY <1>5, <1>7
    <3> QED
      BY <1>2, <3>1 DEF Excused
  <2>4. Log!Unpruned' = Log!Unpruned
    BY <1>2 DEF Log!Unpruned
  <2> QED
    BY <1>2, <2>1, <2>2, <2>3, <2>4 DEF LogInv, CheckIsRight
<1> QED
  BY <1>8, <1>9, <1>10, <1>12, <1>13, <1>14 DEF LogInv

\* A step after which the rows are where they were, when they were, with the same hash and in
\* the same anchors.
PlacesKept ==
  \A r \in Log!Row : /\ row'[r].in = row[r].in /\ row'[r].gone = row[r].gone /\ row'[r].at = row[r].at
                     /\ row'[r].anchor = row[r].anchor /\ row'[r].hashed = row[r].hashed
                     /\ row[r].erased => row'[r].erased
                     /\ row[r].altered => row'[r].altered
                     /\ ~row[r].in => row'[r] = row[r]

LEMMA PlacesStep ==
  ASSUME LogInv, PlacesKept, UNCHANGED <<clock, doing, logged, buffer, flight, anchors, file, check, untidy>>,
         raced /\ eraser = "gone" => raced' /\ eraser' = "gone"
  PROVE  EntriesArrive' /\ AnchorsAreOrdered' /\ RowsMatchAnchors' /\ CheckIsRight'
<1>1. Log!OnTheWay' = Log!OnTheWay /\ Log!OnTheWay \subseteq Log!Row
  BY WayKeep, OnTheWayIs DEF WayKept, LogInv
<1>2. Log!In' = Log!In /\ Log!In \subseteq Log!Row
  BY DEF PlacesKept, Log!In
<1>3. EntriesArrive'
  <2>1. \A r \in Log!OnTheWay : row'[r] = row[r]
    BY <1>1 DEF PlacesKept, LogInv, EntriesArrive
  <2>2. ASSUME NEW r \in Log!Row, r > logged PROVE row'[r] = Log!Nowhere
    <3>1. row[r] = Log!Nowhere
      BY <2>2 DEF LogInv, EntriesArrive
    <3>2. ~row[r].in
      BY <3>1 DEF Log!Nowhere
    <3> QED
      BY <3>1, <3>2 DEF PlacesKept
  <2>3. Log!NoEntryIsLost'
    <3>1. 1..logged \subseteq Log!Row
      BY LogAssumption DEF LogInv, LogShapes, Log!Row
    <3> QED
      BY <1>1, <3>1 DEF LogInv, EntriesArrive, Log!NoEntryIsLost, Log!buffered, PlacesKept
  <2> QED
    BY <1>1, <2>1, <2>2, <2>3 DEF LogInv, EntriesArrive, PlacesKept
<1>4. AnchorsAreOrdered'
  <2>1. \A r \in Log!Row : Pending(r)' => Pending(r)
    BY <1>1 DEF PlacesKept, Pending
  <2> QED
    BY <2>1 DEF LogInv, AnchorsAreOrdered, PlacesKept
<1>5. RowsMatchAnchors'
  <2>1. \A i : Log!InAnchor(i)' = Log!InAnchor(i)
    BY <1>2 DEF Log!InAnchor, PlacesKept
  <2>2. Log!Unpruned' = Log!Unpruned
    BY DEF Log!Unpruned
  <2>3. \A r \in Log!In' : row'[r].anchor # Log!None =>
          /\ row'[r].anchor \in DOMAIN anchors' /\ row'[r].hashed
          /\ anchors'[row'[r].anchor].day <= Log!Day(row'[r].at)
    BY <1>2 DEF PlacesKept, LogInv, RowsMatchAnchors
  <2>4. \A r \in Log!Row : ~row'[r].in => row'[r].anchor = Log!None /\ ~row'[r].hashed /\ ~row'[r].erased /\ ~row'[r].altered
    BY DEF PlacesKept, LogInv, RowsMatchAnchors
  <2>5. ~untidy' => \A i \in Log!Unpruned' : anchors'[i].root = Log!InAnchor(i)'
    BY <2>1, <2>2 DEF LogInv, RowsMatchAnchors
  <2> QED
    BY <2>3, <2>4, <2>5 DEF RowsMatchAnchors
<1>6. CheckIsRight'
  <2>1. Excused => Excused'
    BY DEF Excused, PlacesKept
  <2>2. Log!Unpruned' = Log!Unpruned
    BY DEF Log!Unpruned
  <2>3. ASSUME NEW r \in check.marks, row'[r].in, ~row'[r].erased
        PROVE  row'[r].altered /\ row'[r].anchor # Log!None /\ (check.bad \/ row'[r].anchor \in check.todo)
    <3>1. r \in Log!Row
      BY ChecksAre DEF LogInv
    <3>2. row[r].in /\ ~row[r].erased
      BY <2>3, <3>1 DEF PlacesKept
    <3>3. row[r].altered /\ row[r].anchor # Log!None /\ (check.bad \/ row[r].anchor \in check.todo)
      BY <3>2 DEF LogInv, CheckIsRight
    <3> QED
      BY <3>1, <3>3 DEF PlacesKept
  <2> QED
    BY <1>1, <2>1, <2>2, <2>3 DEF LogInv, CheckIsRight
<1> QED
  BY <1>3, <1>4, <1>5, <1>6

LEMMA AlterLog ==
  ASSUME LogInv, NEW r \in Log!Row, Log!Alter(r)
  PROVE  LogInv'
<1>1. /\ UNCHANGED <<clock, doing, logged, buffer, flight, anchors, file, worker, eraser, receipt, events, sweeper, check, untidy, raced>>
      /\ r \in Log!In /\ row' = [row EXCEPT ![r].altered = TRUE]
  BY DEF Log!Alter, Log!log, Log!chain, Log!erasing, Log!history
<1>2. PICK q \in RowRecord : q = row[r]
  BY DEF LogInv, LogShapes
<1>3. row'[r] = [q EXCEPT !.altered = TRUE] /\ \A x \in Log!Row \ {r} : row'[x] = row[x]
  BY <1>1, <1>2 DEF LogInv, LogShapes
<1>4. /\ row'[r] \in RowRecord /\ row'[r].in = q.in /\ row'[r].gone = q.gone /\ row'[r].at = q.at /\ row'[r].anchor = q.anchor
      /\ row'[r].hashed = q.hashed /\ row'[r].erased = q.erased /\ row'[r].about = q.about /\ row'[r].altered
  BY <1>3 DEF RowRecord
<1>5. row[r].in
  BY <1>1 DEF Log!In
<1>6. PlacesKept
  BY <1>2, <1>3, <1>4, <1>5 DEF PlacesKept
<1>7. LogShapes'
  <2>1. row' \in [Log!Row -> RowRecord]
    BY <1>1, <1>3, <1>4 DEF LogInv, LogShapes
  <2> QED
    BY <1>1, <2>1 DEF LogInv, LogShapes
<1>8. ReceiptIsRight'
  <2>1. Log!In' = Log!In /\ Log!In \subseteq Log!Row
    BY <1>6 DEF PlacesKept, Log!In
  <2>2. \A x \in Log!Row : row'[x].erased = row[x].erased /\ row'[x].about = row[x].about /\ row'[x].hashed = row[x].hashed
    BY <1>2, <1>3, <1>4
  <2>3. {x \in Log!Target : row[x].hashed}' = {x \in Log!Target : row[x].hashed}
    BY <2>1, <2>2 DEF Log!Target
  <2>4. Log!ReceiptHolds' <=> Log!ReceiptHolds
    BY <1>1, <2>1, <2>2 DEF Log!ReceiptHolds
  <2> QED
    BY <1>1, <2>2, <2>3, <2>4 DEF LogInv, ReceiptIsRight
<1> QED
  BY <1>1, <1>6, <1>7, <1>8, PlacesStep DEF LogInv

LEMMA EraseWriteLog == LogInv /\ Log!EraseWrite => LogInv'
<1> SUFFICES ASSUME LogInv, Log!EraseWrite PROVE LogInv'
  OBVIOUS
<1>1. /\ UNCHANGED <<clock, doing, logged, buffer, flight, anchors, file, worker, receipt, sweeper, check, untidy, raced>>
      /\ eraser = "write" /\ eraser' = "gone"
      /\ row' = [r \in Log!Row |-> IF r \in Log!Target THEN [row[r] EXCEPT !.about = FALSE, !.erased = TRUE] ELSE row[r]]
  BY DEF Log!EraseWrite, Log!ScrubSet, Log!Scrubbed, Log!log, Log!chain, Log!history
<1>2. Log!Target \subseteq Log!Row /\ \A r \in Log!Target : row[r].in
  BY DEF Log!Target, Log!In
<1>3. ASSUME NEW r \in Log!Target
      PROVE  /\ row'[r] \in RowRecord /\ row'[r].in = row[r].in /\ row'[r].gone = row[r].gone /\ row'[r].at = row[r].at
             /\ row'[r].anchor = row[r].anchor /\ row'[r].hashed = row[r].hashed /\ row'[r].altered = row[r].altered
             /\ row'[r].erased
  <2>1. PICK q \in RowRecord : q = row[r]
    BY <1>2 DEF LogInv, LogShapes
  <2>2. row'[r] = [q EXCEPT !.about = FALSE, !.erased = TRUE]
    BY <1>1, <1>2, <2>1
  <2> QED
    BY <2>1, <2>2 DEF RowRecord
<1>4. \A r \in Log!Row \ Log!Target : row'[r] = row[r]
  BY <1>1
<1>5. PlacesKept
  BY <1>2, <1>3, <1>4 DEF PlacesKept
<1>6. LogShapes'
  <2>1. \A r \in Log!Row : row'[r] \in RowRecord
    BY <1>3, <1>4 DEF LogInv, LogShapes
  <2>2. row' = [r \in Log!Row |-> row'[r]]
    BY <1>1
  <2>3. row' \in [Log!Row -> RowRecord]
    BY <2>1, <2>2
  <2> QED
    BY <1>1, <2>3 DEF LogInv, LogShapes
<1>7. ReceiptIsRight'
  <2>1. \A r \in Log!Row : ~row[r].erased
    BY <1>1 DEF LogInv, ReceiptIsRight
  <2>2. Log!In' = Log!In
    BY <1>5 DEF PlacesKept, Log!In
  <2>3. \A r \in Log!In : row'[r].erased <=> r \in Log!Target
    BY <1>3, <1>4, <2>1 DEF Log!In
  <2>4. \A r \in Log!In : row'[r].hashed = row[r].hashed
    BY <1>5 DEF PlacesKept, Log!In
  <2>5. {r \in Log!In : row[r].erased /\ row[r].hashed}' = {r \in Log!Target : row[r].hashed}
    BY <2>2, <2>3, <2>4 DEF Log!Target
  <2>6. ~raced' /\ ~untidy' => Log!ReceiptHolds'
    BY <1>1, <2>5 DEF LogInv, ReceiptIsRight, Log!ReceiptHolds
  <2> QED
    BY <1>1, <2>6 DEF ReceiptIsRight
<1> QED
  BY <1>1, <1>5, <1>6, <1>7, PlacesStep DEF LogInv

\* What was on its way is gone, and a transaction of the erasure with it.
LEMMA CrashLog == LogInv /\ Log!Crash => LogInv'
<1> SUFFICES ASSUME LogInv, Log!Crash PROVE LogInv'
  OBVIOUS
<1> DEFINE G == [Log!Nowhere EXCEPT !.gone = TRUE]
<1>1. /\ UNCHANGED <<clock, doing, logged, anchors, file, events, sweeper, check, untidy>>
      /\ buffer' = << >> /\ flight' = {} /\ worker' = "idle"
      /\ row' = [r \in Log!Row |-> IF r \in Log!OnTheWay THEN G ELSE row[r]]
      /\ \/ eraser \in {"read", "write"} /\ eraser' = "idle" /\ receipt' = {} /\ raced' = FALSE
         \/ eraser \notin {"read", "write"} /\ UNCHANGED <<eraser, receipt, raced>>
  BY DEF Log!Crash, Log!chain
<1>2. /\ G \in RowRecord /\ G.at = 0 /\ G.anchor = Log!None /\ G.gone
      /\ ~G.in /\ ~G.hashed /\ ~G.erased /\ ~G.altered
  BY DEF Log!Nowhere, Log!None, RowRecord
<1> HIDE DEF G
<1>3. Log!OnTheWay \subseteq Log!Row
  BY OnTheWayIs DEF LogInv
<1>4. Log!OnTheWay' = {}
  BY <1>1 DEF Log!OnTheWay, Log!ToSet
<1>5. \A r \in Log!OnTheWay : row'[r] = G /\ r <= logged /\ ~row[r].in
  BY <1>1, <1>3 DEF LogInv, EntriesArrive
<1>6. \A r \in Log!Row \ Log!OnTheWay : row'[r] = row[r]
  BY <1>1
<1>7. Log!In \subseteq Log!Row /\ \A r \in Log!In : r \notin Log!OnTheWay /\ row'[r] = row[r]
  BY <1>5, <1>6 DEF Log!In
<1>8. TableKept
  <2>1. Log!In' = Log!In
    BY <1>2, <1>5, <1>6 DEF Log!In
  <2>2. \A r \in Log!Row \ Log!In : row'[r].anchor = Log!None /\ ~row'[r].hashed /\ ~row'[r].erased /\ ~row'[r].altered
    BY <1>2, <1>5, <1>6 DEF LogInv, RowsMatchAnchors, Log!In
  <2> QED
    BY <1>7, <2>1, <2>2 DEF TableKept
<1>9. LogShapes'
  <2>1. \A r \in Log!Row : row'[r] \in RowRecord
    BY <1>2, <1>5, <1>6 DEF LogInv, LogShapes
  <2>2. row' = [r \in Log!Row |-> row'[r]]
    BY <1>1
  <2>3. row' \in [Log!Row -> RowRecord]
    BY <2>1, <2>2
  <2>4. buffer' \in Seq(Log!Row)
    BY <1>1
  <2>5. eraser' \in {"idle", "read", "write", "gone"} /\ receipt' \subseteq Log!Row /\ raced' \in BOOLEAN
    BY <1>1 DEF LogInv, LogShapes
  <2> QED
    BY <1>1, <2>3, <2>4, <2>5 DEF LogInv, LogShapes
<1>10. EntriesArrive'
  <2>1. \A r \in Log!Row : row'[r].at <= clock'
    <3>1. 0 <= clock
      BY LogAssumption DEF LogInv, LogShapes
    <3> QED
      BY <1>1, <1>2, <1>5, <1>6, <3>1 DEF LogInv, EntriesArrive
  <2>2. ASSUME NEW r \in Log!Row, r > logged' PROVE row'[r] = Log!Nowhere
    <3>1. r \notin Log!OnTheWay
      <4>1. Log!Row \subseteq Nat /\ logged \in Nat
        BY LogAssumption DEF LogInv, LogShapes, Log!Row
      <4>2. r \in Nat /\ r > logged
        BY <1>1, <2>2, <4>1
      <4>3. ~ (r <= logged)
        BY <4>1, <4>2
      <4> QED
        BY <1>5, <4>3
    <3> QED
      BY <1>1, <1>6, <2>2, <3>1 DEF LogInv, EntriesArrive
  <2>3. Log!NoEntryIsLost'
    <3>1. ASSUME Log!buffered, NEW r \in 1..logged PROVE row'[r].in \/ row'[r].gone
      <4>1. r \in Log!Row
        BY LogAssumption DEF LogInv, LogShapes, Log!Row
      <4>2. CASE r \in Log!OnTheWay
        BY <1>2, <1>5, <4>2
      <4>3. CASE r \notin Log!OnTheWay
        BY <1>6, <3>1, <4>1, <4>3 DEF LogInv, EntriesArrive, Log!NoEntryIsLost
      <4> QED
        BY <4>2, <4>3
    <3> QED
      BY <1>1, <3>1 DEF Log!NoEntryIsLost, Log!buffered
  <2> QED
    BY <1>4, <2>1, <2>2, <2>3 DEF EntriesArrive
<1>11. AnchorsAreOrdered'
  <2>1. ASSUME NEW r \in Log!Row, Pending(r)' PROVE Pending(r) /\ row'[r] = row[r]
    <3>1. row'[r].in
      BY <1>4, <2>1 DEF Pending
    <3>2. r \in Log!In
      BY <1>8, <3>1 DEF TableKept, Log!In
    <3> QED
      BY <1>4, <1>7, <2>1, <3>2 DEF Pending
  <2> QED
    BY <1>1, <2>1 DEF LogInv, AnchorsAreOrdered
<1>12. RowsMatchAnchors'
  BY <1>1, <1>8, MatchTable DEF LogInv
<1>13. ReceiptIsRight'
  <2>1. CASE eraser \in {"read", "write"}
    <3>1. \A r \in Log!Row : ~row[r].erased
      BY <2>1 DEF LogInv, ReceiptIsRight
    <3>2. \A r \in Log!Row : ~row'[r].erased
      BY <1>2, <1>5, <1>6, <3>1
    <3>3. eraser' = "idle" /\ receipt' = {}
      BY <1>1, <2>1
    <3> QED
      BY <3>2, <3>3 DEF ReceiptIsRight
  <2>2. CASE eraser \notin {"read", "write"}
    <3>1. UNCHANGED <<eraser, receipt, untidy, raced>>
      BY <1>1, <2>2
    <3> QED
      BY <1>8, <2>2, <3>1, ReceiptTable DEF LogInv
  <2> QED
    BY <2>1, <2>2
<1>14. CheckIsRight'
  <2>1. logged' \in Nat /\ logged <= logged'
    BY <1>1 DEF LogInv, LogShapes
  <2>2. raced /\ eraser = "gone" => raced' /\ eraser' = "gone"
    BY <1>1
  <2> QED
    BY <1>1, <1>4, <1>8, <2>1, <2>2, CheckTable DEF LogInv
<1> QED
  BY <1>9, <1>10, <1>11, <1>12, <1>13, <1>14 DEF LogInv

\* A row that goes is of an older day than the anchors that stay unpruned, or the day was split.
LEMMA SweepLog == LogInv /\ Log!Sweep => LogInv'
<1> SUFFICES ASSUME LogInv, Log!Sweep PROVE LogInv'
  OBVIOUS
<1> DEFINE G == [Log!Nowhere EXCEPT !.gone = TRUE]
<1>1. PICK W : W = {r \in Log!In : Log!PastRetention(r)}
  OBVIOUS
<1>2. /\ UNCHANGED <<clock, doing, logged, buffer, flight, file, worker, eraser, receipt, events, raced>>
      /\ anchors' = [i \in DOMAIN anchors |-> Log!MarkPruned(anchors[i])]
      /\ row' = [r \in Log!Row |-> IF r \in W THEN G ELSE row[r]]
      /\ untidy' = (untidy \/ \E r \in W : Log!Erasing(r) \/ Log!Day(row[r].at) = Log!Day(clock) - RetentionDays)
      /\ check' = [check EXCEPT !.swept = TRUE]
  <2>1. row' = [r \in Log!Row |-> IF r \in Log!In /\ Log!PastRetention(r) THEN G ELSE row[r]]
    BY DEF Log!Sweep
  <2>2. \A r : r \in W <=> r \in Log!In /\ Log!PastRetention(r)
    BY <1>1
  <2>3. row' = [r \in Log!Row |-> IF r \in W THEN G ELSE row[r]]
    BY <2>1, <2>2
  <2>4. untidy' = (untidy \/ \E r \in Log!In :
          Log!PastRetention(r) /\ (Log!Erasing(r) \/ Log!Day(row[r].at) = Log!Day(clock) - RetentionDays))
    BY DEF Log!Sweep
  <2>5. untidy' = (untidy \/ \E r \in W : Log!Erasing(r) \/ Log!Day(row[r].at) = Log!Day(clock) - RetentionDays)
    BY <2>2, <2>4
  <2> QED
    BY <2>3, <2>5 DEF Log!Sweep, Log!log, Log!erasing
<1>3. /\ G \in RowRecord /\ G.at = 0 /\ G.anchor = Log!None /\ G.gone
      /\ ~G.in /\ ~G.hashed /\ ~G.erased /\ ~G.altered
  BY DEF Log!Nowhere, Log!None, RowRecord
<1> HIDE DEF G
<1>4. W \subseteq Log!Row /\ \A r \in W : row'[r] = G /\ row[r].in /\ r \in Log!In
  BY <1>1, <1>2 DEF Log!In
<1>5. \A r \in Log!Row \ W : row'[r] = row[r]
  BY <1>2
<1>6. Log!OnTheWay' = Log!OnTheWay /\ \A r \in Log!OnTheWay : r \in Log!Row \ W
  BY <1>2, <1>4, OnTheWayIs, WayKeep DEF WayKept, LogInv, EntriesArrive
<1>7. \A r \in W : untidy' \/ (~row[r].erased /\ (eraser = "write" => ~row[r].about))
  BY <1>2 DEF Log!Erasing
<1>8. PICK l \in Nat : l = Len(anchors) /\ DOMAIN anchors = 1..l
  BY AnchorsAre DEF LogInv, LogShapes
<1>9. ASSUME NEW i \in 1..l
      PROVE  /\ anchors'[i] \in AnchorRecord /\ anchors'[i].day = anchors[i].day /\ anchors'[i].seq = anchors[i].seq
             /\ anchors'[i].root = anchors[i].root /\ anchors'[i].prev = anchors[i].prev
             /\ ~anchors'[i].pruned => ~anchors[i].pruned /\ ~ (anchors[i].day < Log!Day(clock) - RetentionDays)
  <2>1. PICK a \in AnchorRecord : a = anchors[i]
    BY <1>8, AnchorsAre DEF LogInv, LogShapes
  <2>2. anchors'[i] = IF a.day < Log!Day(clock) - RetentionDays THEN [a EXCEPT !.pruned = TRUE] ELSE a
    BY <1>2, <1>8, <2>1 DEF Log!MarkPruned
  <2>3. CASE a.day < Log!Day(clock) - RetentionDays
    <3>1. anchors'[i] = [a EXCEPT !.pruned = TRUE]
      BY <2>2, <2>3
    <3> QED
      BY <2>1, <3>1 DEF AnchorRecord
  <2>4. CASE ~ (a.day < Log!Day(clock) - RetentionDays)
    BY <2>1, <2>2, <2>4
  <2> QED
    BY <2>3, <2>4
<1>10. DOMAIN anchors' = 1..l /\ anchors' \in Seq(AnchorRecord) /\ Len(anchors') = l
  <2>1. DOMAIN anchors' = 1..l /\ anchors' = [i \in 1..l |-> anchors'[i]]
    BY <1>2, <1>8
  <2>2. anchors' \in [1..l -> AnchorRecord]
    BY <1>9, <2>1
  <2> QED
    BY <2>1, <2>2
<1>11. LogShapes'
  <2>1. \A r \in Log!Row : row'[r] \in RowRecord
    BY <1>3, <1>4, <1>5 DEF LogInv, LogShapes
  <2>2. row' = [r \in Log!Row |-> row'[r]]
    BY <1>2
  <2>3. row' \in [Log!Row -> RowRecord]
    BY <2>1, <2>2
  <2>4. untidy' \in BOOLEAN
    BY <1>2 DEF LogInv, LogShapes
  <2>5. check' \in [at : {"idle", "anchors", "done"}, todo : SUBSET Nat, bad : BOOLEAN, stale : {"no", "fresh", "overdue"},
                    marks : SUBSET Log!Row, swept : BOOLEAN]
    BY <1>2 DEF LogInv, LogShapes
  <2> QED
    BY <1>2, <1>10, <2>3, <2>4, <2>5 DEF LogInv, LogShapes
<1>12. EntriesArrive'
  <2>1. \A r \in Log!Row : row'[r].at <= clock'
    <3>1. 0 <= clock
      BY LogAssumption DEF LogInv, LogShapes
    <3> QED
      BY <1>2, <1>3, <1>4, <1>5, <3>1 DEF LogInv, EntriesArrive
  <2>2. ASSUME NEW r \in Log!Row, r > logged' PROVE row'[r] = Log!Nowhere
    <3>1. row[r] = Log!Nowhere
      BY <1>2, <2>2 DEF LogInv, EntriesArrive
    <3>2. ~row[r].in
      BY <3>1 DEF Log!Nowhere
    <3> QED
      BY <1>4, <1>5, <3>1, <3>2
  <2>3. Log!NoEntryIsLost'
    <3>1. ASSUME Log!buffered, NEW r \in 1..logged PROVE row'[r].in \/ row'[r].gone \/ r \in Log!OnTheWay
      <4>1. r \in Log!Row
        BY LogAssumption DEF LogInv, LogShapes, Log!Row
      <4>2. CASE r \in W
        BY <1>3, <1>4, <4>2
      <4>3. CASE r \notin W
        BY <1>5, <3>1, <4>1, <4>3 DEF LogInv, EntriesArrive, Log!NoEntryIsLost
      <4> QED
        BY <4>2, <4>3
    <3> QED
      BY <1>2, <1>6, <3>1 DEF Log!NoEntryIsLost, Log!buffered
  <2>4. \A r \in Log!OnTheWay : row'[r] = row[r]
    BY <1>5, <1>6
  <2> QED
    BY <1>2, <1>6, <2>1, <2>2, <2>3, <2>4 DEF LogInv, EntriesArrive
<1>13. AnchorsAreOrdered'
  <2>1. \A i \in 1..l : anchors'[i].prev = i - 1 /\ anchors'[i].day <= Log!Day(clock')
    BY <1>2, <1>8, <1>9 DEF LogInv, AnchorsAreOrdered, Log!Day
  <2>2. \A i, j \in 1..l : i < j => Log!After(anchors'[j], anchors'[i])
    BY <1>8, <1>9 DEF LogInv, AnchorsAreOrdered, Log!After
  <2>3. ASSUME NEW r \in Log!Row, Pending(r)' PROVE Pending(r) /\ row'[r] = row[r]
    <3>1. r \notin W
      BY <1>3, <1>4, <1>6, <2>3 DEF Pending
    <3>2. row'[r] = row[r]
      BY <1>5, <3>1
    <3> QED
      BY <1>6, <2>3, <3>2 DEF Pending
  <2>4. ASSUME NEW i \in 1..l, NEW r \in Log!Row, Pending(r)' PROVE anchors'[i].day <= Log!Day(row'[r].at)
    BY <1>8, <1>9, <2>3, <2>4 DEF LogInv, AnchorsAreOrdered
  <2>5. Len(file') <= Len(anchors') /\ file' = [k \in 1..Len(file') |-> k]
    BY <1>2, <1>8, <1>10 DEF LogInv, AnchorsAreOrdered
  <2> QED
    BY <1>10, <2>1, <2>2, <2>4, <2>5 DEF AnchorsAreOrdered
<1>14. RowsMatchAnchors'
  <2>1. \A r \in Log!Row : ~row'[r].in => row'[r].anchor = Log!None /\ ~row'[r].hashed /\ ~row'[r].erased /\ ~row'[r].altered
    BY <1>3, <1>4, <1>5 DEF LogInv, RowsMatchAnchors
  <2>2. \A r \in Log!In' : r \in Log!In /\ r \in Log!Row \ W /\ row'[r] = row[r]
    BY <1>3, <1>4, <1>5 DEF Log!In
  <2>3. \A r \in Log!In' : row'[r].anchor # Log!None =>
          /\ row'[r].anchor \in DOMAIN anchors' /\ row'[r].hashed
          /\ anchors'[row'[r].anchor].day <= Log!Day(row'[r].at)
    BY <1>8, <1>9, <1>10, <2>2 DEF LogInv, RowsMatchAnchors
  <2>4. ASSUME ~untidy', NEW i \in 1..l, ~anchors'[i].pruned
        PROVE  anchors'[i].root = Log!InAnchor(i)'
    <3>1. ~untidy /\ \A r \in W : Log!Day(row[r].at) # Log!Day(clock) - RetentionDays
      BY <1>2, <2>4
    <3>2. ~anchors[i].pruned /\ ~ (anchors[i].day < Log!Day(clock) - RetentionDays)
      BY <1>9, <2>4
    <3>3. anchors[i].root = Log!InAnchor(i)
      BY <1>8, <3>1, <3>2 DEF LogInv, RowsMatchAnchors, Log!Unpruned
    <3>4. ASSUME NEW r \in W PROVE row[r].anchor # i
      <4>1. SUFFICES ASSUME row[r].anchor = i PROVE FALSE
        OBVIOUS
      <4>2. PICK t \in Nat : t = row[r].at
        BY <1>4, RowsAre DEF LogInv
      <4>3. PICK c \in Nat : c = clock
        BY LogAssumption DEF LogInv, LogShapes
      <4>4. t < c - RetentionDays * DayLength
        BY <1>1, <4>2, <4>3 DEF Log!PastRetention
      <4>5. Log!Day(t) <= Log!Day(c) - RetentionDays
        BY <4>4, DivShift, LogAssumption DEF Log!Day
      <4>6. i # Log!None
        BY DEF Log!None
      <4>7. anchors[i].day <= Log!Day(t)
        BY <1>4, <4>1, <4>2, <4>6 DEF LogInv, RowsMatchAnchors
      <4>8. anchors[i].day \in Int /\ Log!Day(t) \in Int /\ Log!Day(c) \in Int /\ RetentionDays \in Int
        <5>1. anchors[i].day \in Int
          BY <1>8, AnchorsAre DEF LogInv, LogShapes
        <5> QED
          BY <5>1, DivIs, LogAssumption DEF Log!Day
      <4>9. ~ (anchors[i].day < Log!Day(c) - RetentionDays)
        BY <3>2, <4>3
      <4>10. Log!Day(t) = Log!Day(c) - RetentionDays
        BY <4>5, <4>7, <4>8, <4>9
      <4> QED
        BY <3>1, <4>2, <4>3, <4>10
    <3>5. Log!InAnchor(i)' = Log!InAnchor(i)
      <4>1. \A r \in Log!In' : r \in Log!In /\ row'[r] = row[r]
        BY <2>2
      <4>2. \A r \in Log!In : row[r].anchor = i => r \in Log!In' /\ row'[r] = row[r]
        BY <1>5, <3>4 DEF Log!In
      <4> QED
        BY <4>1, <4>2 DEF Log!InAnchor
    <3> QED
      BY <1>9, <3>3, <3>5
  <2>5. ~untidy' => \A i \in Log!Unpruned' : anchors'[i].root = Log!InAnchor(i)'
    BY <1>10, <2>4 DEF Log!Unpruned
  <2> QED
    BY <2>1, <2>3, <2>5 DEF RowsMatchAnchors
<1>15. ReceiptIsRight'
  <2>1. \A r \in Log!Row : row'[r].erased => row[r].erased
    BY <1>3, <1>4, <1>5
  <2>2. \A r : r \in Log!In' <=> r \in Log!In /\ r \notin W
    BY <1>3, <1>4, <1>5 DEF Log!In
  <2>3. \A r \in Log!In : r \notin W => row'[r] = row[r]
    BY <1>5 DEF Log!In
  <2>4. ASSUME ~untidy', eraser = "write"
        PROVE  {r \in Log!Target : row[r].hashed}' = {r \in Log!Target : row[r].hashed}
    <3>1. \A r \in W : ~row[r].about
      BY <1>7, <2>4
    <3> QED
      BY <2>2, <2>3, <3>1 DEF Log!Target
  <2>5. ASSUME ~untidy'
        PROVE  {r \in Log!In : row[r].erased /\ row[r].hashed}' = {r \in Log!In : row[r].erased /\ row[r].hashed}
    <3>1. \A r \in W : ~row[r].erased
      BY <1>7, <2>5
    <3> QED
      BY <2>2, <2>3, <3>1
  <2>6. ~untidy' => ~untidy
    BY <1>2
  <2>7. ~untidy' => (Log!ReceiptHolds' <=> Log!ReceiptHolds)
    BY <1>2, <2>5 DEF Log!ReceiptHolds
  <2> QED
    BY <1>2, <2>1, <2>4, <2>6, <2>7 DEF LogInv, ReceiptIsRight
<1>16. CheckIsRight'
  <2>1. /\ check'.swept /\ check'.at = check.at /\ check'.todo = check.todo /\ check'.bad = check.bad
        /\ check'.marks = check.marks
    BY <1>2 DEF LogInv, LogShapes
  <2>2. ASSUME NEW r \in check.marks, row'[r].in PROVE row'[r] = row[r]
    BY <1>3, <1>4, <1>5, <2>2, ChecksAre DEF LogInv
  <2>3. Excused'
    BY <2>1 DEF Excused
  <2> QED
    BY <1>2, <1>6, <2>1, <2>2, <2>3 DEF LogInv, CheckIsRight
<1> QED
  BY <1>11, <1>12, <1>13, <1>14, <1>15, <1>16 DEF LogInv

\* What a fold makes of the rows: those that may be hashed, those that are due, the number m
\* of anchors before and the number n of new ones.
Folding(H, P, m, n) ==
  /\ H = {r \in Log!In : row[r].hashed \/ ~row[r].erased}
  /\ P = {r \in H : row[r].anchor = Log!None /\ row[r].at + Grace < clock}
  /\ m \in Nat /\ m = Len(anchors) /\ DOMAIN anchors = 1..m
  /\ n \in Nat /\ n = Len(Log!Rolls(P))

FoldingMarks(H, P, m) ==
  row' = [r \in Log!Row |->
    IF r \notin H THEN row[r]
    ELSE [row[r] EXCEPT !.hashed = TRUE, !.anchor = IF r \in P THEN m + Log!RollOf(r, P) ELSE @]]

LEMMA FoldingIs ==
  ASSUME LogInv, Log!Fold, NEW H, NEW P, NEW m, NEW n, Folding(H, P, m, n)
  PROVE  /\ UNCHANGED <<clock, doing, logged, buffer, flight, file, eraser, receipt, events, sweeper, check, untidy, raced>>
         /\ worker = "fold" /\ worker' = "export"
         /\ anchors' = Log!AddAnchors(Log!Rolls(P))
         /\ FoldingMarks(H, P, m)
<1>1. H = {r \in Log!In : row[r].hashed} \cup Log!Backfilled
  BY DEF Folding, Log!Backfilled
<1>2. P = {r \in H : Log!Foldable(r)}
  BY DEF Folding, Log!Foldable
<1>3. /\ UNCHANGED <<clock, doing, logged, buffer, flight, file, eraser, receipt, events, sweeper, check, untidy, raced>>
      /\ worker = "fold" /\ worker' = "export"
  BY DEF Log!Fold, Log!log, Log!erasing, Log!history
<1>4. anchors' = Log!AddAnchors(Log!Rolls(P))
  BY <1>1, <1>2 DEF Log!Fold
<1>5. row' = [r \in Log!Row |->
        IF r \notin H THEN row[r]
        ELSE [row[r] EXCEPT !.hashed = TRUE, !.anchor = IF r \in P THEN Len(anchors) + Log!RollOf(r, P) ELSE @]]
  BY <1>1, <1>2 DEF Log!Fold
<1>6. m = Len(anchors)
  BY DEF Folding
<1> QED
  BY <1>3, <1>4, <1>5, <1>6 DEF FoldingMarks

LEMMA FoldingExists ==
  ASSUME LogInv
  PROVE  \E H, P, m, n : Folding(H, P, m, n)
<1>1. PICK H : H = {r \in Log!In : row[r].hashed \/ ~row[r].erased}
  OBVIOUS
<1>2. PICK P : P = {r \in H : row[r].anchor = Log!None /\ row[r].at + Grace < clock}
  OBVIOUS
<1>3. PICK m \in Nat : m = Len(anchors) /\ DOMAIN anchors = 1..m
  BY AnchorsAre DEF LogInv, LogShapes
<1>4. Timed(P)
  <2>1. P \subseteq Log!Row
    BY <1>1, <1>2 DEF Log!In
  <2>2. \A r \in P : row[r].at \in Nat
    BY <2>1, RowsAre DEF LogInv
  <2> QED
    BY <2>1, <2>2 DEF Timed
<1>5. PICK n \in Nat : n = Len(Log!Rolls(P))
  BY <1>4, RollsAre
<1>6. Folding(H, P, m, n)
  BY <1>1, <1>2, <1>3, <1>5 DEF Folding
<1> QED
  BY <1>6

\* The new anchors follow the old ones, and no row that is left is older than they are.
LEMMA FoldingAdds ==
  ASSUME LogInv, NEW H, NEW P, NEW m, NEW n, Folding(H, P, m, n), NEW new, new = Log!AddAnchors(Log!Rolls(P))
  PROVE  /\ H \subseteq Log!In /\ P \subseteq H /\ \A r \in P : Log!RollOf(r, P) \in 1..n
         /\ new \in Seq(AnchorRecord) /\ Len(new) = m + n /\ DOMAIN new = 1..(m + n) /\ Ordered(new)
         /\ \A k \in 1..m : new[k] = anchors[k]
         /\ \A i \in 1..n : /\ new[m + i].root = {r \in P : Log!RollOf(r, P) = i} /\ new[m + i].prev = m + i - 1
                            /\ new[m + i].day <= Log!Day(clock)
                            /\ \A r \in Log!Row : row[r].at + Grace >= clock => new[m + i].day <= Log!Day(row[r].at)
         /\ \A r \in P : new[m + Log!RollOf(r, P)].day <= Log!Day(row[r].at)
<1>1. /\ H \subseteq Log!In /\ P \subseteq H /\ H \subseteq Log!Row /\ P \subseteq Log!Row
      /\ \A r \in P : row[r].anchor = Log!None /\ row[r].at + Grace < clock /\ (row[r].hashed \/ ~row[r].erased) /\ row[r].in
  BY DEF Folding, Log!In
<1> DEFINE t == [r \in Log!Row |-> row[r].at]
<1>2. t \in [Log!Row -> Nat] /\ \A r \in Log!Row : t[r] = row[r].at
  <2>1. \A r \in Log!Row : row[r].at \in Nat
    BY RowsAre DEF LogInv
  <2> QED
    BY <2>1
<1> HIDE DEF t
<1>3. Timed(P) /\ \A S \in SUBSET P : Timed(S)
  BY <1>1, <1>2 DEF Timed
<1>4. PICK rolls : rolls = Log!Rolls(P)
  OBVIOUS
<1> DEFINE of == [r \in P |-> Log!RollOf(r, P)]
<1>5. of \in [P -> 1..n] /\ \A r \in P : of[r] = Log!RollOf(r, P)
  <2>1. \A r \in P : Log!RollOf(r, P) \in 1..n
    BY <1>3, RollsAre DEF Folding
  <2> QED
    BY <2>1
<1> HIDE DEF of
<1>6. /\ \A i \in 1..n : rolls[i] = {r \in P : of[r] = i}
      /\ n \in Nat /\ n = Len(rolls)
      /\ \A i \in 1..n : \E r \in P : of[r] = i
      /\ \A r, s \in P : of[r] < of[s] => Log!Earlier(r, s)
  <2>1. n \in Nat /\ n = Len(Log!Rolls(P))
    BY DEF Folding
  <2>2. \A i \in 1..n : \E r \in P : Log!RollOf(r, P) = i
    BY <1>3, <2>1, RollsAre
  <2>3. \A r, s \in P : Log!RollOf(r, P) < Log!RollOf(s, P) => Log!Earlier(r, s)
    BY <1>3, <2>1, RollsAre
  <2>4. ASSUME NEW i \in 1..n PROVE Log!Rolls(P)[i] = {r \in P : Log!RollOf(r, P) = i}
    <3>1. \A r : r \in Log!Rolls(P)[i] <=> r \in P /\ Log!RollOf(r, P) = i
      BY <1>3, <2>1, RollsAre
    <3> QED
      BY <3>1
  <2>5. \A i \in 1..n : rolls[i] = {r \in P : of[r] = i}
    BY <1>4, <1>5, <2>4
  <2> QED
    BY <1>4, <1>5, <2>1, <2>2, <2>3, <2>5
<1>7. ASSUME NEW r \in P, NEW s \in P, r = s \/ Log!Earlier(r, s) PROVE t[r] <= t[s]
  BY <1>1, <1>2, <1>7 DEF Log!Earlier
<1>8. ASSUME NEW i \in 1..n
      PROVE  /\ rolls[i] = {r \in P : of[r] = i} /\ Log!First(rolls[i]) \in P /\ of[Log!First(rolls[i])] = i
             /\ \A r \in rolls[i] : t[Log!First(rolls[i])] <= t[r]
  <2>1. rolls[i] = {r \in P : of[r] = i} /\ rolls[i] # {} /\ rolls[i] \subseteq P
    BY <1>6
  <2>2. Log!First(rolls[i]) \in rolls[i] /\ \A s \in rolls[i] \ {Log!First(rolls[i])} : Log!Earlier(Log!First(rolls[i]), s)
    BY <1>3, <2>1, FirstIsFirst
  <2>3. PICK x : x = Log!First(rolls[i])
    OBVIOUS
  <2>4. x \in P /\ of[x] = i /\ \A r \in rolls[i] : r = x \/ Log!Earlier(x, r)
    BY <2>1, <2>2, <2>3
  <2>5. \A r \in rolls[i] : t[x] <= t[r]
    BY <1>7, <2>1, <2>4
  <2> QED
    BY <2>1, <2>3, <2>4, <2>5
<1> DEFINE fst == [i \in 1..n |-> Log!First(rolls[i])]
<1>9. fst \in [1..n -> P] /\ \A i \in 1..n : fst[i] = Log!First(rolls[i])
  <2>1. \A i \in 1..n : Log!First(rolls[i]) \in P
    BY <1>8
  <2> QED
    BY <2>1
<1> HIDE DEF fst
<1>10. \A i \in 1..n : Log!RollDay(rolls[i]) = Log!Day(t[fst[i]]) /\ of[fst[i]] = i /\ \A r \in P : of[r] = i => t[fst[i]] <= t[r]
  BY <1>1, <1>2, <1>8, <1>9 DEF Log!RollDay
<1>11. ASSUME NEW x \in Nat, NEW y \in Nat, x <= y
       PROVE  Log!Day(x) \in Int /\ Log!Day(y) \in Int /\ Log!Day(x) <= Log!Day(y)
  <2>1. DayLength \in Nat \ {0}
    BY LogAssumption
  <2>2. x \div DayLength \in Int /\ y \div DayLength \in Int
    BY <2>1, DivIs
  <2>3. x \div DayLength <= y \div DayLength
    BY <1>11, <2>1, DivRises
  <2> QED
    BY <2>2, <2>3 DEF Log!Day
<1>12. \A i \in 1..n : rolls[i] \subseteq Log!Row /\ Log!RollDay(rolls[i]) \in Int
  <2>1. ASSUME NEW i \in 1..n PROVE Log!RollDay(rolls[i]) \in Int
    <3>1. t[fst[i]] \in Nat
      BY <1>1, <1>2, <1>9
    <3> QED
      BY <1>10, <1>11, <3>1
  <2>2. ASSUME NEW i \in 1..n PROVE rolls[i] \subseteq Log!Row
    BY <1>1, <1>8
  <2> QED
    BY <2>1, <2>2
<1>13. ASSUME NEW i \in 1..n, NEW j \in 1..n, i < j PROVE Log!RollDay(rolls[i]) <= Log!RollDay(rolls[j])
  <2>1. fst[i] \in P /\ fst[j] \in P /\ of[fst[i]] < of[fst[j]]
    BY <1>9, <1>10, <1>13
  <2>2. t[fst[i]] <= t[fst[j]]
    BY <1>6, <1>7, <2>1
  <2>3. t[fst[i]] \in Nat /\ t[fst[j]] \in Nat
    BY <1>1, <1>2, <2>1
  <2> QED
    BY <1>10, <1>11, <2>2, <2>3
<1>14. ASSUME NEW k \in DOMAIN anchors, NEW i \in 1..n PROVE anchors[k].day <= Log!RollDay(rolls[i])
  <2>1. fst[i] \in P /\ fst[i] \in Log!Row
    BY <1>1, <1>9
  <2>2. Pending(fst[i])
    BY <1>1, <2>1 DEF Pending
  <2>3. anchors[k].day <= Log!Day(row[fst[i]].at)
    BY <2>1, <2>2 DEF LogInv, AnchorsAreOrdered
  <2> QED
    BY <1>2, <1>10, <2>1, <2>3
<1>15. /\ new \in Seq(AnchorRecord) /\ Len(new) = m + n /\ Ordered(new)
       /\ \A k \in 1..m : new[k] = anchors[k]
       /\ \A i \in 1..n : /\ new[m + i].root = rolls[i] /\ new[m + i].day = Log!RollDay(rolls[i])
                          /\ new[m + i].prev = m + i - 1 /\ ~new[m + i].pruned
  <2>1. anchors \in Seq(AnchorRecord) /\ Ordered(anchors)
    BY DEF LogInv, LogShapes, AnchorsAreOrdered, Ordered
  <2>2. new = Log!AddAnchors(rolls)
    BY <1>4
  <2>3. m \in Nat /\ m = Len(anchors) /\ n \in Nat /\ n = Len(rolls)
    BY <1>6 DEF Folding
  <2>4. RollsFollow(rolls, n)
    BY <1>12, <1>13, <1>14, <2>3 DEF RollsFollow
  <2>5. RollsAdded(new, rolls, m, n)
    BY <2>1, <2>2, <2>3, <2>4, AddAnchorsAre
  <2> QED
    BY <2>5 DEF RollsAdded
<1>16. DOMAIN new = 1..(m + n)
  BY <1>15, AnchorsAre
<1>17. ASSUME NEW i \in 1..n
       PROVE  /\ new[m + i].root = {r \in P : Log!RollOf(r, P) = i} /\ new[m + i].prev = m + i - 1
              /\ new[m + i].day <= Log!Day(clock)
              /\ \A r \in Log!Row : row[r].at + Grace >= clock => new[m + i].day <= Log!Day(row[r].at)
              /\ \A r \in P : of[r] = i => new[m + i].day <= Log!Day(row[r].at)
  <2>1. fst[i] \in P /\ fst[i] \in Log!Row /\ t[fst[i]] \in Nat
    BY <1>1, <1>2, <1>9
  <2>2. PICK x \in Nat : x = t[fst[i]]
    BY <2>1
  <2>3. PICK c \in Nat : c = clock
    BY LogAssumption DEF LogInv, LogShapes
  <2>4. new[m + i].day = Log!Day(x)
    BY <1>10, <1>15, <2>2
  <2>5. x + Grace < c /\ x <= c
    <3>1. row[fst[i]].at + Grace < clock /\ row[fst[i]].at <= clock
      BY <1>1, <2>1 DEF LogInv, EntriesArrive
    <3>2. row[fst[i]].at = x
      BY <1>2, <2>1, <2>2
    <3> QED
      BY <2>3, <3>1, <3>2
  <2>6. Log!Day(x) <= Log!Day(c)
    BY <1>11, <2>5
  <2>7. ASSUME NEW r \in Log!Row, row[r].at + Grace >= clock PROVE Log!Day(x) <= Log!Day(row[r].at)
    <3>1. PICK y \in Nat : y = row[r].at
      BY <1>2
    <3>2. y + Grace >= c
      BY <2>3, <2>7, <3>1
    <3>3. x <= y
      BY <2>5, <3>2, LogAssumption
    <3> QED
      BY <1>11, <3>1, <3>3
  <2>8. ASSUME NEW r \in P, of[r] = i PROVE Log!Day(x) <= Log!Day(row[r].at)
    <3>1. x <= t[r] /\ t[r] \in Nat /\ t[r] = row[r].at
      BY <1>1, <1>2, <1>10, <2>2, <2>8
    <3> QED
      BY <1>11, <3>1
  <2>9. rolls[i] = {r \in P : Log!RollOf(r, P) = i}
    BY <1>5, <1>8
  <2> QED
    BY <1>15, <2>3, <2>4, <2>6, <2>7, <2>8, <2>9
<1>18. \A r \in P : Log!RollOf(r, P) \in 1..n /\ new[m + Log!RollOf(r, P)].day <= Log!Day(row[r].at)
  BY <1>5, <1>17
<1> QED
  BY <1>1, <1>15, <1>16, <1>17, <1>18

\* The rows of a fold get a hash; those that are due get their anchor.
LEMMA FoldingRows ==
  ASSUME LogInv, NEW H \in SUBSET Log!In, NEW P \in SUBSET H, NEW m \in Nat, \A r \in P : Log!RollOf(r, P) \in Nat,
         FoldingMarks(H, P, m)
  PROVE  /\ \A r \in Log!Row : row'[r] \in RowRecord
         /\ row' = [r \in Log!Row |-> row'[r]]
         /\ \A r \in Log!Row \ H : row'[r] = row[r]
         /\ \A r \in H : /\ row'[r].in = row[r].in /\ row'[r].gone = row[r].gone /\ row'[r].at = row[r].at
                         /\ row'[r].about = row[r].about /\ row'[r].erased = row[r].erased
                         /\ row'[r].altered = row[r].altered /\ row'[r].hashed
         /\ \A r \in P : row'[r].anchor = m + Log!RollOf(r, P)
         /\ \A r \in H \ P : row'[r].anchor = row[r].anchor
<1>1. H \subseteq Log!Row
  BY DEF Log!In
<1>2. \A r \in Log!Row \ H : row'[r] = row[r]
  BY DEF FoldingMarks
<1>3. ASSUME NEW r \in H
      PROVE  /\ row'[r] \in RowRecord /\ row'[r].in = row[r].in /\ row'[r].gone = row[r].gone /\ row'[r].at = row[r].at
             /\ row'[r].about = row[r].about /\ row'[r].erased = row[r].erased /\ row'[r].altered = row[r].altered
             /\ row'[r].hashed
             /\ r \in P => row'[r].anchor = m + Log!RollOf(r, P)
             /\ r \notin P => row'[r].anchor = row[r].anchor
  <2>1. PICK q \in RowRecord : q = row[r]
    BY <1>1 DEF LogInv, LogShapes
  <2>2. PICK a : a = IF r \in P THEN m + Log!RollOf(r, P) ELSE q.anchor
    OBVIOUS
  <2>3. a \in Nat
    <3>1. q.anchor \in Nat
      BY <2>1 DEF RowRecord
    <3>2. r \in P => m + Log!RollOf(r, P) \in Nat
      OBVIOUS
    <3> QED
      BY <2>2, <3>1, <3>2
  <2>4. row'[r] = [row[r] EXCEPT !.hashed = TRUE, !.anchor = IF r \in P THEN m + Log!RollOf(r, P) ELSE @]
    BY <1>1 DEF FoldingMarks
  <2>5. row'[r] = [q EXCEPT !.hashed = TRUE, !.anchor = a]
    BY <2>1, <2>2, <2>4
  <2>6. /\ row'[r] \in RowRecord /\ row'[r].in = q.in /\ row'[r].gone = q.gone /\ row'[r].at = q.at
        /\ row'[r].about = q.about /\ row'[r].erased = q.erased /\ row'[r].altered = q.altered
        /\ row'[r].hashed /\ row'[r].anchor = a
    BY <2>1, <2>3, <2>5 DEF RowRecord
  <2> QED
    BY <2>1, <2>2, <2>6
<1>4. \A r \in Log!Row : row'[r] \in RowRecord
  BY <1>2, <1>3 DEF LogInv, LogShapes
<1>5. row' = [r \in Log!Row |-> row'[r]]
  BY DEF FoldingMarks
<1> QED
  BY <1>2, <1>3, <1>4, <1>5

LEMMA FoldLog == LogInv /\ Log!Fold => LogInv'
<1> SUFFICES ASSUME LogInv, Log!Fold PROVE LogInv'
  OBVIOUS
<1>1. PICK H, P, m, n : Folding(H, P, m, n)
  BY FoldingExists
<1>2. /\ UNCHANGED <<clock, doing, logged, buffer, flight, file, eraser, receipt, events, sweeper, check, untidy, raced>>
      /\ worker = "fold" /\ worker' = "export"
      /\ anchors' = Log!AddAnchors(Log!Rolls(P))
  BY <1>1, FoldingIs
<1>3. /\ m \in Nat /\ m = Len(anchors) /\ DOMAIN anchors = 1..m /\ n \in Nat
      /\ \A r : r \in H <=> r \in Log!In /\ (row[r].hashed \/ ~row[r].erased)
      /\ \A r : r \in P <=> r \in H /\ row[r].anchor = Log!None /\ row[r].at + Grace < clock
  BY <1>1 DEF Folding
<1>4. /\ H \subseteq Log!In /\ P \subseteq H /\ \A r \in P : Log!RollOf(r, P) \in 1..n
      /\ anchors' \in Seq(AnchorRecord) /\ Len(anchors') = m + n /\ DOMAIN anchors' = 1..(m + n) /\ Ordered(anchors')
      /\ \A k \in 1..m : anchors'[k] = anchors[k]
      /\ \A i \in 1..n : /\ anchors'[m + i].root = {r \in P : Log!RollOf(r, P) = i} /\ anchors'[m + i].prev = m + i - 1
                         /\ anchors'[m + i].day <= Log!Day(clock)
                         /\ \A r \in Log!Row : row[r].at + Grace >= clock => anchors'[m + i].day <= Log!Day(row[r].at)
      /\ \A r \in P : anchors'[m + Log!RollOf(r, P)].day <= Log!Day(row[r].at)
  BY <1>1, <1>2, FoldingAdds
<1>5. Log!In \subseteq Log!Row /\ \A r \in Log!In : row[r].in
  BY DEF Log!In
<1>6. /\ \A r \in Log!Row : row'[r] \in RowRecord
      /\ \A r \in Log!Row \ H : row'[r] = row[r]
      /\ \A r \in H : /\ row'[r].in = row[r].in /\ row'[r].gone = row[r].gone /\ row'[r].at = row[r].at
                      /\ row'[r].about = row[r].about /\ row'[r].erased = row[r].erased
                      /\ row'[r].altered = row[r].altered /\ row'[r].hashed
      /\ \A r \in P : row'[r].anchor = m + Log!RollOf(r, P)
      /\ \A r \in H \ P : row'[r].anchor = row[r].anchor
      /\ row' = [r \in Log!Row |-> row'[r]]
  <2>1. FoldingMarks(H, P, m)
    BY <1>1, FoldingIs
  <2>2. \A r \in P : Log!RollOf(r, P) \in Nat
    BY <1>4
  <2>3. m \in Nat /\ H \in SUBSET Log!In /\ P \in SUBSET H
    BY <1>3, <1>4
  <2> QED
    BY <2>1, <2>2, <2>3, FoldingRows
<1>7. \A r \in Log!Row : /\ row'[r].in = row[r].in /\ row'[r].gone = row[r].gone /\ row'[r].at = row[r].at
                         /\ row'[r].erased = row[r].erased /\ row'[r].altered = row[r].altered
                         /\ r \notin P => row'[r].anchor = row[r].anchor
  BY <1>6
<1>8. Log!OnTheWay' = Log!OnTheWay /\ \A r \in Log!OnTheWay : r \in Log!Row \ H
  <2>1. \A r \in Log!OnTheWay : r \in Log!Row /\ ~row[r].in
    BY OnTheWayIs DEF LogInv, EntriesArrive
  <2> QED
    BY <1>2, <1>3, <1>5, <2>1, WayKeep DEF WayKept
<1>9. LogShapes'
  <2>1. row' \in [Log!Row -> RowRecord]
    BY <1>6
  <2> QED
    BY <1>2, <1>4, <2>1 DEF LogInv, LogShapes
<1>10. EntriesArrive'
  <2>1. \A r \in Log!Row : row'[r].at <= clock'
    BY <1>2, <1>7 DEF LogInv, EntriesArrive
  <2>2. ASSUME NEW r \in Log!Row, r > logged' PROVE row'[r] = Log!Nowhere
    <3>1. row[r] = Log!Nowhere
      BY <1>2, <2>2 DEF LogInv, EntriesArrive
    <3>2. ~row[r].in
      BY <3>1 DEF Log!Nowhere
    <3> QED
      BY <1>3, <1>5, <1>6, <3>1, <3>2
  <2>3. Log!NoEntryIsLost'
    <3>1. 1..logged \subseteq Log!Row
      BY LogAssumption DEF LogInv, LogShapes, Log!Row
    <3> QED
      BY <1>2, <1>7, <1>8, <3>1 DEF LogInv, EntriesArrive, Log!NoEntryIsLost, Log!buffered
  <2>4. \A r \in Log!OnTheWay : row'[r] = row[r]
    BY <1>6, <1>8
  <2> QED
    BY <1>2, <1>8, <2>1, <2>2, <2>3, <2>4 DEF LogInv, EntriesArrive
<1>11. ASSUME NEW k \in 1..(m + n) PROVE k \in 1..m \/ \E i \in 1..n : k = m + i
  <2>1. CASE k > m
    <3>1. k - m \in 1..n /\ k = m + (k - m)
      BY <1>3, <2>1
    <3> QED
      BY <3>1
  <2> QED
    BY <1>3, <2>1
<1>12. ASSUME NEW r \in Log!Row, Pending(r)'
       PROVE  Pending(r) /\ row[r].at + Grace >= clock
  <2>1. PICK t \in Nat : t = row[r].at
    BY RowsAre DEF LogInv
  <2>2. PICK c \in Nat : c = clock
    BY LogAssumption DEF LogInv, LogShapes
  <2>3. CASE r \in Log!OnTheWay
    <3>1. Pending(r)
      BY <2>3 DEF Pending
    <3>2. t + MaxDelay >= c
      BY <2>1, <2>2, <2>3 DEF LogInv, EntriesArrive
    <3>3. t + Grace >= c
      BY <3>2, LogAssumption
    <3> QED
      BY <2>1, <2>2, <3>1, <3>3
  <2>4. CASE r \notin Log!OnTheWay
    <3>1. row'[r].in /\ row'[r].anchor = Log!None /\ (row'[r].hashed \/ ~row'[r].erased)
      BY <1>8, <1>12, <2>4 DEF Pending
    <3>2. r \in H
      <4>1. r \in Log!In
        BY <1>7, <3>1 DEF Log!In
      <4>2. r \notin H => row[r].hashed \/ ~row[r].erased
        BY <1>6, <3>1
      <4> QED
        BY <1>3, <4>1, <4>2
    <3>3. r \notin P
      <4>1. r \in P => row'[r].anchor = m + Log!RollOf(r, P) /\ Log!RollOf(r, P) \in 1..n
        BY <1>4, <1>6
      <4>2. \A x \in 1..n : m + x # 0
        BY <1>3
      <4> QED
        BY <3>1, <4>1, <4>2 DEF Log!None
    <3>4. row[r].anchor = Log!None /\ ~ (t + Grace < c)
      BY <1>3, <1>7, <2>1, <2>2, <3>1, <3>2, <3>3
    <3>5. t + Grace >= c
      BY <3>4, LogAssumption
    <3>6. Pending(r)
      BY <1>3, <1>5, <3>2, <3>4 DEF Pending
    <3> QED
      BY <2>1, <2>2, <3>5, <3>6
  <2> QED
    BY <2>3, <2>4
<1>13. AnchorsAreOrdered'
  <2>1. ASSUME NEW k \in 1..(m + n)
        PROVE  /\ anchors'[k].prev = k - 1 /\ anchors'[k].day <= Log!Day(clock)
               /\ \A r \in Log!Row : Pending(r)' => anchors'[k].day <= Log!Day(row'[r].at)
    <3>1. CASE k \in 1..m
      <4>1. anchors'[k] = anchors[k] /\ k \in DOMAIN anchors
        BY <1>3, <1>4, <3>1
      <4>2. anchors[k].prev = k - 1 /\ anchors[k].day <= Log!Day(clock)
        BY <4>1 DEF LogInv, AnchorsAreOrdered
      <4>3. \A r \in Log!Row : Pending(r)' => anchors[k].day <= Log!Day(row[r].at)
        BY <1>12, <4>1 DEF LogInv, AnchorsAreOrdered
      <4> QED
        BY <1>7, <4>1, <4>2, <4>3
    <3>2. CASE \E i \in 1..n : k = m + i
      <4>1. PICK i \in 1..n : k = m + i
        BY <3>2
      <4>2. anchors'[k].prev = k - 1 /\ anchors'[k].day <= Log!Day(clock)
        <5>1. anchors'[m + i].prev = m + i - 1 /\ anchors'[m + i].day <= Log!Day(clock)
          BY <1>4
        <5>2. m + i - 1 = k - 1
          BY <1>3, <4>1
        <5> QED
          BY <4>1, <5>1, <5>2
      <4>3. \A r \in Log!Row : row[r].at + Grace >= clock => anchors'[k].day <= Log!Day(row[r].at)
        <5>1. \A r \in Log!Row : row[r].at + Grace >= clock => anchors'[m + i].day <= Log!Day(row[r].at)
          BY <1>4
        <5> QED
          BY <4>1, <5>1
      <4> QED
        BY <1>7, <1>12, <4>2, <4>3
    <3> QED
      BY <1>11, <3>1, <3>2
  <2>2. Len(file') <= Len(anchors') /\ file' = [k \in 1..Len(file') |-> k]
    <3>1. Len(file) <= m /\ Len(file) \in Nat /\ file = [k \in 1..Len(file) |-> k]
      BY <1>3 DEF LogInv, AnchorsAreOrdered, LogShapes
    <3>2. Len(file) <= m + n
      BY <1>3, <3>1
    <3> QED
      BY <1>2, <1>4, <3>1, <3>2
  <2>3. \A i, j \in DOMAIN anchors' : i < j => Log!After(anchors'[j], anchors'[i])
    BY <1>4 DEF Ordered
  <2>4. \A k \in DOMAIN anchors' : anchors'[k].prev = k - 1 /\ anchors'[k].day <= Log!Day(clock')
    BY <1>2, <1>4, <2>1
  <2>5. \A k \in DOMAIN anchors', r \in Log!Row : Pending(r)' => anchors'[k].day <= Log!Day(row'[r].at)
    BY <1>4, <2>1
  <2> QED
    BY <2>2, <2>3, <2>4, <2>5 DEF AnchorsAreOrdered
<1>14. RowsMatchAnchors'
  <2>1. \A r \in Log!Row : ~row'[r].in => row'[r].anchor = Log!None /\ ~row'[r].hashed /\ ~row'[r].erased /\ ~row'[r].altered
    <3>1. \A r \in Log!Row : ~row'[r].in => ~row[r].in /\ row'[r] = row[r]
      BY <1>4, <1>5, <1>6
    <3> QED
      BY <3>1 DEF LogInv, RowsMatchAnchors
  <2>2. Log!In' = Log!In
    BY <1>7 DEF Log!In
  <2>3. ASSUME NEW r \in Log!In, row'[r].anchor # Log!None
        PROVE  /\ row'[r].anchor \in DOMAIN anchors' /\ row'[r].hashed
               /\ anchors'[row'[r].anchor].day <= Log!Day(row'[r].at)
    <3>1. CASE r \in P
      <4>1. row'[r].anchor = m + Log!RollOf(r, P) /\ row'[r].hashed /\ row'[r].at = row[r].at
        BY <1>4, <1>6, <3>1
      <4>2. Log!RollOf(r, P) \in 1..n /\ anchors'[m + Log!RollOf(r, P)].day <= Log!Day(row[r].at)
        BY <1>4, <3>1
      <4>3. \A x \in 1..n : m + x \in 1..(m + n)
        BY <1>3
      <4> QED
        BY <1>4, <4>1, <4>2, <4>3
    <3>2. CASE r \notin P
      <4>1. row'[r].anchor = row[r].anchor /\ row'[r].at = row[r].at
        BY <1>5, <1>7, <3>2
      <4>2. row[r].anchor \in 1..m /\ row[r].hashed /\ anchors[row[r].anchor].day <= Log!Day(row[r].at)
        BY <1>3, <2>3, <4>1 DEF LogInv, RowsMatchAnchors
      <4>3. r \in H
        BY <1>3, <4>2
      <4>4. \A x \in 1..m : x \in 1..(m + n)
        BY <1>3
      <4> QED
        BY <1>4, <1>6, <4>1, <4>2, <4>3, <4>4
    <3> QED
      BY <3>1, <3>2
  <2>4. ASSUME ~untidy, NEW k \in 1..(m + n), ~anchors'[k].pruned PROVE anchors'[k].root = Log!InAnchor(k)'
    <3>1. Log!InAnchor(k)' = {r \in Log!In : row'[r].anchor = k}
      BY <2>2 DEF Log!InAnchor
    <3>2. CASE k \in 1..m
      <4>1. \A r \in Log!In : row'[r].anchor = k <=> row[r].anchor = k
        <5>1. ASSUME NEW r \in P PROVE row'[r].anchor # k /\ row[r].anchor # k
          <6>1. row'[r].anchor = m + Log!RollOf(r, P) /\ Log!RollOf(r, P) \in 1..n /\ row[r].anchor = 0
            BY <1>3, <1>4, <1>6 DEF Log!None
          <6>2. \A x \in 1..n : m + x # k
            BY <1>3, <3>2
          <6> QED
            BY <3>2, <6>1, <6>2
        <5> QED
          BY <1>5, <1>7, <5>1
      <4>2. anchors'[k] = anchors[k]
        BY <1>4, <3>2
      <4>3. anchors[k].root = Log!InAnchor(k)
        BY <1>3, <2>4, <3>2, <4>2 DEF LogInv, RowsMatchAnchors, Log!Unpruned
      <4> QED
        BY <3>1, <4>1, <4>2, <4>3 DEF Log!InAnchor
    <3>3. CASE \E i \in 1..n : k = m + i
      <4>1. PICK i \in 1..n : k = m + i
        BY <3>3
      <4>2. anchors'[k].root = {r \in P : Log!RollOf(r, P) = i}
        BY <1>4, <4>1
      <4>3. ASSUME NEW r \in Log!In, r \notin P PROVE row'[r].anchor # k
        <5>1. row'[r].anchor = row[r].anchor
          BY <1>5, <1>7, <4>3
        <5>2. row[r].anchor = 0 \/ row[r].anchor \in 1..m
          BY <1>3 DEF LogInv, RowsMatchAnchors, Log!None
        <5>3. k > m /\ k # 0
          BY <1>3, <4>1
        <5> QED
          BY <1>3, <5>1, <5>2, <5>3
      <4>4. ASSUME NEW r \in P PROVE row'[r].anchor = k <=> Log!RollOf(r, P) = i
        <5>1. row'[r].anchor = m + Log!RollOf(r, P) /\ Log!RollOf(r, P) \in Int
          BY <1>4, <1>6
        <5> QED
          BY <1>3, <4>1, <5>1
      <4>5. P \subseteq Log!In
        BY <1>4
      <4> QED
        BY <3>1, <4>2, <4>3, <4>4, <4>5
    <3> QED
      BY <1>11, <3>2, <3>3
  <2>5. ~untidy' => \A k \in Log!Unpruned' : anchors'[k].root = Log!InAnchor(k)'
    BY <1>2, <1>4, <2>4 DEF Log!Unpruned
  <2> QED
    BY <2>1, <2>2, <2>3, <2>5 DEF RowsMatchAnchors
<1>15. ReceiptIsRight'
  <2>1. eraser \notin {"read", "write"}
    BY <1>2 DEF LogInv, ReceiptIsRight
  <2>2. \A r \in Log!Row : row'[r].erased => eraser' = "gone"
    BY <1>2, <1>7 DEF LogInv, ReceiptIsRight
  <2>3. \A r \in Log!In : row[r].erased => (row'[r].hashed <=> row[r].hashed)
    BY <1>3, <1>5, <1>6
  <2>4. Log!In' = Log!In
    BY <1>7 DEF Log!In
  <2>5. {r \in Log!In : row[r].erased /\ row[r].hashed}' = {r \in Log!In : row[r].erased /\ row[r].hashed}
    BY <1>5, <1>7, <2>3, <2>4
  <2>6. Log!ReceiptHolds' <=> Log!ReceiptHolds
    BY <1>2, <2>5 DEF Log!ReceiptHolds
  <2> QED
    BY <1>2, <2>1, <2>2, <2>6 DEF LogInv, ReceiptIsRight
<1>16. CheckIsRight'
  <2>1. ASSUME NEW r \in check.marks
        PROVE  /\ r <= logged /\ r \notin Log!OnTheWay
               /\ row'[r].in /\ ~row'[r].erased =>
                    row'[r].altered /\ row'[r].anchor # Log!None /\ (check.bad \/ row'[r].anchor \in check.todo)
    <3>1. r \in Log!Row
      BY ChecksAre DEF LogInv
    <3>2. r <= logged /\ r \notin Log!OnTheWay
      BY DEF LogInv, CheckIsRight
    <3>3. CASE row[r].in /\ ~row[r].erased
      <4>1. row[r].altered /\ row[r].anchor # Log!None /\ (check.bad \/ row[r].anchor \in check.todo)
        BY <3>3 DEF LogInv, CheckIsRight
      <4>2. r \notin P
        BY <1>3, <4>1
      <4> QED
        BY <1>7, <3>1, <3>2, <4>1, <4>2
    <3> QED
      BY <1>7, <3>1, <3>2, <3>3
  <2>2. Log!Unpruned \subseteq Log!Unpruned'
    <3>1. ASSUME NEW k \in Log!Unpruned PROVE k \in Log!Unpruned'
      <4>1. k \in 1..m /\ ~anchors[k].pruned
        BY <1>3 DEF Log!Unpruned
      <4>2. anchors'[k] = anchors[k] /\ k \in 1..(m + n)
        BY <1>3, <1>4, <4>1
      <4> QED
        BY <1>4, <4>1, <4>2 DEF Log!Unpruned
    <3> QED
      BY <3>1
  <2>3. Excused => Excused'
    BY <1>2, <1>7 DEF Excused
  <2> QED
    BY <1>2, <1>8, <2>1, <2>2, <2>3 DEF LogInv, CheckIsRight
<1> QED
  BY <1>9, <1>10, <1>13, <1>14, <1>15, <1>16 DEF LogInv

-----------------------------------------------------------------------------
(* What follows *)

LEMMA InitLog == Log!Init => LogInv
<1> SUFFICES ASSUME Log!Init PROVE LogInv
  OBVIOUS
<1>1. /\ clock = 0 /\ doing \in LogScenes /\ buffer = << >> /\ flight = {}
      /\ anchors = << >> /\ file = << >> /\ worker = "idle" /\ eraser = "idle" /\ receipt = {}
      /\ check = Log!Asleep /\ untidy = FALSE /\ raced = FALSE
  BY DEF Log!Init
<1>2. PICK legacy \in {0, 1}, about \in BOOLEAN :
        /\ logged = legacy
        /\ row = [r \in Log!Row |-> IF r <= legacy THEN [Log!Nowhere EXCEPT !.in = TRUE, !.about = about] ELSE Log!Nowhere]
  <2>1. \E legacy \in IF "legacy" \in doing THEN {1} ELSE {0}, about \in BOOLEAN :
          /\ logged = legacy
          /\ row = [r \in Log!Row |-> IF r <= legacy THEN [Log!Nowhere EXCEPT !.in = TRUE, !.about = about] ELSE Log!Nowhere]
    BY DEF Log!Init
  <2>2. (IF "legacy" \in doing THEN {1} ELSE {0}) \subseteq {0, 1}
    OBVIOUS
  <2> QED
    BY <2>1, <2>2, Zenon
<1> DEFINE Old == [Log!Nowhere EXCEPT !.in = TRUE, !.about = about]
<1>3. /\ Old \in RowRecord /\ Old.at = 0 /\ Old.anchor = Log!None /\ Old.in
      /\ ~Old.gone /\ ~Old.hashed /\ ~Old.erased /\ ~Old.altered
  BY DEF Log!Nowhere, Log!None, RowRecord
<1>4. /\ Log!Nowhere \in RowRecord /\ Log!Nowhere.at = 0 /\ Log!Nowhere.anchor = Log!None /\ ~Log!Nowhere.in
      /\ ~Log!Nowhere.gone /\ ~Log!Nowhere.hashed /\ ~Log!Nowhere.erased /\ ~Log!Nowhere.altered
  BY DEF Log!Nowhere, Log!None, RowRecord
<1> HIDE DEF Old
<1>5. /\ row = [r \in Log!Row |-> row[r]]
      /\ \A r \in Log!Row : row[r] = Old \/ row[r] = Log!Nowhere
      /\ \A r \in Log!Row : r <= logged => row[r] = Old
      /\ \A r \in Log!Row : ~ (r <= logged) => row[r] = Log!Nowhere
  BY <1>2 DEF Old
<1>6. /\ \A r \in Log!Row : /\ row[r] \in RowRecord /\ row[r].at = 0 /\ row[r].anchor = Log!None
                            /\ ~row[r].hashed /\ ~row[r].erased /\ ~row[r].altered
      /\ \A r \in Log!Row : r <= logged => row[r].in
  BY <1>3, <1>4, <1>5
<1>7. Log!OnTheWay = {}
  BY <1>1 DEF Log!OnTheWay, Log!ToSet
<1>8. /\ Log!Asleep.at = "idle" /\ Log!Asleep.todo = {} /\ ~Log!Asleep.bad /\ Log!Asleep.marks = {}
      /\ Log!Asleep \in [at : {"idle", "anchors", "done"}, todo : SUBSET Nat, bad : BOOLEAN, stale : {"no", "fresh", "overdue"},
                         marks : SUBSET Log!Row, swept : BOOLEAN]
  BY DEF Log!Asleep
<1>9. LogShapes
  <2>1. row \in [Log!Row -> RowRecord]
    BY <1>5, <1>6
  <2>2. clock \in 0..MaxTime /\ logged \in 0..MaxRow
    BY <1>1, <1>2, LogAssumption
  <2>3. buffer \in Seq(Log!Row) /\ anchors \in Seq(AnchorRecord) /\ file \in Seq(Nat)
    BY <1>1
  <2> QED
    BY <1>1, <1>8, <2>1, <2>2, <2>3 DEF LogShapes
<1>10. EntriesArrive
  <2>1. Log!NoEntryIsLost
    <3>1. 1..logged \subseteq Log!Row
      BY LogAssumption, <1>9 DEF LogShapes, Log!Row
    <3>2. \A r \in 1..logged : r <= logged
      OBVIOUS
    <3> QED
      BY <1>6, <3>1, <3>2 DEF Log!NoEntryIsLost
  <2>2. \A r \in Log!Row : r > logged => ~ (r <= logged)
    <3>1. Log!Row \subseteq Nat /\ logged \in Nat
      BY LogAssumption, <1>2 DEF Log!Row
    <3>2. \A r \in Nat : r > logged => ~ (r <= logged)
      BY <3>1
    <3> QED
      BY <3>1, <3>2
  <2>3. \A r \in Log!Row : row[r].at <= clock
    BY <1>1, <1>6
  <2> QED
    BY <1>5, <1>7, <2>1, <2>2, <2>3 DEF EntriesArrive
<1>11. DOMAIN anchors = {} /\ Len(file) = 0 /\ Len(anchors) = 0
  BY <1>1
<1>12. AnchorsAreOrdered
  <2>1. file = [k \in 1..Len(file) |-> k]
    BY <1>1, <1>11
  <2> QED
    BY <1>11, <2>1 DEF AnchorsAreOrdered
<1>13. RowsMatchAnchors
  BY <1>6, <1>11 DEF RowsMatchAnchors, Log!In, Log!Unpruned
<1>14. ReceiptIsRight
  BY <1>1, <1>6 DEF ReceiptIsRight
<1>15. CheckIsRight
  BY <1>1, <1>8 DEF CheckIsRight
<1> QED
  BY <1>9, <1>10, <1>12, <1>13, <1>14, <1>15 DEF LogInv

LEMMA LogStays == LogInv /\ UNCHANGED log => LogInv'
<1> SUFFICES ASSUME LogInv, UNCHANGED log PROVE LogInv'
  OBVIOUS
<1>1. UNCHANGED <<clock, doing, logged, buffer, flight, row, anchors, file, worker, eraser, receipt, events, sweeper, check, untidy, raced>>
  BY DEF log
<1>2. Log!OnTheWay' = Log!OnTheWay
  BY <1>1, WayKeep DEF WayKept
<1>3. LogShapes'
  BY <1>1 DEF LogInv, LogShapes
<1>4. eraser \in {"read", "write"} => worker' # "fold"
  BY <1>1 DEF LogInv, ReceiptIsRight
<1> QED
  BY <1>1, <1>2, <1>3, <1>4, EntriesKeep, OrderKeep, MatchKeep, ReceiptKeep, CheckKeep DEF LogInv

LEMMA LogStep == LogInv /\ Log!Next => LogInv'
<1> SUFFICES ASSUME LogInv, Log!Next PROVE LogInv'
  OBVIOUS
<1>1. CASE \E about \in BOOLEAN : Log!Log(about)
  BY <1>1, LogLog
<1>2. CASE Log!FlushBuffer \/ \E f \in flight : Log!Insert(f) \/ Log!InsertFails(f)
  BY <1>2, FlushBufferLog, InsertLog, InsertFailsLog
<1>3. CASE Log!Worker \/ Log!WorkerFails
  BY <1>3, TryLockLog, FoldLog, ExportLineLog, WorkerRestsLog DEF Log!Worker
<1>4. CASE Log!EraseLock \/ Log!EraseReceipt \/ Log!EraseWrite \/ Log!EraseFails
  BY <1>4, EraseLockLog, EraseReceiptLog, EraseWriteLog, EraseFailsLog
<1>5. CASE Log!Sweep \/ \E r \in Log!Row : Log!Alter(r)
  BY <1>5, SweepLog, AlterLog
<1>6. CASE Log!Verify \/ (\E i \in DOMAIN anchors : Log!CheckAnchor(i)) \/ Log!Watchdog \/ Log!Report
  BY <1>6, VerifyLog, CheckAnchorLog, WatchdogLog, ReportLog
<1>7. CASE Log!Tick \/ Log!Crash
  BY <1>7, TickLog, CrashLog
<1> QED
  BY <1>1, <1>2, <1>3, <1>4, <1>5, <1>6, <1>7 DEF Log!Next

\* No fold passes a row over that is past the grace window, and none comes in that late.
NoneIsMissed == missed = {} /\ check.stale # "overdue"

\* Steps that put no row into the table, and take none up.
LEMMA OthersMissNone ==
  ASSUME LogInv, NoneIsMissed, Log!Next, ~Log!Fold, ~Log!Watchdog, \A f \in flight : ~Log!Insert(f)
  PROVE  NoneIsMissed'
<1>1. \/ \E about \in BOOLEAN : Log!Log(about)
      \/ Log!FlushBuffer \/ (\E f \in flight : Log!InsertFails(f))
      \/ Log!TryLock \/ Log!ExportLine \/ Log!ExportDone \/ Log!WorkerFails
      \/ Log!EraseLock \/ Log!EraseReceipt \/ Log!EraseWrite \/ Log!EraseFails
      \/ Log!Sweep \/ (\E r \in Log!Row : Log!Alter(r))
      \/ Log!Verify \/ (\E i \in DOMAIN anchors : Log!CheckAnchor(i)) \/ Log!Report
      \/ Log!Tick \/ Log!Crash
  BY DEF Log!Next, Log!Worker
<1>2. PICK c : /\ c = check
               /\ c \in [at : {"idle", "anchors", "done"}, todo : SUBSET Nat, bad : BOOLEAN, stale : {"no", "fresh", "overdue"},
                         marks : SUBSET Log!Row, swept : BOOLEAN]
  BY ChecksAre DEF LogInv
<1>3. CASE Log!Sweep
  <2>1. missed' = missed /\ check' = [c EXCEPT !.swept = TRUE]
    BY <1>2, <1>3 DEF Log!Sweep
  <2> QED
    BY <1>2, <2>1 DEF NoneIsMissed
<1>4. ASSUME NEW i \in DOMAIN anchors, Log!CheckAnchor(i) PROVE NoneIsMissed'
  <2>1. PICK b, d : missed' = missed /\ check' = [c EXCEPT !.todo = d, !.bad = b]
    BY <1>2, <1>4 DEF Log!CheckAnchor, Log!history
  <2> QED
    BY <1>2, <2>1 DEF NoneIsMissed
<1>5. CASE Log!Verify
  <2>1. PICK d, M : missed' = missed /\ check' = [Log!Asleep EXCEPT !.at = "anchors", !.todo = d, !.marks = M]
    BY <1>5 DEF Log!Verify, Log!history
  <2> QED
    BY <2>1 DEF NoneIsMissed, Log!Asleep
<1>6. CASE Log!Report
  <2>1. missed' = missed /\ check' = Log!Asleep
    BY <1>6 DEF Log!Report, Log!history
  <2> QED
    BY <2>1 DEF NoneIsMissed, Log!Asleep
<1>7. CASE Log!EraseLock \/ Log!EraseReceipt \/ Log!EraseWrite \/ Log!EraseFails
  <2>1. UNCHANGED <<missed, check>>
    BY <1>7 DEF Log!EraseLock, Log!EraseReceipt, Log!EraseWrite, Log!EraseFails, Log!history
  <2> QED
    BY <2>1 DEF NoneIsMissed
<1>8. CASE Log!TryLock \/ Log!ExportLine \/ Log!ExportDone \/ Log!WorkerFails \/ Log!Tick \/ Log!Crash
  <2>1. UNCHANGED <<missed, check>>
    BY <1>8 DEF Log!TryLock, Log!ExportLine, Log!ExportDone, Log!WorkerFails, Log!Tick, Log!Crash, Log!history
  <2> QED
    BY <2>1 DEF NoneIsMissed
<1>9. CASE \/ \E about \in BOOLEAN : Log!Log(about)
           \/ Log!FlushBuffer \/ (\E f \in flight : Log!InsertFails(f))
           \/ \E r \in Log!Row : Log!Alter(r)
  <2>1. UNCHANGED <<missed, check>>
    BY <1>9 DEF Log!Log, Log!FlushBuffer, Log!InsertFails, Log!Alter, Log!history
  <2> QED
    BY <2>1 DEF NoneIsMissed
<1> QED
  BY <1>1, <1>3, <1>4, <1>5, <1>6, <1>7, <1>8, <1>9

LEMMA MissedStep == LogInv /\ NoneIsMissed /\ Log!Next => NoneIsMissed'
<1> SUFFICES ASSUME LogInv, NoneIsMissed, Log!Next PROVE NoneIsMissed'
  OBVIOUS
<1>1. ASSUME NEW f \in flight, Log!Insert(f) PROVE NoneIsMissed'
  <2>1. missed' = missed \cup {r \in Log!ToSet(f) : row[r].at + Grace < clock} /\ check' = check
    BY <1>1 DEF Log!Insert
  <2>2. ASSUME NEW r \in Log!ToSet(f) PROVE ~(row[r].at + Grace < clock)
    <3>1. r \in Log!OnTheWay /\ r \in Log!Row
      BY OnTheWayIs DEF LogInv
    <3>2. row[r].at + MaxDelay >= clock
      BY <3>1 DEF LogInv, EntriesArrive
    <3>3. row[r].at \in Nat /\ clock \in Int /\ MaxDelay \in Int /\ Grace \in Int /\ MaxDelay <= Grace
      BY <3>1, RowsAre, LogAssumption DEF LogInv, LogShapes
    <3> QED
      BY <3>2, <3>3
  <2> QED
    BY <2>1, <2>2 DEF NoneIsMissed
<1>2. CASE Log!Fold
  <2>1. PICK H, P, m, n : Folding(H, P, m, n)
    BY FoldingExists
  <2>2. /\ m \in Nat /\ n \in Nat
        /\ \A r : r \in H <=> r \in Log!In /\ (row[r].hashed \/ ~row[r].erased)
        /\ \A r : r \in P <=> r \in H /\ row[r].anchor = Log!None /\ row[r].at + Grace < clock
    BY <2>1 DEF Folding
  <2>3. \A r \in P : Log!RollOf(r, P) \in 1..n
    BY <2>1, FoldingAdds
  <2>4. FoldingMarks(H, P, m) /\ check' = check
    BY <1>2, <2>1, FoldingIs
  <2>5. /\ \A r \in Log!Row \ H : row'[r] = row[r]
        /\ \A r \in P : row'[r].anchor = m + Log!RollOf(r, P)
        /\ \A r \in H \ P : row'[r].anchor = row[r].anchor
    <3>1. m \in Nat /\ H \in SUBSET Log!In /\ P \in SUBSET H
      BY <2>2
    <3>2. \A r \in P : Log!RollOf(r, P) \in Nat
      BY <2>2, <2>3
    <3> QED
      BY <2>4, <3>1, <3>2, FoldingRows
  <2>6. ASSUME NEW r \in Log!In, row'[r].hashed, row'[r].anchor = Log!None, row[r].at + Grace < clock PROVE FALSE
    <3>1. r \in Log!Row
      BY DEF Log!In
    <3>2. CASE r \in P
      <4>1. Log!RollOf(r, P) \in 1..n /\ row'[r].anchor = m + Log!RollOf(r, P)
        BY <2>3, <2>5, <3>2
      <4> QED
        BY <2>2, <2>6, <4>1 DEF Log!None
    <3>3. CASE r \in H \ P
      BY <2>2, <2>5, <2>6, <3>3
    <3>4. CASE r \notin H
      BY <2>2, <2>5, <2>6, <3>1, <3>4
    <3> QED
      BY <3>2, <3>3, <3>4
  <2>7. missed' = missed \cup {r \in Log!In : row'[r].hashed /\ row'[r].anchor = Log!None /\ row[r].at + Grace < clock}
    BY <1>2 DEF Log!Fold
  <2> QED
    BY <2>4, <2>6, <2>7 DEF NoneIsMissed
<1>3. CASE Log!Watchdog
  <2>1. PICK c : /\ c = check
                 /\ c \in [at : {"idle", "anchors", "done"}, todo : SUBSET Nat, bad : BOOLEAN,
                           stale : {"no", "fresh", "overdue"}, marks : SUBSET Log!Row, swept : BOOLEAN]
    BY ChecksAre DEF LogInv
  <2>2. Log!Staleness \in {"no", "fresh"}
    BY DEF NoneIsMissed, Log!Staleness
  <2>3. missed' = missed /\ check' = [c EXCEPT !.at = "done", !.stale = Log!Staleness]
    BY <1>3, <2>1 DEF Log!Watchdog, Log!history
  <2> QED
    BY <2>1, <2>2, <2>3 DEF NoneIsMissed
<1> QED
  BY <1>1, <1>2, <1>3, OthersMissNone

\* The log is what it should be as long as behaviours are about it.
KeptInv == "log" \in scene => LogInv /\ NoneIsMissed

LEMMA KeptStep == KeptInv /\ [NodeNext]_<<vars, options, sessions, log>> => KeptInv'
<1> SUFFICES ASSUME KeptInv, [NodeNext]_<<vars, options, sessions, log>> PROVE KeptInv'
  OBVIOUS
<1>1. UNCHANGED vars => UNCHANGED scene
  BY DEF vars
<1>2. CASE UNCHANGED <<vars, log>>
  BY <1>1, <1>2, LogStays DEF KeptInv, NoneIsMissed, log
<1>3. CASE "log" \in scene /\ Log!Next /\ UNCHANGED vars
  BY <1>1, <1>3, LogStep, MissedStep DEF KeptInv
<1>4. CASE "log" \notin scene /\ Next
  BY <1>4, SceneStays DEF KeptInv
<1> QED
  BY <1>2, <1>3, <1>4 DEF NodeNext

LEMMA KeptInit == NodeInit => KeptInv
<1>1. Log!Init => NoneIsMissed
  BY DEF Log!Init, Log!Asleep, NoneIsMissed
<1> QED
  BY <1>1, InitLog DEF NodeInit, KeptInv

\* Between the buffer, the table, the anchors and the exported file nothing gets lost: an entry
\* that was kept back is in the table or will be tried again unless the process died, each
\* anchor refers to the one before it, and the file has them all in order (LogIsWhole).
THEOREM LogHolds == NodeSpec => []LogIsWhole
<1>1. KeptInv => LogIsWhole
  <2> SUFFICES ASSUME LogInv PROVE Log!LogIsWhole
    BY DEF KeptInv, LogIsWhole
  <2>0. anchors \in Seq(AnchorRecord)
    BY DEF LogInv, LogShapes
  <2>1. PICK l \in Nat : /\ l = Len(anchors) /\ DOMAIN anchors = 1..l
                         /\ \A i \in 1..l : anchors[i].day \in Int /\ anchors[i].seq \in Int
    <3>1. Len(anchors) \in Nat /\ DOMAIN anchors = 1..Len(anchors)
      BY <2>0, AnchorsAre
    <3>2. \A i \in 1..Len(anchors) : anchors[i].day \in Int /\ anchors[i].seq \in Int
      BY <2>0, AnchorsAre
    <3> QED
      BY <3>1, <3>2
  <2>2. Log!TypeOK
    <3>1. \A r \in Log!In : row[r].anchor \in 0..Len(anchors) /\ (row[r].anchor # Log!None => row[r].hashed)
      <4>1. ASSUME NEW r \in Log!In PROVE row[r].anchor = 0 \/ (row[r].anchor \in 1..l /\ row[r].hashed)
        BY <2>1 DEF LogInv, RowsMatchAnchors, Log!None
      <4> QED
        BY <2>1, <4>1 DEF Log!None
    <3>2. ASSUME NEW i \in 1..l, NEW j \in 1..l, i # j
          PROVE  <<anchors[i].day, anchors[i].seq>> # <<anchors[j].day, anchors[j].seq>>
      <4>1. Log!After(anchors[j], anchors[i]) \/ Log!After(anchors[i], anchors[j])
        <5>1. i < j \/ j < i
          BY <3>2
        <5>2. \A x, y \in 1..l : x < y => Log!After(anchors[y], anchors[x])
          BY <2>1 DEF LogInv, AnchorsAreOrdered
        <5> QED
          BY <5>1, <5>2
      <4>2. anchors[i].day # anchors[j].day \/ anchors[i].seq # anchors[j].seq
        BY <2>1, <4>1 DEF Log!After
      <4> QED
        BY <4>2
    <3> QED
      BY <2>1, <3>1, <3>2 DEF LogInv, LogShapes, Log!TypeOK
  <2>3. Log!NoEntryIsLost /\ Log!ChainIsLinear /\ Log!ExportHasNoGap
    BY DEF LogInv, EntriesArrive, AnchorsAreOrdered, Log!ChainIsLinear, Log!ExportHasNoGap
  <2> QED
    BY <2>2, <2>3 DEF Log!LogIsWhole
<1> QED
  BY <1>1, KeptInit, KeptStep, PTL DEF NodeSpec

\* The verifier finds every row that was edited after it had been folded.  It finds fault with
\* an anchor of an honest log for no other reasons than those VerifierIsRight names, and when it
\* raises the alarm for rows without an anchor, none of them is one that a fold before should
\* have taken.
THEOREM VerifierHolds == NodeSpec => []VerifierIsRight
<1>1. KeptInv => VerifierIsRight
  <2> SUFFICES ASSUME LogInv, NoneIsMissed PROVE Log!VerifierIsRight
    BY DEF KeptInv, VerifierIsRight
  <2>1. Log!HonestLogVerifies
    BY DEF LogInv, CheckIsRight, NoneIsMissed, Excused, Log!HonestLogVerifies
  <2>2. Log!EditsShow
    BY DEF LogInv, CheckIsRight, Log!EditsShow, Log!In
  <2> QED
    BY <2>1, <2>2 DEF Log!VerifierIsRight
<1> QED
  BY <1>1, KeptInit, KeptStep, PTL DEF NodeSpec

\* Steps that change no row that is in the table.
LEMMA ProofsStay ==
  ASSUME LogInv, Log!Next
  PROVE  Log!ProofsKept
<1>1. Log!In \subseteq Log!Row /\ \A r \in Log!In : row[r].in
  BY DEF Log!In
<1>2. CASE UNCHANGED row
  BY <1>2 DEF Log!ProofsKept
<1>3. ASSUME NEW about \in BOOLEAN, Log!Log(about) PROVE Log!ProofsKept
  <2>1. PICK x : x = logged + 1
    OBVIOUS
  <2>2. PICK N : row' = [row EXCEPT ![x] = N]
    BY <1>3, <2>1 DEF Log!Log
  <2>3. ASSUME NEW r \in Log!In PROVE r # x
    <3>1. ~ (r > logged)
      <4>1. Log!Nowhere.in = FALSE
        BY DEF Log!Nowhere
      <4> QED
        BY <1>1, <4>1 DEF LogInv, EntriesArrive
    <3>2. r \in Nat /\ logged \in Nat
      BY <1>1, LogAssumption DEF LogInv, LogShapes, Log!Row
    <3> QED
      BY <2>1, <3>1, <3>2
  <2>4. \A r \in Log!In : row'[r] = row[r]
    BY <1>1, <2>2, <2>3 DEF LogInv, LogShapes
  <2> QED
    BY <2>4 DEF Log!ProofsKept
<1>4. ASSUME NEW f \in flight, Log!Insert(f) PROVE Log!ProofsKept
  <2>1. ASSUME NEW r \in Log!In PROVE row'[r] = row[r] \/ row'[r] = [row[r] EXCEPT !.in = TRUE, !.hashed = TRUE]
    BY <1>1, <1>4 DEF Log!Insert
  <2>2. ASSUME NEW r \in Log!In, row'[r] = [row[r] EXCEPT !.in = TRUE, !.hashed = TRUE]
        PROVE  row'[r].hashed /\ row'[r].anchor = row[r].anchor
    <3>1. PICK q \in RowRecord : q = row[r]
      BY <1>1 DEF LogInv, LogShapes
    <3> QED
      BY <2>2, <3>1 DEF RowRecord
  <2> QED
    BY <2>1, <2>2 DEF Log!ProofsKept
<1>5. ASSUME Log!Fold PROVE Log!ProofsKept
  <2>1. PICK H, P, m, n : Folding(H, P, m, n)
    BY FoldingExists
  <2>2. /\ m \in Nat
        /\ \A r : r \in H <=> r \in Log!In /\ (row[r].hashed \/ ~row[r].erased)
        /\ \A r : r \in P <=> r \in H /\ row[r].anchor = Log!None /\ row[r].at + Grace < clock
    BY <2>1 DEF Folding
  <2>3. H \in SUBSET Log!In /\ P \in SUBSET H /\ \A r \in P : Log!RollOf(r, P) \in Nat
    <3>1. H \subseteq Log!In /\ P \subseteq H /\ \A r \in P : Log!RollOf(r, P) \in 1..n
      BY <2>1, FoldingAdds
    <3> QED
      BY <3>1
  <2>4. FoldingMarks(H, P, m)
    BY <1>5, <2>1, FoldingIs
  <2>5. /\ \A r \in Log!Row \ H : row'[r] = row[r]
        /\ \A r \in H : row'[r].hashed
        /\ \A r \in H \ P : row'[r].anchor = row[r].anchor
    BY <2>2, <2>3, <2>4, FoldingRows
  <2>6. ASSUME NEW r \in Log!In
        PROVE  /\ row[r].hashed => row'[r].hashed
               /\ row[r].anchor # Log!None => row'[r].anchor = row[r].anchor
    BY <1>1, <2>2, <2>5
  <2> QED
    BY <2>6 DEF Log!ProofsKept
<1>6. ASSUME Log!EraseWrite PROVE Log!ProofsKept
  <2>1. ASSUME NEW r \in Log!In PROVE row'[r] = row[r] \/ row'[r] = [row[r] EXCEPT !.about = FALSE, !.erased = TRUE]
    BY <1>1, <1>6 DEF Log!EraseWrite, Log!Scrubbed
  <2>2. ASSUME NEW r \in Log!In, row'[r] = [row[r] EXCEPT !.about = FALSE, !.erased = TRUE]
        PROVE  row'[r].hashed = row[r].hashed /\ row'[r].anchor = row[r].anchor
    <3>1. PICK q \in RowRecord : q = row[r]
      BY <1>1 DEF LogInv, LogShapes
    <3> QED
      BY <2>2, <3>1 DEF RowRecord
  <2> QED
    BY <2>1, <2>2 DEF Log!ProofsKept
<1>7. ASSUME NEW x \in Log!Row, Log!Alter(x) PROVE Log!ProofsKept
  <2>1. row' = [row EXCEPT ![x].altered = TRUE]
    BY <1>7 DEF Log!Alter
  <2>2. PICK q \in RowRecord : q = row[x]
    BY DEF LogInv, LogShapes
  <2>3. row'[x] = [q EXCEPT !.altered = TRUE] /\ \A r \in Log!Row \ {x} : row'[r] = row[r]
    BY <2>1, <2>2 DEF LogInv, LogShapes
  <2>4. row'[x].hashed = q.hashed /\ row'[x].anchor = q.anchor
    BY <2>2, <2>3 DEF RowRecord
  <2> QED
    BY <1>1, <2>2, <2>3, <2>4 DEF Log!ProofsKept
<1>8. ASSUME Log!Sweep \/ Log!Crash PROVE Log!ProofsKept
  <2>1. ~ [Log!Nowhere EXCEPT !.gone = TRUE].in
    BY DEF Log!Nowhere
  <2>2. \A r \in Log!In : row'[r] = row[r] \/ row'[r] = [Log!Nowhere EXCEPT !.gone = TRUE]
    BY <1>1, <1>8 DEF Log!Sweep, Log!Crash
  <2> QED
    BY <2>1, <2>2 DEF Log!ProofsKept
<1> QED
  BY <1>2, <1>3, <1>4, <1>5, <1>6, <1>7, <1>8
     DEF Log!Next, Log!Worker, Log!FlushBuffer, Log!InsertFails, Log!TryLock, Log!ExportLine, Log!ExportDone,
         Log!WorkerFails, Log!EraseLock, Log!EraseReceipt, Log!EraseFails, Log!Verify, Log!CheckAnchor, Log!Watchdog,
         Log!Report, Log!Tick

LEMMA PersonForgotten ==
  ASSUME LogInv, Log!Next
  PROVE  Log!Forgotten
<1> SUFFICES ASSUME eraser = "write", eraser' = "gone", NEW r \in Log!In PROVE ~row'[r].about
  BY DEF Log!Forgotten
<1>1. Log!EraseWrite
  BY DEF Log!Next, Log!Worker, Log!Log, Log!FlushBuffer, Log!Insert, Log!InsertFails, Log!TryLock, Log!Fold, Log!ExportLine,
         Log!ExportDone, Log!WorkerFails, Log!EraseLock, Log!EraseReceipt, Log!EraseFails, Log!Sweep, Log!Alter, Log!Verify,
         Log!CheckAnchor, Log!Watchdog, Log!Report, Log!Tick, Log!Crash, Log!erasing
<1>2. r \in Log!Row /\ row[r].in
  BY DEF Log!In
<1>3. ~row[r].erased
  BY <1>2 DEF LogInv, ReceiptIsRight
<1>4. CASE row[r].about
  <2>1. row'[r] = [row[r] EXCEPT !.about = FALSE, !.erased = TRUE]
    BY <1>1, <1>2, <1>3, <1>4 DEF Log!EraseWrite, Log!Scrubbed, Log!ScrubSet, Log!Target
  <2>2. PICK q \in RowRecord : q = row[r]
    BY <1>2 DEF LogInv, LogShapes
  <2> QED
    BY <2>1, <2>2 DEF RowRecord
<1>5. CASE ~row[r].about
  BY <1>1, <1>2, <1>5 DEF Log!EraseWrite, Log!ScrubSet, Log!Target
<1> QED
  BY <1>4, <1>5

\* An erasure leaves no row that mentions the person, and neither it nor any other step takes
\* the hash or the anchor of a row that stays (ErasureLeavesTheProofs).
THEOREM ErasureHolds == NodeSpec => ErasureLeavesTheProofs
<1>1. KeptInv /\ [NodeNext]_<<vars, options, sessions, log>>
        => ["log" \in scene => Log!ProofsKept /\ Log!Forgotten]_<<vars, log>>
  <2> SUFFICES ASSUME KeptInv, NodeNext, "log" \in scene, ~ UNCHANGED <<vars, log>>
      PROVE  Log!ProofsKept /\ Log!Forgotten
    OBVIOUS
  <2>1. LogInv
    BY DEF KeptInv
  <2>2. Log!Next
    BY DEF NodeNext
  <2> QED
    BY <2>1, <2>2, ProofsStay, PersonForgotten
<1> QED
  BY <1>1, KeptInit, KeptStep, PTL DEF NodeSpec, ErasureLeavesTheProofs
=============================================================================
