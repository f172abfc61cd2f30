------------------------ MODULE RefreshTokensProofs ------------------------
(***************************************************************************)
(* Proofs about RefreshTokens for any number of users, tokens and          *)
(* concurrent requests, any grace window and any clock.                    *)
(***************************************************************************)
EXTENDS RefreshTokens, TLAPS

\* What revoking a set of rows changes: the revoked flag of rows, nothing else.
LEMMA RevokeRowsEffect ==
  ASSUME TypeOK, NEW S \in SUBSET Token, RevokeRows(S)
  PROVE  /\ row' \in [Token -> Row]
         /\ \A t \in Token : /\ row'[t].user = row[t].user
                             /\ row'[t].created = row[t].created
                             /\ row'[t].usedAt = row[t].usedAt
                             /\ row'[t].parent = row[t].parent
                             /\ row'[t].chain = row[t].chain
                             /\ row[t].revoked => row'[t].revoked
  <1>1. ASSUME NEW t \in Token
        PROVE  /\ row'[t] \in Row
               /\ row'[t].user = row[t].user
               /\ row'[t].created = row[t].created
               /\ row'[t].usedAt = row[t].usedAt
               /\ row'[t].parent = row[t].parent
               /\ row'[t].chain = row[t].chain
               /\ row[t].revoked => row'[t].revoked
    <2>1. row[t] \in Row
      BY DEF TypeOK
    <2>2. row'[t] = row[t] \/ row'[t] = [row[t] EXCEPT !.revoked = TRUE]
      BY DEF RevokeRows
    <2> QED
      BY <2>1, <2>2 DEF Row
  <1>2. row' = [t \in Token |-> row'[t]]
    BY DEF RevokeRows
  <1> QED
    BY <1>1, <1>2

\* The initial state satisfies the invariant.
LEMMA InitInv == Init => SingleUseInv
  BY ConstAssumption DEF Init, SingleUseInv, TypeOK, RequestsOK, OneInserter, ParentsSpent,
     AtMostOneSuccessor, Row, NoRow, Steps

\* A statement that revokes rows preserves the invariant, whether it stands
\* alone or is a step of a request.
LEMMA RevokingKeepsInv ==
  ASSUME SingleUseInv, NEW S \in SUBSET Token, RevokeRows(S),
         UNCHANGED <<now, minted, rows, account>>,
         tenant' \in [Tenant -> {"active", "suspended"}],
         UNCHANGED reqVars \/ \E r \in Req : Reply(r) \/ (pc[r] = "burnFamily" /\ Goto(r, "reuse"))
  PROVE  SingleUseInv'
<1> USE DEF SingleUseInv
<1>1. /\ row' \in [Token -> Row]
      /\ \A t \in Token : /\ row'[t].user = row[t].user
                          /\ row'[t].created = row[t].created
                          /\ row'[t].usedAt = row[t].usedAt
                          /\ row'[t].parent = row[t].parent
  BY RevokeRowsEffect
<1>2. rows \subseteq Token /\ minted \subseteq Token
  BY DEF TypeOK
<1>3. TypeOK'
  <2>1. /\ pc' \in [Req -> Steps] /\ tok' \in [Req -> Token \cup {NoToken}]
        /\ who' \in [Req -> User \cup {NoUser}] /\ since' \in [Req -> Nat]
    BY DEF TypeOK, Steps, Goto, Reply, reqVars
  <2>2. \A t \in rows' : row'[t].user \in User /\ row'[t].created <= now' /\ row'[t].usedAt <= now'
    BY <1>1, <1>2 DEF TypeOK
  <2> QED
    BY <1>1, <2>1, <2>2 DEF TypeOK
<1>4. RequestsOK'
  <2>1. ASSUME NEW q \in Req
        PROVE  /\ pc'[q] = "idle" \/ (/\ pc[q] # "idle" /\ tok'[q] = tok[q] /\ who'[q] = who[q]
                                      /\ since'[q] = since[q]
                                      /\ pc'[q] = pc[q] \/ (pc[q] = "burnFamily" /\ pc'[q] = "reuse"))
    BY DEF TypeOK, Goto, Reply, reqVars
  <2> QED
    BY <1>1, <1>2, <2>1 DEF RequestsOK, TypeOK, Steps
<1>5. OneInserter'
  <2>1. \A q \in Req : pc'[q] = "insert" => pc[q] = "insert" /\ tok'[q] = tok[q]
    BY DEF TypeOK, Goto, Reply, reqVars
  <2> QED
    BY <1>1, <1>2, <2>1 DEF OneInserter
<1>6. ParentsSpent' /\ AtMostOneSuccessor'
  BY <1>1, <1>2 DEF ParentsSpent, AtMostOneSuccessor
<1> QED
  BY <1>3, <1>4, <1>5, <1>6

\* Every step preserves the invariant.
LEMMA NextInv == SingleUseInv /\ [Next]_vars => SingleUseInv'
<1> SUFFICES ASSUME SingleUseInv, [Next]_vars PROVE SingleUseInv'
  OBVIOUS
<1> USE ConstAssumption DEF SingleUseInv
<1>1. ASSUME NEW r \in Req, NEW t \in Token, Present(r, t) PROVE SingleUseInv'
  <2>1. TypeOK'
    BY <1>1 DEF Present, Begin, TypeOK, RequestsOK, Steps, tableVars, adminVars, reqVars
  <2>2. RequestsOK'
    BY <1>1 DEF Present, Begin, TypeOK, RequestsOK, Steps, tableVars, adminVars, reqVars
  <2>3. OneInserter' /\ ParentsSpent' /\ AtMostOneSuccessor'
    BY <1>1 DEF Present, Begin, TypeOK, OneInserter, ParentsSpent, AtMostOneSuccessor, tableVars, adminVars, reqVars
  <2> QED
    BY <2>1, <2>2, <2>3
<1>2. ASSUME NEW r \in Req, UserDoor(r) PROVE SingleUseInv'
  <2>1. TypeOK'
    BY <1>2 DEF UserDoor, Goto, Reply, TypeOK, RequestsOK, Steps, tableVars, adminVars, reqVars
  <2>2. RequestsOK'
    BY <1>2 DEF UserDoor, Goto, Reply, TypeOK, RequestsOK, Steps, tableVars, adminVars, reqVars
  <2>3. OneInserter' /\ ParentsSpent' /\ AtMostOneSuccessor'
    BY <1>2 DEF UserDoor, Goto, Reply, TypeOK, OneInserter, ParentsSpent, AtMostOneSuccessor, tableVars, adminVars, reqVars
  <2> QED
    BY <2>1, <2>2, <2>3
<1>3. ASSUME NEW r \in Req, TenantDoor(r, "tenantDoor", "burn") PROVE SingleUseInv'
  <2>1. TypeOK'
    BY <1>3 DEF TenantDoor, Goto, Reply, TypeOK, RequestsOK, Steps, tableVars, adminVars, reqVars
  <2>2. RequestsOK'
    BY <1>3 DEF TenantDoor, Goto, Reply, TypeOK, RequestsOK, Steps, tableVars, adminVars, reqVars
  <2>3. OneInserter' /\ ParentsSpent' /\ AtMostOneSuccessor'
    BY <1>3 DEF TenantDoor, Goto, Reply, TypeOK, OneInserter, ParentsSpent, AtMostOneSuccessor, tableVars, adminVars, reqVars
  <2> QED
    BY <2>1, <2>2, <2>3
<1>4. ASSUME NEW r \in Req, Burn(r) PROVE SingleUseInv'
  <2>1. CASE UNCHANGED row
    <3>1. TypeOK'
      BY <1>4, <2>1 DEF Burn, Burnable, Goto, Reply, TypeOK, Steps, adminVars
    <3>2. RequestsOK'
      BY <1>4, <2>1 DEF Burn, Burnable, Goto, Reply, TypeOK, RequestsOK, Steps, adminVars
    <3>3. OneInserter' /\ ParentsSpent' /\ AtMostOneSuccessor'
      <4>1. pc'[r] # "insert" /\ \A q \in Req \ {r} : pc'[q] = pc[q] /\ tok'[q] = tok[q]
        BY <1>4, <2>1 DEF Burn, Burnable, Goto, Reply, TypeOK, Row
      <4> QED
        BY <1>4, <2>1, <4>1 DEF Burn, TypeOK, OneInserter, ParentsSpent, AtMostOneSuccessor
    <3> QED
      BY <3>1, <3>2, <3>3
  <2>2. CASE /\ tok[r] \in rows /\ row[tok[r]].usedAt = 0
             /\ row' = [row EXCEPT ![tok[r]].usedAt = now] /\ Goto(r, "insert")
    <3>1. /\ tok[r] \in Token /\ pc[r] = "burn" /\ UNCHANGED <<now, minted, rows, adminVars>>
      BY <1>4, <2>2 DEF Burn, TypeOK
    <3>2. /\ row' \in [Token -> Row]
          /\ row'[tok[r]].usedAt = now
          /\ \A t \in Token : /\ row'[t].user = row[t].user
                              /\ row'[t].created = row[t].created
                              /\ row'[t].parent = row[t].parent
                              /\ t # tok[r] => row'[t].usedAt = row[t].usedAt
      BY <2>2, <3>1 DEF TypeOK, Row
    <3>3. TypeOK'
      <4>1. \A t \in rows' : row'[t].user \in User /\ row'[t].created <= now' /\ row'[t].usedAt <= now'
        BY <3>1, <3>2 DEF TypeOK
      <4> QED
        BY <2>2, <3>1, <3>2, <4>1 DEF TypeOK, Goto, Steps, adminVars
    <3>4. RequestsOK'
      BY <2>2, <3>1, <3>2 DEF TypeOK, RequestsOK, Goto, Steps
    <3>5. OneInserter'
      BY <2>2, <3>1, <3>2 DEF TypeOK, OneInserter, ParentsSpent, Goto
    <3>6. ParentsSpent' /\ AtMostOneSuccessor'
      BY <2>2, <3>1, <3>2 DEF TypeOK, ParentsSpent, AtMostOneSuccessor
    <3> QED
      BY <3>3, <3>4, <3>5, <3>6
  <2> QED
    BY <1>4, <2>1, <2>2 DEF Burn, Burnable
<1>5. ASSUME NEW r \in Req, Classify(r) PROVE SingleUseInv'
  <2>1. TypeOK'
    BY <1>5 DEF Classify, Goto, Reply, TypeOK, RequestsOK, Steps, tableVars, adminVars, reqVars
  <2>2. RequestsOK'
    BY <1>5 DEF Classify, Goto, Reply, TypeOK, RequestsOK, Steps, tableVars, adminVars, reqVars
  <2>3. OneInserter' /\ ParentsSpent' /\ AtMostOneSuccessor'
    BY <1>5 DEF Classify, Goto, Reply, TypeOK, OneInserter, ParentsSpent, AtMostOneSuccessor, tableVars, adminVars, reqVars
  <2> QED
    BY <2>1, <2>2, <2>3
<1>6. ASSUME NEW r \in Req, BurnFamily(r) PROVE SingleUseInv'
  <2>1. RowsOf(who[r]) \in SUBSET Token
    BY DEF RowsOf, TypeOK
  <2> QED
    BY <1>6, <2>1, RevokingKeepsInv DEF BurnFamily, adminVars, TypeOK
<1>7. ASSUME NEW r \in Req, ReplyReuse(r) PROVE SingleUseInv'
  <2>1. TypeOK'
    BY <1>7 DEF ReplyReuse, Reply, TypeOK, RequestsOK, Steps, tableVars, adminVars, reqVars
  <2>2. RequestsOK'
    BY <1>7 DEF ReplyReuse, Reply, TypeOK, RequestsOK, Steps, tableVars, adminVars, reqVars
  <2>3. OneInserter' /\ ParentsSpent' /\ AtMostOneSuccessor'
    BY <1>7 DEF ReplyReuse, Reply, TypeOK, OneInserter, ParentsSpent, AtMostOneSuccessor, tableVars, adminVars, reqVars
  <2> QED
    BY <2>1, <2>2, <2>3
<1>8. ASSUME NEW r \in Req, Insert(r) PROVE SingleUseInv'
  <2>1. TypeOK'
    <3> DEFINE Table == /\ row' \in [Token -> Row] /\ rows' \subseteq minted' /\ minted' \subseteq Token
                        /\ \A t \in rows' : /\ row'[t].user \in User
                                             /\ row'[t].created <= now /\ row'[t].usedAt <= now
    <3>1. ASSUME UNCHANGED tableVars PROVE Table
      BY <3>1 DEF TypeOK, tableVars
    <3>2. who[r] \in User /\ tok[r] \in Token \cup {NoToken}
      BY <1>8 DEF Insert, TypeOK, RequestsOK, Steps
    <3>3. ASSUME NEW t \in Token, AddRow(t, who[r], tok[r], row[tok[r]].chain)
          PROVE  Table
      <4>1. row[tok[r]].chain \in Token \cup {NoToken}
        BY <1>8, <3>2 DEF Insert, TypeOK, RequestsOK, Row
      <4> QED
        BY <3>2, <3>3, <4>1 DEF AddRow, TypeOK, Row
    <3>4. Table
      BY <1>8, <3>1, <3>3 DEF Insert
    <3> QED
      BY <1>8, <3>4 DEF Insert, AddRow, Reply, TypeOK, Steps, adminVars
  <2>2. RequestsOK'
    BY <1>8 DEF Insert, AddRow, Reply, TypeOK, RequestsOK, Steps, tableVars, adminVars
  <2>3. OneInserter'
    BY <1>8 DEF Insert, AddRow, Reply, TypeOK, RequestsOK, OneInserter, ParentsSpent, tableVars, adminVars
  <2>4. ParentsSpent'
    BY <1>8 DEF Insert, AddRow, Reply, TypeOK, RequestsOK, OneInserter, ParentsSpent, tableVars, adminVars
  <2>5. AtMostOneSuccessor'
    BY <1>8 DEF Insert, AddRow, Reply, TypeOK, OneInserter, AtMostOneSuccessor, tableVars, adminVars
  <2> QED
    BY <2>1, <2>2, <2>3, <2>4, <2>5
<1>9. ASSUME NEW r \in Req, NEW u \in User, Login(r, u) PROVE SingleUseInv'
  <2>1. TypeOK'
    BY <1>9 DEF Login, Begin, TypeOK, RequestsOK, Steps, tableVars, adminVars, reqVars
  <2>2. RequestsOK'
    BY <1>9 DEF Login, Begin, TypeOK, RequestsOK, Steps, tableVars, adminVars, reqVars
  <2>3. OneInserter' /\ ParentsSpent' /\ AtMostOneSuccessor'
    BY <1>9 DEF Login, Begin, TypeOK, OneInserter, ParentsSpent, AtMostOneSuccessor, tableVars, adminVars, reqVars
  <2> QED
    BY <2>1, <2>2, <2>3
<1>10. ASSUME NEW r \in Req, TenantDoor(r, "loginDoor", "loginInsert") PROVE SingleUseInv'
  <2>1. TypeOK'
    BY <1>10 DEF TenantDoor, Goto, Reply, TypeOK, RequestsOK, Steps, tableVars, adminVars, reqVars
  <2>2. RequestsOK'
    BY <1>10 DEF TenantDoor, Goto, Reply, TypeOK, RequestsOK, Steps, tableVars, adminVars, reqVars
  <2>3. OneInserter' /\ ParentsSpent' /\ AtMostOneSuccessor'
    BY <1>10 DEF TenantDoor, Goto, Reply, TypeOK, OneInserter, ParentsSpent, AtMostOneSuccessor, tableVars, adminVars, reqVars
  <2> QED
    BY <2>1, <2>2, <2>3
<1>11. ASSUME NEW r \in Req, LoginInsert(r) PROVE SingleUseInv'
  <2>1. TypeOK'
    <3> DEFINE Table == /\ row' \in [Token -> Row] /\ rows' \subseteq minted' /\ minted' \subseteq Token
                        /\ \A t \in rows' : /\ row'[t].user \in User
                                             /\ row'[t].created <= now /\ row'[t].usedAt <= now
    <3>1. ASSUME UNCHANGED tableVars PROVE Table
      BY <3>1 DEF TypeOK, tableVars
    <3>2. who[r] \in User /\ tok[r] \in Token \cup {NoToken}
      BY <1>11 DEF LoginInsert, TypeOK, RequestsOK, Steps
    <3>3. ASSUME NEW t \in Token, AddRow(t, who[r], NoToken, t)
          PROVE  Table
      <4>1. t \in Token \cup {NoToken}
        BY <1>11, <3>2 DEF LoginInsert, TypeOK, RequestsOK, Row
      <4> QED
        BY <3>2, <3>3, <4>1 DEF AddRow, TypeOK, Row
    <3>4. Table
      BY <1>11, <3>1, <3>3 DEF LoginInsert
    <3> QED
      BY <1>11, <3>4 DEF LoginInsert, AddRow, Reply, TypeOK, Steps, adminVars
  <2>2. RequestsOK'
    BY <1>11 DEF LoginInsert, AddRow, Reply, TypeOK, RequestsOK, Steps, tableVars, adminVars
  <2>3. OneInserter'
    BY <1>11 DEF LoginInsert, AddRow, Reply, TypeOK, RequestsOK, OneInserter, ParentsSpent, tableVars, adminVars
  <2>4. ParentsSpent'
    BY <1>11 DEF LoginInsert, AddRow, Reply, TypeOK, RequestsOK, OneInserter, ParentsSpent, tableVars, adminVars
  <2>5. AtMostOneSuccessor'
    BY <1>11 DEF LoginInsert, AddRow, Reply, TypeOK, OneInserter, AtMostOneSuccessor, tableVars, adminVars
  <2> QED
    BY <2>1, <2>2, <2>3, <2>4, <2>5
<1>12. ASSUME NEW r \in Req, NEW u \in User, SuspendUser(r, u) PROVE SingleUseInv'
  <2>1. TypeOK'
    BY <1>12 DEF SuspendUser, Begin, TypeOK, RequestsOK, Steps, tableVars, adminVars, reqVars
  <2>2. RequestsOK'
    BY <1>12 DEF SuspendUser, Begin, TypeOK, RequestsOK, Steps, tableVars, adminVars, reqVars
  <2>3. OneInserter' /\ ParentsSpent' /\ AtMostOneSuccessor'
    BY <1>12 DEF SuspendUser, Begin, TypeOK, OneInserter, ParentsSpent, AtMostOneSuccessor, tableVars, adminVars, reqVars
  <2> QED
    BY <2>1, <2>2, <2>3
<1>13. ASSUME NEW r \in Req, SuspendRevoke(r) PROVE SingleUseInv'
  <2>1. RowsOf(who[r]) \in SUBSET Token
    BY DEF RowsOf, TypeOK
  <2> QED
    BY <1>13, <2>1, RevokingKeepsInv DEF SuspendRevoke, adminVars, TypeOK
<1>14. ASSUME NEW r \in Req, Crash(r) PROVE SingleUseInv'
  <2>1. TypeOK'
    BY <1>14 DEF Crash, Reply, TypeOK, RequestsOK, Steps, tableVars, adminVars, reqVars
  <2>2. RequestsOK'
    BY <1>14 DEF Crash, Reply, TypeOK, RequestsOK, Steps, tableVars, adminVars, reqVars
  <2>3. OneInserter' /\ ParentsSpent' /\ AtMostOneSuccessor'
    BY <1>14 DEF Crash, Reply, TypeOK, OneInserter, ParentsSpent, AtMostOneSuccessor, tableVars, adminVars, reqVars
  <2> QED
    BY <2>1, <2>2, <2>3
<1>15. ASSUME NEW t \in Token, RevokeSession(t) PROVE SingleUseInv'
  <2>1. {t} \in SUBSET Token
    BY DEF RowsOf, TypeOK
  <2> QED
    BY <1>15, <2>1, RevokingKeepsInv DEF RevokeSession, adminVars, TypeOK
<1>16. ASSUME NEW u \in User, RevokeAll(u) PROVE SingleUseInv'
  <2>1. RowsOf(u) \in SUBSET Token
    BY DEF RowsOf, TypeOK
  <2> QED
    BY <1>16, <2>1, RevokingKeepsInv DEF RevokeAll, adminVars, TypeOK
<1>17. ASSUME NEW u \in User, NEW t \in Token, RevokeOthers(u, t) PROVE SingleUseInv'
  <2>1. RowsOf(u) \ {t} \in SUBSET Token
    BY DEF RowsOf, TypeOK
  <2> QED
    BY <1>17, <2>1, RevokingKeepsInv DEF RevokeOthers, adminVars, TypeOK
<1>18. ASSUME NEW u \in User, NEW status \in Status, SetStatus(u, status) PROVE SingleUseInv'
  <2>1. TypeOK'
    BY <1>18, ConstAssumption DEF SetStatus, TypeOK, RequestsOK, Steps, tableVars, adminVars, reqVars
  <2>2. RequestsOK'
    BY <1>18, ConstAssumption DEF SetStatus, TypeOK, RequestsOK, Steps, tableVars, adminVars, reqVars
  <2>3. OneInserter' /\ ParentsSpent' /\ AtMostOneSuccessor'
    BY <1>18, ConstAssumption DEF SetStatus, TypeOK, OneInserter, ParentsSpent, AtMostOneSuccessor, tableVars, adminVars, reqVars
  <2> QED
    BY <2>1, <2>2, <2>3
<1>19. ASSUME NEW u \in User, DeleteUser(u) PROVE SingleUseInv'
  <2>1. /\ row' \in [Token -> Row] /\ rows' \subseteq rows
        /\ \A t \in rows' : row'[t] = row[t]
    BY <1>19 DEF DeleteUser, RowsOf, TypeOK, Row, NoRow
  <2>2. TypeOK'
    BY <1>19, <2>1 DEF DeleteUser, TypeOK, reqVars
  <2>3. RequestsOK' /\ OneInserter' /\ ParentsSpent' /\ AtMostOneSuccessor'
    BY <1>19, <2>1 DEF DeleteUser, RequestsOK, OneInserter, ParentsSpent, AtMostOneSuccessor, reqVars
  <2> QED
    BY <2>2, <2>3
<1>20. ASSUME NEW n \in Tenant, SuspendTenant(n) PROVE SingleUseInv'
  <2>1. {t \in rows : TenantOf[row[t].user] = n} \in SUBSET Token
    BY DEF RowsOf, TypeOK
  <2> QED
    BY <1>20, <2>1, RevokingKeepsInv DEF SuspendTenant, adminVars, TypeOK
<1>21. ASSUME NEW n \in Tenant, ReactivateTenant(n) PROVE SingleUseInv'
  <2>1. TypeOK'
    BY <1>21 DEF ReactivateTenant, TypeOK, RequestsOK, Steps, tableVars, adminVars, reqVars
  <2>2. RequestsOK'
    BY <1>21 DEF ReactivateTenant, TypeOK, RequestsOK, Steps, tableVars, adminVars, reqVars
  <2>3. OneInserter' /\ ParentsSpent' /\ AtMostOneSuccessor'
    BY <1>21 DEF ReactivateTenant, TypeOK, OneInserter, ParentsSpent, AtMostOneSuccessor, tableVars, adminVars, reqVars
  <2> QED
    BY <2>1, <2>2, <2>3
<1>22. ASSUME Sweep PROVE SingleUseInv'
  <2>1. TypeOK'
    BY <1>22 DEF Sweep, TypeOK, RequestsOK, Steps, tableVars, adminVars, reqVars
  <2>2. RequestsOK'
    BY <1>22 DEF Sweep, TypeOK, RequestsOK, Steps, tableVars, adminVars, reqVars
  <2>3. OneInserter' /\ ParentsSpent' /\ AtMostOneSuccessor'
    BY <1>22 DEF Sweep, TypeOK, OneInserter, ParentsSpent, AtMostOneSuccessor, tableVars, adminVars, reqVars
  <2> QED
    BY <2>1, <2>2, <2>3
<1>23. ASSUME Tick PROVE SingleUseInv'
  <2>1. TypeOK'
    BY <1>23 DEF Tick, Row, TypeOK, RequestsOK, Steps, tableVars, adminVars, reqVars
  <2>2. RequestsOK'
    BY <1>23 DEF Tick, Row, TypeOK, RequestsOK, Steps, tableVars, adminVars, reqVars
  <2>3. OneInserter' /\ ParentsSpent' /\ AtMostOneSuccessor'
    BY <1>23 DEF Tick, Row, TypeOK, OneInserter, ParentsSpent, AtMostOneSuccessor, tableVars, adminVars, reqVars
  <2> QED
    BY <2>1, <2>2, <2>3
<1>24. CASE UNCHANGED vars
  BY <1>24 DEF vars, tableVars, adminVars, reqVars, TypeOK, RequestsOK, OneInserter, ParentsSpent,
     AtMostOneSuccessor
<1> QED
  BY <1>1, <1>2, <1>3, <1>4, <1>5, <1>6, <1>7, <1>8, <1>9, <1>10, <1>11, <1>12, <1>13, <1>14, <1>15, <1>16, <1>17, <1>18, <1>19, <1>20, <1>21, <1>22, <1>23, <1>24 DEF Next, Refresh, IssueTokenPair

\* Type correctness: every row has an owner and no stamp lies in the future.
THEOREM TypeCorrect == Spec => []TypeOK
<1>1. Spec => []SingleUseInv
  BY InitInv, NextInv, PTL DEF Spec
<1> QED
  BY <1>1, PTL DEF SingleUseInv

\* A refresh token is exchanged at most once, whatever requests present it.
THEOREM SingleUse == Spec => []AtMostOneSuccessor
<1>1. Spec => []SingleUseInv
  BY InitInv, NextInv, PTL DEF Spec
<1> QED
  BY <1>1, PTL DEF SingleUseInv

-----------------------------------------------------------------------------
(* Dead lines of rotations *)

\* A revoking statement keeps a dead line dead.
LEMMA RevokingKeepsDead ==
  ASSUME SingleUseInv, NEW c \in Token, ChainDead(c), NEW S \in SUBSET Token, RevokeRows(S),
         UNCHANGED <<now, minted, rows>>,
         UNCHANGED reqVars \/ \E r \in Req : Reply(r) \/ (pc[r] = "burnFamily" /\ Goto(r, "reuse"))
  PROVE  ChainDead(c)'
<1>1. TypeOK /\ rows \subseteq Token
  BY DEF SingleUseInv, TypeOK
<1>2. \A t \in Token : /\ row'[t].created = row[t].created
                       /\ row'[t].usedAt = row[t].usedAt
                       /\ row'[t].chain = row[t].chain
                       /\ row[t].revoked => row'[t].revoked
  BY <1>1, RevokeRowsEffect
<1>3. \A q \in Req : pc'[q] = "insert" => pc[q] = "insert" /\ tok'[q] = tok[q]
  BY <1>1 DEF TypeOK, Goto, Reply, reqVars
<1>4. \A q \in Req : pc[q] = "insert" => tok[q] \in Token
  BY <1>1 DEF SingleUseInv, RequestsOK, TypeOK
<1>5. \A t \in rows' : row'[t].chain = c =>
        row'[t].usedAt # 0 \/ row'[t].revoked \/ row'[t].created + Ttl <= now'
  <2> TAKE t \in rows'
  <2> HAVE row'[t].chain = c
  <2>1. t \in rows /\ t \in Token /\ row[t].chain = c
    BY <1>1, <1>2
  <2>2. row[t].usedAt # 0 \/ row[t].revoked \/ row[t].created + Ttl <= now
    BY <2>1 DEF ChainDead
  <2> QED
    BY <1>2, <2>1, <2>2
<1>6. \A q \in Req : pc'[q] = "insert" => row'[tok'[q]].chain # c
  <2> TAKE q \in Req
  <2> HAVE pc'[q] = "insert"
  <2>1. pc[q] = "insert" /\ tok'[q] = tok[q] /\ tok[q] \in Token
    BY <1>3, <1>4
  <2>2. row[tok[q]].chain # c
    BY <2>1 DEF ChainDead
  <2> QED
    BY <1>2, <2>1, <2>2
<1> QED
  BY <1>5, <1>6 DEF ChainDead

\* No step brings a dead line of rotations back.
LEMMA StepKeepsDead ==
  ASSUME SingleUseInv, [Next]_vars, NEW c \in Token, ChainDead(c)
  PROVE  ChainDead(c)'
<1> USE ConstAssumption DEF SingleUseInv
<1>1. ASSUME NEW r \in Req, NEW t \in Token, Present(r, t) PROVE ChainDead(c)'
  BY <1>1 DEF Present, Begin, ChainDead, TypeOK, Row, tableVars, adminVars, reqVars
<1>2. ASSUME NEW r \in Req, UserDoor(r) PROVE ChainDead(c)'
  BY <1>2 DEF UserDoor, Goto, Reply, ChainDead, TypeOK, Row, tableVars, adminVars, reqVars
<1>3. ASSUME NEW r \in Req, TenantDoor(r, "tenantDoor", "burn") PROVE ChainDead(c)'
  BY <1>3 DEF TenantDoor, Goto, Reply, ChainDead, TypeOK, Row, tableVars, adminVars, reqVars
<1>4. ASSUME NEW r \in Req, Burn(r) PROVE ChainDead(c)'
  <2>1. CASE UNCHANGED row
    <3>1. pc'[r] # "insert" /\ \A q \in Req \ {r} : pc'[q] = pc[q] /\ tok'[q] = tok[q]
      BY <1>4, <2>1 DEF Burn, Burnable, Goto, Reply, TypeOK, Row
    <3>2. UNCHANGED <<now, minted, rows>>
      BY <1>4 DEF Burn
    <3> QED
      BY <2>1, <3>1, <3>2 DEF ChainDead
  <2>2. CASE /\ tok[r] \in rows /\ row[tok[r]].usedAt = 0 /\ ~row[tok[r]].revoked
             /\ row[tok[r]].created + Ttl > now
             /\ row' = [row EXCEPT ![tok[r]].usedAt = now] /\ Goto(r, "insert")
    <3>1. row[tok[r]].chain # c
      BY <2>2 DEF ChainDead, TypeOK, Row
    <3>2. \A t \in Token : /\ row'[t].created = row[t].created /\ row'[t].chain = row[t].chain
                           /\ row'[t].revoked = row[t].revoked
                           /\ row[t].usedAt # 0 => row'[t].usedAt # 0
      BY <2>2 DEF TypeOK, Row
    <3>3. \A q \in Req : pc'[q] = "insert" => /\ q = r \/ pc[q] = "insert"
                                              /\ tok'[q] = tok[q] /\ tok[q] \in Token
      BY <2>2 DEF Goto, TypeOK, RequestsOK
    <3> QED
      BY <1>4, <3>1, <3>2, <3>3 DEF Burn, ChainDead, TypeOK
  <2> QED
    BY <1>4, <2>1, <2>2 DEF Burn, Burnable
<1>5. ASSUME NEW r \in Req, Classify(r) PROVE ChainDead(c)'
  BY <1>5 DEF Classify, Goto, Reply, ChainDead, TypeOK, Row, tableVars, adminVars, reqVars
<1>6. ASSUME NEW r \in Req, BurnFamily(r) PROVE ChainDead(c)'
  <2>1. RowsOf(who[r]) \in SUBSET Token
    BY DEF RowsOf, TypeOK
  <2> QED
    BY <1>6, <2>1, RevokingKeepsDead DEF BurnFamily, adminVars
<1>7. ASSUME NEW r \in Req, ReplyReuse(r) PROVE ChainDead(c)'
  BY <1>7 DEF ReplyReuse, Reply, ChainDead, TypeOK, Row, tableVars, adminVars, reqVars
<1>8. ASSUME NEW r \in Req, Insert(r) PROVE ChainDead(c)'
  BY <1>8 DEF Insert, AddRow, Reply, ChainDead, TypeOK, RequestsOK, tableVars
<1>9. ASSUME NEW r \in Req, NEW u \in User, Login(r, u) PROVE ChainDead(c)'
  BY <1>9 DEF Login, Begin, ChainDead, TypeOK, Row, tableVars, adminVars, reqVars
<1>10. ASSUME NEW r \in Req, TenantDoor(r, "loginDoor", "loginInsert") PROVE ChainDead(c)'
  BY <1>10 DEF TenantDoor, Goto, Reply, ChainDead, TypeOK, Row, tableVars, adminVars, reqVars
<1>11. ASSUME NEW r \in Req, LoginInsert(r) PROVE ChainDead(c)'
  BY <1>11 DEF LoginInsert, AddRow, Reply, ChainDead, TypeOK, RequestsOK, tableVars
<1>12. ASSUME NEW r \in Req, NEW u \in User, SuspendUser(r, u) PROVE ChainDead(c)'
  BY <1>12 DEF SuspendUser, Begin, ChainDead, TypeOK, Row, tableVars, adminVars, reqVars
<1>13. ASSUME NEW r \in Req, SuspendRevoke(r) PROVE ChainDead(c)'
  <2>1. RowsOf(who[r]) \in SUBSET Token
    BY DEF RowsOf, TypeOK
  <2> QED
    BY <1>13, <2>1, RevokingKeepsDead DEF SuspendRevoke, adminVars
<1>14. ASSUME NEW r \in Req, Crash(r) PROVE ChainDead(c)'
  BY <1>14 DEF Crash, Reply, ChainDead, TypeOK, Row, tableVars, adminVars, reqVars
<1>15. ASSUME NEW t \in Token, RevokeSession(t) PROVE ChainDead(c)'
  <2>1. {t} \in SUBSET Token
    BY DEF RowsOf, TypeOK
  <2> QED
    BY <1>15, <2>1, RevokingKeepsDead DEF RevokeSession, adminVars
<1>16. ASSUME NEW u \in User, RevokeAll(u) PROVE ChainDead(c)'
  <2>1. RowsOf(u) \in SUBSET Token
    BY DEF RowsOf, TypeOK
  <2> QED
    BY <1>16, <2>1, RevokingKeepsDead DEF RevokeAll, adminVars
<1>17. ASSUME NEW u \in User, NEW t \in Token, RevokeOthers(u, t) PROVE ChainDead(c)'
  <2>1. RowsOf(u) \ {t} \in SUBSET Token
    BY DEF RowsOf, TypeOK
  <2> QED
    BY <1>17, <2>1, RevokingKeepsDead DEF RevokeOthers, adminVars
<1>18. ASSUME NEW u \in User, NEW status \in Status, SetStatus(u, status) PROVE ChainDead(c)'
  BY <1>18, ConstAssumption DEF SetStatus, ChainDead, TypeOK, Row, tableVars, adminVars, reqVars
<1>19. ASSUME NEW u \in User, DeleteUser(u) PROVE ChainDead(c)'
  BY <1>19 DEF DeleteUser, RowsOf, ChainDead, TypeOK, RequestsOK, NoRow, reqVars
<1>20. ASSUME NEW n \in Tenant, SuspendTenant(n) PROVE ChainDead(c)'
  <2>1. {t \in rows : TenantOf[row[t].user] = n} \in SUBSET Token
    BY DEF RowsOf, TypeOK
  <2> QED
    BY <1>20, <2>1, RevokingKeepsDead DEF SuspendTenant, adminVars
<1>21. ASSUME NEW n \in Tenant, ReactivateTenant(n) PROVE ChainDead(c)'
  BY <1>21 DEF ReactivateTenant, ChainDead, TypeOK, Row, tableVars, adminVars, reqVars
<1>22. ASSUME Sweep PROVE ChainDead(c)'
  BY <1>22 DEF Sweep, ChainDead, TypeOK, Row, tableVars, adminVars, reqVars
<1>23. ASSUME Tick PROVE ChainDead(c)'
  BY <1>23 DEF Tick, Row, ChainDead, TypeOK, Row, tableVars, adminVars, reqVars
<1>24. CASE UNCHANGED vars
  BY <1>24 DEF vars, tableVars, adminVars, reqVars, ChainDead
<1> QED
  BY <1>1, <1>2, <1>3, <1>4, <1>5, <1>6, <1>7, <1>8, <1>9, <1>10, <1>11, <1>12, <1>13, <1>14, <1>15, <1>16, <1>17, <1>18, <1>19, <1>20, <1>21, <1>22, <1>23, <1>24 DEF Next, Refresh, IssueTokenPair

\* A dead line of rotations never yields a usable token again.
THEOREM DeadChains == Spec => DeadChainsStayDead
<1>1. SingleUseInv /\ [Next]_vars => [\A c \in Token : ChainDead(c) => ChainDead(c)']_vars
  BY StepKeepsDead
<1>2. Spec => []SingleUseInv
  BY InitInv, NextInv, PTL DEF Spec
<1> QED
  BY <1>1, <1>2, PTL DEF Spec, DeadChainsStayDead

-----------------------------------------------------------------------------
(* The grace window, for requests that do not outlive it *)

\* A revoking statement keeps the promptness of the requests.
LEMMA RevokingKeepsPrompt ==
  ASSUME SingleUseInv, PromptInv, NEW S \in SUBSET Token, RevokeRows(S),
         UNCHANGED <<now, minted, rows>>,
         UNCHANGED reqVars \/ \E r \in Req : Reply(r) \/ (pc[r] = "burnFamily" /\ Goto(r, "reuse"))
  PROVE  PromptInv'
<1>1. TypeOK /\ rows \subseteq Token
  BY DEF SingleUseInv, TypeOK
<1>2. \A t \in Token : row'[t].usedAt = row[t].usedAt
  BY <1>1, RevokeRowsEffect
<1>3. \A q \in Req : pc'[q] # "idle" => pc[q] # "idle" /\ since'[q] = since[q] /\ tok'[q] = tok[q]
  BY <1>1 DEF TypeOK, Goto, Reply, reqVars
<1>4. \A q \in Req : pc'[q] = "burnFamily" => pc[q] = "burnFamily" /\ tok[q] \in Token
  BY <1>1 DEF SingleUseInv, RequestsOK, TypeOK, Goto, Reply, reqVars
<1> QED
  BY <1>2, <1>3, <1>4 DEF PromptInv, FamilyBurnMeansReplay

\* Every step keeps them, if a request's life is no longer than the grace window.
LEMMA StepKeepsPrompt ==
  ASSUME Latency <= Grace, SingleUseInv, PromptInv, [Next]_vars
  PROVE  PromptInv'
<1> USE ConstAssumption DEF SingleUseInv
<1>1. ASSUME NEW r \in Req, NEW t \in Token, Present(r, t) PROVE PromptInv'
  BY <1>1 DEF Present, Begin, PromptInv, FamilyBurnMeansReplay, RequestsOK, TypeOK, Row, tableVars, adminVars, reqVars
<1>2. ASSUME NEW r \in Req, UserDoor(r) PROVE PromptInv'
  BY <1>2 DEF UserDoor, Goto, Reply, PromptInv, FamilyBurnMeansReplay, RequestsOK, TypeOK, Row, tableVars, adminVars, reqVars
<1>3. ASSUME NEW r \in Req, TenantDoor(r, "tenantDoor", "burn") PROVE PromptInv'
  BY <1>3 DEF TenantDoor, Goto, Reply, PromptInv, FamilyBurnMeansReplay, RequestsOK, TypeOK, Row, tableVars, adminVars, reqVars
<1>4. ASSUME NEW r \in Req, Burn(r) PROVE PromptInv'
  <2>1. \A q \in Req : /\ pc'[q] # "idle" => pc[q] # "idle" /\ since'[q] = since[q] /\ tok'[q] = tok[q]
                       /\ pc'[q] = "burnFamily" => pc[q] = "burnFamily" /\ tok[q] \in minted
    BY <1>4 DEF Burn, Goto, Reply, TypeOK, RequestsOK
  <2>2. \A t \in Token : row[t].usedAt # 0 \/ t \notin rows => row'[t].usedAt = row[t].usedAt
    BY <1>4 DEF Burn, Burnable, TypeOK, Row
  <2>3. UNCHANGED <<now, minted, rows>> /\ minted \subseteq Token
    BY <1>4 DEF Burn, TypeOK
  <2> QED
    BY <2>1, <2>2, <2>3 DEF PromptInv, FamilyBurnMeansReplay
<1>5. ASSUME NEW r \in Req, Classify(r) PROVE PromptInv'
  <2>1. UNCHANGED <<now, tableVars>> /\ \A q \in Req \ {r} : pc'[q] = pc[q] /\ tok'[q] = tok[q] /\ since'[q] = since[q]
    BY <1>5 DEF Classify, Goto, Reply, TypeOK
  <2>2. CASE pc'[r] = "idle"
    BY <2>1, <2>2 DEF PromptInv, FamilyBurnMeansReplay, tableVars
  <2>3. CASE IsReplay(tok[r]) /\ Goto(r, "burnFamily")
    <3>1. /\ tok[r] \in rows /\ row[tok[r]].usedAt # 0 /\ now - row[tok[r]].usedAt > Grace
          /\ pc'[r] = "burnFamily" /\ tok'[r] = tok[r] /\ since'[r] = since[r]
      BY <2>3 DEF IsReplay, Goto, TypeOK
    <3>2. now - since[r] <= Latency /\ row[tok[r]].usedAt \in Nat /\ now \in Nat /\ since[r] \in Nat
      BY <1>5, <3>1 DEF PromptInv, Classify, TypeOK, Row
    <3>3. row[tok[r]].usedAt < since[r]
      BY <3>1, <3>2
    <3> QED
      BY <2>1, <3>1, <3>2, <3>3 DEF PromptInv, FamilyBurnMeansReplay, tableVars
  <2> QED
    BY <1>5, <2>2, <2>3 DEF Classify, Reply, TypeOK
<1>6. ASSUME NEW r \in Req, BurnFamily(r) PROVE PromptInv'
  <2>1. RowsOf(who[r]) \in SUBSET Token
    BY DEF RowsOf, TypeOK
  <2> QED
    BY <1>6, <2>1, RevokingKeepsPrompt DEF BurnFamily, adminVars
<1>7. ASSUME NEW r \in Req, ReplyReuse(r) PROVE PromptInv'
  BY <1>7 DEF ReplyReuse, Reply, PromptInv, FamilyBurnMeansReplay, RequestsOK, TypeOK, Row, tableVars, adminVars, reqVars
<1>8. ASSUME NEW r \in Req, Insert(r) PROVE PromptInv'
  <2>1. \A q \in Req : pc'[q] # "idle" => pc'[q] = pc[q] /\ tok'[q] = tok[q] /\ since'[q] = since[q]
    BY <1>8 DEF Insert, Reply, TypeOK
  <2>2. \A t \in minted : row'[t] = row[t] /\ (t \in rows' => t \in rows)
    BY <1>8 DEF Insert, AddRow, tableVars, TypeOK
  <2>3. \A q \in Req : pc[q] = "burnFamily" => tok[q] \in minted
    BY DEF RequestsOK
  <2> QED
    BY <1>8, <2>1, <2>2, <2>3 DEF Insert, PromptInv, FamilyBurnMeansReplay
<1>9. ASSUME NEW r \in Req, NEW u \in User, Login(r, u) PROVE PromptInv'
  BY <1>9 DEF Login, Begin, PromptInv, FamilyBurnMeansReplay, RequestsOK, TypeOK, Row, tableVars, adminVars, reqVars
<1>10. ASSUME NEW r \in Req, TenantDoor(r, "loginDoor", "loginInsert") PROVE PromptInv'
  BY <1>10 DEF TenantDoor, Goto, Reply, PromptInv, FamilyBurnMeansReplay, RequestsOK, TypeOK, Row, tableVars, adminVars, reqVars
<1>11. ASSUME NEW r \in Req, LoginInsert(r) PROVE PromptInv'
  <2>1. \A q \in Req : pc'[q] # "idle" => pc'[q] = pc[q] /\ tok'[q] = tok[q] /\ since'[q] = since[q]
    BY <1>11 DEF LoginInsert, Reply, TypeOK
  <2>2. \A t \in minted : row'[t] = row[t] /\ (t \in rows' => t \in rows)
    BY <1>11 DEF LoginInsert, AddRow, tableVars, TypeOK
  <2>3. \A q \in Req : pc[q] = "burnFamily" => tok[q] \in minted
    BY DEF RequestsOK
  <2> QED
    BY <1>11, <2>1, <2>2, <2>3 DEF LoginInsert, PromptInv, FamilyBurnMeansReplay
<1>12. ASSUME NEW r \in Req, NEW u \in User, SuspendUser(r, u) PROVE PromptInv'
  BY <1>12 DEF SuspendUser, Begin, PromptInv, FamilyBurnMeansReplay, RequestsOK, TypeOK, Row, tableVars, adminVars, reqVars
<1>13. ASSUME NEW r \in Req, SuspendRevoke(r) PROVE PromptInv'
  <2>1. RowsOf(who[r]) \in SUBSET Token
    BY DEF RowsOf, TypeOK
  <2> QED
    BY <1>13, <2>1, RevokingKeepsPrompt DEF SuspendRevoke, adminVars
<1>14. ASSUME NEW r \in Req, Crash(r) PROVE PromptInv'
  BY <1>14 DEF Crash, Reply, PromptInv, FamilyBurnMeansReplay, RequestsOK, TypeOK, Row, tableVars, adminVars, reqVars
<1>15. ASSUME NEW t \in Token, RevokeSession(t) PROVE PromptInv'
  <2>1. {t} \in SUBSET Token
    BY DEF RowsOf, TypeOK
  <2> QED
    BY <1>15, <2>1, RevokingKeepsPrompt DEF RevokeSession, adminVars
<1>16. ASSUME NEW u \in User, RevokeAll(u) PROVE PromptInv'
  <2>1. RowsOf(u) \in SUBSET Token
    BY DEF RowsOf, TypeOK
  <2> QED
    BY <1>16, <2>1, RevokingKeepsPrompt DEF RevokeAll, adminVars
<1>17. ASSUME NEW u \in User, NEW t \in Token, RevokeOthers(u, t) PROVE PromptInv'
  <2>1. RowsOf(u) \ {t} \in SUBSET Token
    BY DEF RowsOf, TypeOK
  <2> QED
    BY <1>17, <2>1, RevokingKeepsPrompt DEF RevokeOthers, adminVars
<1>18. ASSUME NEW u \in User, NEW status \in Status, SetStatus(u, status) PROVE PromptInv'
  BY <1>18, ConstAssumption DEF SetStatus, PromptInv, FamilyBurnMeansReplay, RequestsOK, TypeOK, Row, tableVars, adminVars, reqVars
<1>19. ASSUME NEW u \in User, DeleteUser(u) PROVE PromptInv'
  <2>1. \A t \in Token : /\ row'[t] = row[t] \/ (t \notin rows' /\ row'[t].usedAt = 0)
                         /\ t \in rows' => t \in rows /\ row'[t] = row[t]
    BY <1>19 DEF DeleteUser, RowsOf, TypeOK, NoRow
  <2>2. UNCHANGED <<now, reqVars>>
    BY <1>19 DEF DeleteUser
  <2>3. \A q \in Req : pc[q] = "burnFamily" => tok[q] \in Token /\ since[q] \in 1..now
    BY DEF RequestsOK, TypeOK
  <2> QED
    BY <2>1, <2>2, <2>3 DEF PromptInv, FamilyBurnMeansReplay, reqVars
<1>20. ASSUME NEW n \in Tenant, SuspendTenant(n) PROVE PromptInv'
  <2>1. {t \in rows : TenantOf[row[t].user] = n} \in SUBSET Token
    BY DEF RowsOf, TypeOK
  <2> QED
    BY <1>20, <2>1, RevokingKeepsPrompt DEF SuspendTenant, adminVars
<1>21. ASSUME NEW n \in Tenant, ReactivateTenant(n) PROVE PromptInv'
  BY <1>21 DEF ReactivateTenant, PromptInv, FamilyBurnMeansReplay, RequestsOK, TypeOK, Row, tableVars, adminVars, reqVars
<1>22. ASSUME Sweep PROVE PromptInv'
  BY <1>22 DEF Sweep, PromptInv, FamilyBurnMeansReplay, RequestsOK, TypeOK, Row, tableVars, adminVars, reqVars
<1>23. ASSUME Tick PROVE PromptInv'
  BY <1>23 DEF Tick, Row, PromptInv, FamilyBurnMeansReplay, RequestsOK, TypeOK, Row, tableVars, adminVars, reqVars
<1>24. CASE UNCHANGED vars
  BY <1>24 DEF vars, tableVars, adminVars, reqVars, PromptInv, FamilyBurnMeansReplay
<1> QED
  BY <1>1, <1>2, <1>3, <1>4, <1>5, <1>6, <1>7, <1>8, <1>9, <1>10, <1>11, <1>12, <1>13, <1>14, <1>15, <1>16, <1>17, <1>18, <1>19, <1>20, <1>21, <1>22, <1>23, <1>24 DEF Next, Refresh, IssueTokenPair

\* When no request outlives the grace window, only the replay of a token that
\* had been used before it was presented burns a family of sessions.
THEOREM FamilyBurn ==
  ASSUME Latency <= Grace
  PROVE  Spec => []FamilyBurnMeansReplay
<1>1. Init => PromptInv
  BY ConstAssumption DEF Init, PromptInv, FamilyBurnMeansReplay
<1>2. SingleUseInv /\ PromptInv /\ [Next]_vars => PromptInv'
  BY StepKeepsPrompt
<1>3. PromptInv => FamilyBurnMeansReplay
  BY DEF PromptInv
<1> QED
  BY InitInv, NextInv, <1>1, <1>2, <1>3, PTL DEF Spec
-----------------------------------------------------------------------------
(* Users whom their own status, or their tenant's, shuts out *)

\* What a shut user keeps: the gate stays closed, and the tokens are as they were.
StaysShut(u) ==
  /\ Shut(u)'
  /\ \A t \in rows' : row'[t].user = u => t \in rows /\ row'[t].usedAt = row[t].usedAt

\* A user stays shut when no request of its gets further past a gate, and no row of its
\* is new or newly used.
LEMMA NothingPasses ==
  ASSUME SingleUseInv, NEW u \in User, Shut(u),
         account'[u] = account[u], tenant'[TenantOf[u]] = tenant[TenantOf[u]],
         account[u] \in {"suspended", "pending"} =>
           \A q \in Req : who'[q] = u /\ pc'[q] \in {"tenantDoor", "burn", "insert", "loginDoor", "loginInsert"} =>
             who[q] = u /\ pc[q] \in {"tenantDoor", "burn", "insert", "loginDoor", "loginInsert"},
         account[u] # "gone" /\ tenant[TenantOf[u]] = "suspended" =>
           \A q \in Req : who'[q] = u /\ pc'[q] \in {"burn", "insert", "loginInsert"} =>
             who[q] = u /\ pc[q] \in {"burn", "insert", "loginInsert"},
         \A t \in rows' : row'[t].user = u => t \in rows /\ row'[t].usedAt = row[t].usedAt
  PROVE  StaysShut(u)
  BY DEF StaysShut, Shut, PastUserDoor, PastTenantDoor

\* Of a user who is shut, no request is about to use or to insert a row.
LEMMA NothingIsPast ==
  ASSUME NEW u \in User, Shut(u), NEW q \in Req, who[q] = u
  PROVE  pc[q] \notin {"burn", "insert", "loginInsert"}
  BY DEF Shut, PastUserDoor, PastTenantDoor

\* A statement that revokes rows leaves a shut user shut.
LEMMA RevokingKeepsShut ==
  ASSUME SingleUseInv, NEW u \in User, Shut(u), NEW S \in SUBSET Token, RevokeRows(S),
         account'[u] = account[u], tenant'[TenantOf[u]] = tenant[TenantOf[u]], UNCHANGED rows,
         UNCHANGED reqVars \/ \E r \in Req : Reply(r) \/ (pc[r] = "burnFamily" /\ Goto(r, "reuse"))
  PROVE  StaysShut(u)
<1>1. \A t \in rows : row'[t].user = row[t].user /\ row'[t].usedAt = row[t].usedAt
  BY RevokeRowsEffect DEF SingleUseInv, TypeOK
<1>2. \A q \in Req : who'[q] = u => \/ who[q] = u /\ pc'[q] = pc[q]
                                    \/ pc'[q] \in {"idle", "reuse"}
  BY DEF reqVars, Reply, Goto, SingleUseInv, TypeOK
<1> QED
  BY <1>1, <1>2, NothingPasses

\* As long as nobody changes a shut user's status or its tenant's, no step uses or creates
\* a token of the user.
LEMMA StepKeepsShut ==
  ASSUME SingleUseInv, [Next]_vars, LookupFails = FALSE, NEW u \in User, Shut(u),
         account'[u] = account[u], tenant'[TenantOf[u]] = tenant[TenantOf[u]]
  PROVE  StaysShut(u)
<1> USE ConstAssumption, NothingPasses DEF SingleUseInv
<1>1. ASSUME NEW r \in Req, NEW t \in Token, Present(r, t) PROVE StaysShut(u)
  <2>1. \A q \in Req : who'[q] = u =>
          (who[q] = u /\ pc'[q] = pc[q]) \/ pc'[q] = "userDoor"
    BY <1>1 DEF Present, Begin, TypeOK
  <2> QED
    BY <1>1, <2>1 DEF Present, tableVars, adminVars
<1>2. ASSUME NEW r \in Req, UserDoor(r) PROVE StaysShut(u)
  <2>1. \A q \in Req : who'[q] = u => who[q] = u /\ (pc'[q] = pc[q] \/ (pc'[q] = "tenantDoor" /\ account[u] \notin {"suspended", "pending"}))
    BY <1>2 DEF UserDoor, Goto, Reply, TypeOK
  <2> QED
    BY <1>2, <2>1 DEF UserDoor, tableVars, adminVars
<1>3. ASSUME NEW r \in Req, TenantDoor(r, "tenantDoor", "burn") PROVE StaysShut(u)
  <2>1. \A q \in Req : who'[q] = u => /\ who[q] = u
                                      /\ \/ pc'[q] = pc[q]
                                         \/ /\ pc[q] = "tenantDoor" /\ pc'[q] = "burn"
                                            /\ tenant[TenantOf[u]] = "active" \/ account[u] = "gone"
    BY <1>3 DEF TenantDoor, Goto, Reply, TypeOK
  <2> QED
    BY <1>3, <2>1 DEF TenantDoor, tableVars, adminVars, TypeOK
<1>4. ASSUME NEW r \in Req, Burn(r) PROVE StaysShut(u)
  <2>1. \A q \in Req : who'[q] = u => who[q] = u
    BY <1>4 DEF Burn, Goto, Reply, TypeOK
  <2>2. who[r] # u
    BY <1>4, NothingIsPast DEF Burn
  <2>3. \A q \in Req : who'[q] = u => pc'[q] = pc[q]
    BY <1>4, <2>1, <2>2 DEF Burn, Goto, Reply, TypeOK
  <2>4. tok[r] \in rows => row[tok[r]].user # u
    BY <1>4, <2>2 DEF Burn, RequestsOK
  <2>5. \A t \in rows : row'[t].user = u => row[t].user = u /\ row'[t].usedAt = row[t].usedAt
    BY <1>4, <2>4 DEF Burn, TypeOK, Row
  <2> QED
    BY <1>4, <2>1, <2>3, <2>5 DEF Burn, adminVars
<1>5. ASSUME NEW r \in Req, Classify(r) PROVE StaysShut(u)
  <2>1. \A q \in Req : who'[q] = u => who[q] = u /\ (pc'[q] = pc[q] \/ pc'[q] = "burnFamily")
    BY <1>5 DEF Classify, Goto, Reply, TypeOK
  <2> QED
    BY <1>5, <2>1 DEF Classify, tableVars, adminVars
<1>6. ASSUME NEW r \in Req, BurnFamily(r) PROVE StaysShut(u)
  <2>1. RowsOf(who[r]) \in SUBSET Token
    BY DEF RowsOf, TypeOK
  <2> QED
    BY <1>6, <2>1, RevokingKeepsShut DEF BurnFamily, adminVars
<1>7. ASSUME NEW r \in Req, ReplyReuse(r) PROVE StaysShut(u)
  <2>1. \A q \in Req : who'[q] = u => who[q] = u /\ pc'[q] = pc[q]
    BY <1>7 DEF ReplyReuse, Reply, TypeOK
  <2> QED
    BY <1>7, <2>1 DEF ReplyReuse, tableVars, adminVars
<1>8. ASSUME NEW r \in Req, Insert(r) PROVE StaysShut(u)
  <2>1. \A q \in Req : who'[q] = u => who[q] = u /\ pc'[q] = pc[q]
    BY <1>8 DEF Insert, Reply, TypeOK
  <2>2. who[r] # u
    BY <1>8, NothingIsPast DEF Insert
  <2>3. \A t \in rows' : row'[t].user = u => t \in rows /\ row'[t] = row[t]
    BY <1>8, <2>2 DEF Insert, AddRow, tableVars, TypeOK
  <2> QED
    BY <1>8, <2>1, <2>3 DEF Insert, adminVars
<1>9. ASSUME NEW r \in Req, NEW v \in User, Login(r, v) PROVE StaysShut(u)
  <2>1. \A q \in Req : who'[q] = u =>
          \/ who[q] = u /\ pc'[q] = pc[q]
          \/ pc'[q] = "loginDoor" /\ account[u] = "active"
    BY <1>9 DEF Login, Begin, TypeOK
  <2> QED
    BY <1>9, <2>1 DEF Login, tableVars, adminVars
<1>10. ASSUME NEW r \in Req, TenantDoor(r, "loginDoor", "loginInsert") PROVE StaysShut(u)
  <2>1. \A q \in Req : who'[q] = u => /\ who[q] = u
                                      /\ \/ pc'[q] = pc[q]
                                         \/ /\ pc[q] = "loginDoor" /\ pc'[q] = "loginInsert"
                                            /\ tenant[TenantOf[u]] = "active" \/ account[u] = "gone"
    BY <1>10 DEF TenantDoor, Goto, Reply, TypeOK
  <2> QED
    BY <1>10, <2>1 DEF TenantDoor, tableVars, adminVars, TypeOK
<1>11. ASSUME NEW r \in Req, LoginInsert(r) PROVE StaysShut(u)
  <2>1. \A q \in Req : who'[q] = u => who[q] = u /\ pc'[q] = pc[q]
    BY <1>11 DEF LoginInsert, Reply, TypeOK
  <2>2. who[r] # u
    BY <1>11, NothingIsPast DEF LoginInsert
  <2>3. \A t \in rows' : row'[t].user = u => t \in rows /\ row'[t] = row[t]
    BY <1>11, <2>2 DEF LoginInsert, AddRow, tableVars, TypeOK
  <2> QED
    BY <1>11, <2>1, <2>3 DEF LoginInsert, adminVars
<1>12. ASSUME NEW r \in Req, NEW v \in User, SuspendUser(r, v) PROVE StaysShut(u)
  <2>1. \A q \in Req : who'[q] = u => (who[q] = u /\ pc'[q] = pc[q]) \/ pc'[q] = "suspendRevoke"
    BY <1>12 DEF SuspendUser, Begin, TypeOK
  <2> QED
    BY <1>12, <2>1 DEF SuspendUser, tableVars
<1>13. ASSUME NEW r \in Req, SuspendRevoke(r) PROVE StaysShut(u)
  <2>1. RowsOf(who[r]) \in SUBSET Token
    BY DEF RowsOf, TypeOK
  <2> QED
    BY <1>13, <2>1, RevokingKeepsShut DEF SuspendRevoke, adminVars
<1>14. ASSUME NEW r \in Req, Crash(r) PROVE StaysShut(u)
  <2>1. \A q \in Req : who'[q] = u => who[q] = u /\ pc'[q] = pc[q]
    BY <1>14 DEF Crash, Reply, TypeOK
  <2> QED
    BY <1>14, <2>1 DEF Crash, tableVars, adminVars
<1>15. ASSUME NEW t \in Token, RevokeSession(t) PROVE StaysShut(u)
  <2>1. {t} \in SUBSET Token
    OBVIOUS
  <2> QED
    BY <1>15, <2>1, RevokingKeepsShut DEF RevokeSession, adminVars
<1>16. ASSUME NEW v \in User, RevokeAll(v) PROVE StaysShut(u)
  <2>1. RowsOf(v) \in SUBSET Token
    BY DEF RowsOf, TypeOK
  <2> QED
    BY <1>16, <2>1, RevokingKeepsShut DEF RevokeAll, adminVars
<1>17. ASSUME NEW v \in User, NEW t \in Token, RevokeOthers(v, t) PROVE StaysShut(u)
  <2>1. RowsOf(v) \ {t} \in SUBSET Token
    BY DEF RowsOf, TypeOK
  <2> QED
    BY <1>17, <2>1, RevokingKeepsShut DEF RevokeOthers, adminVars
<1>18. ASSUME NEW v \in User, NEW status \in Status, SetStatus(v, status) PROVE StaysShut(u)
  BY <1>18 DEF SetStatus, tableVars, reqVars
<1>19. ASSUME NEW v \in User, DeleteUser(v) PROVE StaysShut(u)
  <2>1. \A t \in rows' : t \in rows /\ row'[t] = row[t]
    BY <1>19 DEF DeleteUser, TypeOK
  <2> QED
    BY <1>19, <2>1 DEF DeleteUser, reqVars
<1>20. ASSUME NEW n \in Tenant, SuspendTenant(n) PROVE StaysShut(u)
  <2>1. {t \in rows : TenantOf[row[t].user] = n} \in SUBSET Token
    BY DEF TypeOK
  <2> QED
    BY <1>20, <2>1, RevokingKeepsShut DEF SuspendTenant
<1>21. ASSUME NEW n \in Tenant, ReactivateTenant(n) PROVE StaysShut(u)
  BY <1>21 DEF ReactivateTenant, tableVars, reqVars
<1>22. ASSUME Sweep PROVE StaysShut(u)
  BY <1>22 DEF Sweep, adminVars, reqVars
<1>23. ASSUME Tick PROVE StaysShut(u)
  BY <1>23 DEF Tick, tableVars, adminVars, reqVars
<1>24. CASE UNCHANGED vars
  BY <1>24 DEF vars, tableVars, adminVars, reqVars
<1> QED
  BY <1>1, <1>2, <1>3, <1>4, <1>5, <1>6, <1>7, <1>8, <1>9, <1>10, <1>11, <1>12, <1>13, <1>14, <1>15, <1>16, <1>17, <1>18, <1>19, <1>20, <1>21, <1>22, <1>23, <1>24 DEF Next, Refresh, IssueTokenPair

\* Where the tenant of a request can be read (the gate is open when it cannot), the tokens
\* of a user who is shut are frozen until the status of the user or of the tenant changes.
THEOREM ShutUsers ==
  ASSUME LookupFails = FALSE
  PROVE  Spec => ShutUsersAreFrozen
<1>1. SingleUseInv /\ [Next]_vars =>
        [\A u \in User : Shut(u) /\ account[u] = account'[u] /\ tenant[TenantOf[u]] = tenant'[TenantOf[u]]
           => /\ Shut(u)'
              /\ \A t \in rows' : row'[t].user = u => t \in rows /\ row'[t].usedAt = row[t].usedAt]_vars
  BY StepKeepsShut DEF StaysShut
<1>2. Spec => []SingleUseInv
  BY InitInv, NextInv, PTL DEF Spec
<1> QED
  BY <1>1, <1>2, PTL DEF Spec, ShutUsersAreFrozen
=============================================================================
