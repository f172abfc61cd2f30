-------------------------- MODULE DirectoryProofs ---------------------------
(***************************************************************************)
(* Proofs about Directory for any number of users, groups and requests.    *)
(***************************************************************************)
EXTENDS Directory, FiniteSetTheorems, TLAPS

-----------------------------------------------------------------------------
(* Shapes *)

Status5 == {"none", "active", "suspended", "pending", "gone"}
UserRow == [status: Status5, pw: 0..MaxPw, must: BOOLEAN, live: BOOLEAN, link: BOOLEAN]
GroupRow == [there: BOOLEAN, dept: BOOLEAN, bound: BOOLEAN, members: SUBSET User]

Place == {"idle", "row", "insert", "page", "exported", "guard", "write", "scimWrite", "revoke", "patch",
          "swap", "push", "prune", "make", "members", "putGroup", "patchGroup", "deleteGroup", "refused",
          "bootstrap"}
Op == {"none", "suspended", "active", "pending", "delete", "logout", "armed", "done", "patch", "group", "patchGroup"}

\* page counts pages, or names the group of a SCIM request; set holds users, or departments.
Request == [at: Place, op: Op, u: 0..Users, pw: 0..MaxPw, old: 0..MaxPw,
            set: SUBSET (User \cup Group), todo: SUBSET User, errors: Nat, made: Nat, page: Nat \cup Group]

Shapes ==
  /\ user \in [User -> UserRow] /\ group \in [Group -> GroupRow] /\ admin \in SUBSET User
  /\ req \in [Proc -> Request] /\ alone \in [Proc -> BOOLEAN]
  /\ history \in [User -> Seq(1..MaxPw)] /\ trail \in [User -> Seq(0..MaxPw)]

LEMMA IdleShape == Idle \in Request /\ Idle.at = "idle" /\ Idle.op = "none"
<1>1. 0 \in 0..Users /\ 0 \in 0..MaxPw /\ 1 \in Nat \cup Group /\ 0 \in Nat
  BY DirectoryAssumption
<1>2. {} \in SUBSET (User \cup Group) /\ {} \in SUBSET User
  OBVIOUS
<1>5. "none" \in Op /\ "idle" \in Place
  BY DEF Op, Place
<1>3. Idle \in Request
  BY <1>1, <1>2, <1>5, Zenon DEF Idle, Request, NoUser
<1>4. Idle.at = "idle" /\ Idle.op = "none"
  BY DEF Idle
<1> QED
  BY <1>3, <1>4

LEMMA GotoShape ==
  ASSUME Shapes, NEW p \in Proc, NEW r \in Request, NEW where \in Place, Goto(p, where, r)
  PROVE  /\ req' \in [Proc -> Request]
         /\ req'[p] = [r EXCEPT !.at = where] /\ req'[p].at = where
         /\ req'[p].op = r.op /\ req'[p].u = r.u /\ req'[p].pw = r.pw /\ req'[p].old = r.old
         /\ req'[p].set = r.set /\ req'[p].todo = r.todo /\ req'[p].errors = r.errors
         /\ req'[p].made = r.made /\ req'[p].page = r.page
         /\ \A q \in Proc \ {p} : req'[q] = req[q]
<1>1. req' = [req EXCEPT ![p] = [r EXCEPT !.at = where]]
  BY DEF Goto
<1>2. [r EXCEPT !.at = where] \in Request
  BY DEF Request
<1> QED
  BY <1>1, <1>2 DEF Shapes, Request

LEMMA ReplyShape ==
  ASSUME Shapes, NEW p \in Proc, Reply(p)
  PROVE  req' \in [Proc -> Request] /\ req'[p] = Idle /\ \A q \in Proc \ {p} : req'[q] = req[q]
  BY IdleShape DEF Shapes, Reply

\* What a write to one row does.
LEMMA StatusWrite ==
  ASSUME Shapes, NEW u \in User, NEW s \in Status5, user' = [user EXCEPT ![u].status = s]
  PROVE  /\ user' \in [User -> UserRow] /\ \A v \in User \ {u} : user'[v] = user[v]
         /\ user'[u].status = s /\ user'[u].pw = user[u].pw
  BY DEF Shapes, UserRow

LEMMA LiveWrite ==
  ASSUME Shapes, NEW u \in User, NEW b \in BOOLEAN, user' = [user EXCEPT ![u].live = b]
  PROVE  /\ user' \in [User -> UserRow]
         /\ \A v \in User : user'[v].status = user[v].status /\ user'[v].pw = user[v].pw
  BY ZenonT(60) DEF Shapes, UserRow

LEMMA LinkWrite ==
  ASSUME Shapes, NEW u \in User, NEW b \in BOOLEAN, user' = [user EXCEPT ![u].link = b]
  PROVE  /\ user' \in [User -> UserRow]
         /\ \A v \in User : user'[v].status = user[v].status /\ user'[v].pw = user[v].pw
  BY ZenonT(60) DEF Shapes, UserRow

LEMMA CreateWrite ==
  ASSUME Shapes, NEW u \in User, NEW pw \in 0..MaxPw, user' = [user EXCEPT ![u] = Created(pw)]
  PROVE  /\ user' \in [User -> UserRow] /\ \A v \in User \ {u} : user'[v] = user[v]
         /\ user'[u].status = "active" /\ user'[u].pw = pw
<1>1. Created(pw) \in UserRow /\ Created(pw).status = "active" /\ Created(pw).pw = pw
  BY DirectoryAssumption DEF Created, Absent, UserRow, Status5
<1> QED
  BY <1>1 DEF Shapes

LEMMA GoneWrite ==
  ASSUME Shapes, NEW u \in User, user' = [user EXCEPT ![u] = [Absent EXCEPT !.status = "gone"]]
  PROVE  /\ user' \in [User -> UserRow] /\ \A v \in User \ {u} : user'[v] = user[v]
         /\ user'[u].status = "gone" /\ user'[u].pw = 0
<1> DEFINE r == [Absent EXCEPT !.status = "gone"]
<1>1. r \in UserRow /\ r.status = "gone" /\ r.pw = 0
  <2>1. 0 \in 0..MaxPw
    BY DirectoryAssumption
  <2>2. Absent \in UserRow /\ Absent.pw = 0
    BY <2>1 DEF Absent, UserRow, Status5
  <2>3. \A x \in UserRow : /\ [x EXCEPT !.status = "gone"] \in UserRow
                           /\ [x EXCEPT !.status = "gone"].status = "gone" /\ [x EXCEPT !.status = "gone"].pw = x.pw
    BY DEF UserRow, Status5
  <2> QED
    BY <2>2, <2>3
<1> HIDE DEF r
<1>2. user' = [user EXCEPT ![u] = r]
  BY DEF r
<1> QED
  BY <1>1, <1>2 DEF Shapes

LEMMA PasswordWrite ==
  ASSUME Shapes, NEW p \in Proc, req[p].u \in User, user' = Set(p)
  PROVE  /\ user' \in [User -> UserRow] /\ \A v \in User \ {req[p].u} : user'[v] = user[v]
         /\ user'[req[p].u].pw = req[p].pw
         /\ user'[req[p].u].status = user[req[p].u].status
<1>1. req[p].pw \in 0..MaxPw
  BY DEF Shapes, Request
<1> QED
  <2> DEFINE u == req[p].u
             b == req[p].op = "armed"
  <2>1. user' = [user EXCEPT ![u].pw = req[p].pw, ![u].must = b]
    BY DEF Set
  <2>2. \A r \in UserRow : /\ [r EXCEPT !.pw = req[p].pw, !.must = b] \in UserRow
                           /\ [r EXCEPT !.pw = req[p].pw, !.must = b].pw = req[p].pw
                           /\ [r EXCEPT !.pw = req[p].pw, !.must = b].status = r.status
    BY <1>1 DEF UserRow
  <2> HIDE DEF b
  <2>3. /\ user'[u] = [user[u] EXCEPT !.pw = req[p].pw, !.must = b] /\ \A v \in User \ {u} : user'[v] = user[v]
        /\ user' = [user EXCEPT ![u] = [user[u] EXCEPT !.pw = req[p].pw, !.must = b]]
    BY <2>1 DEF Shapes
  <2> DEFINE x == [user[u] EXCEPT !.pw = req[p].pw, !.must = b]
  <2>4. x \in UserRow /\ x.pw = req[p].pw /\ x.status = user[u].status
    BY <2>2 DEF Shapes
  <2>5. user' = [user EXCEPT ![u] = x]
    BY <2>3
  <2> HIDE DEF x
  <2> QED
    BY <2>4, <2>5 DEF Shapes

LEMMA NoGroupShape ==
  NoGroup \in GroupRow /\ [NoGroup EXCEPT !.there = TRUE] \in GroupRow /\ ~NoGroup.bound /\ ~NoGroup.there
    /\ NoGroup.members = {} /\ ~[NoGroup EXCEPT !.there = TRUE].bound /\ [NoGroup EXCEPT !.there = TRUE].members = {}
    /\ [NoGroup EXCEPT !.there = TRUE].there
  BY DEF NoGroup, GroupRow

LEMMA GroupWrites ==
  ASSUME NEW r \in GroupRow, NEW m \in SUBSET User, NEW b \in BOOLEAN
  PROVE  /\ [r EXCEPT !.members = m] \in GroupRow
         /\ [r EXCEPT !.members = m].members = m /\ [r EXCEPT !.members = m].bound = r.bound
         /\ [r EXCEPT !.members = m].there = r.there /\ [r EXCEPT !.members = m].dept = r.dept
         /\ [r EXCEPT !.dept = b] \in GroupRow /\ [r EXCEPT !.dept = b].members = r.members
         /\ [r EXCEPT !.dept = b].bound = r.bound /\ [r EXCEPT !.dept = b].there = r.there
         /\ [r EXCEPT !.bound = b] \in GroupRow /\ [r EXCEPT !.bound = b].members = r.members
         /\ [r EXCEPT !.bound = b].there = r.there
  BY DEF GroupRow

-----------------------------------------------------------------------------
(* Sequences of passwords *)

LEMMA Keeps ==
  ASSUME NEW S, NEW s \in Seq(S)
  PROVE  /\ UpToKeep(s) \in Seq(S) /\ Len(UpToKeep(s)) = (IF Len(s) < Keep THEN Len(s) ELSE Keep)
         /\ \A i \in 1..Len(UpToKeep(s)) : UpToKeep(s)[i] = s[i]
<1> DEFINE m == IF Len(s) < Keep THEN Len(s) ELSE Keep
<1>1. Keep \in Nat /\ Len(s) \in Nat
  BY DirectoryAssumption
<1>2. Min({Keep, Len(s)}) = m
  <2>1. m \in {Keep, Len(s)} /\ \A y \in {Keep, Len(s)} : m <= y
    BY <1>1
  <2>2. \A x \in {Keep, Len(s)} : (\A y \in {Keep, Len(s)} : x <= y) => x = m
    BY <1>1
  <2> QED
    BY <2>1, <2>2 DEF Min
<1>3. UpToKeep(s) = SubSeq(s, 1, m)
  BY <1>2 DEF UpToKeep
<1>4. m \in 0..Len(s)
  BY <1>1
<1> HIDE DEF m
<1>5. SubSeq(s, 1, m) \in Seq(S) /\ Len(SubSeq(s, 1, m)) = m /\ \A i \in 1..m : SubSeq(s, 1, m)[i] = s[i]
  BY <1>1, <1>4
<1> QED
  BY <1>3, <1>5 DEF m

LEMMA SameSeq ==
  ASSUME NEW S, NEW s \in Seq(S), NEW t \in Seq(S), Len(s) = Len(t), \A i \in 1..Len(s) : s[i] = t[i]
  PROVE  s = t
  OBVIOUS

LEMMA Entries ==
  ASSUME NEW S, NEW s \in Seq(S) PROVE \A i \in DOMAIN s : s[i] \in S
  OBVIOUS

\* Keeping twice is keeping once, and what is kept does not depend on what was cut off before.
LEMMA KeepsTwice ==
  ASSUME NEW S, NEW s \in Seq(S), NEW x \in S
  PROVE  /\ UpToKeep(UpToKeep(s)) = UpToKeep(s)
         /\ UpToKeep(<<x>> \o UpToKeep(s)) = UpToKeep(<<x>> \o s)
<1>0. Keep \in Nat /\ Keep > 0 /\ Len(s) \in Nat
  BY DirectoryAssumption
<1>1. UpToKeep(s) \in Seq(S) /\ Len(UpToKeep(s)) = (IF Len(s) < Keep THEN Len(s) ELSE Keep)
      /\ \A i \in 1..Len(UpToKeep(s)) : UpToKeep(s)[i] = s[i]
  BY Keeps
<1>2. UpToKeep(UpToKeep(s)) = UpToKeep(s)
  <2>1. /\ UpToKeep(UpToKeep(s)) \in Seq(S) /\ Len(UpToKeep(UpToKeep(s))) = Len(UpToKeep(s))
        /\ \A i \in 1..Len(UpToKeep(s)) : UpToKeep(UpToKeep(s))[i] = UpToKeep(s)[i]
    BY <1>0, <1>1, Keeps
  <2> QED
    BY <1>1, <2>1, SameSeq
<1> DEFINE k == UpToKeep(s)
<1> HIDE DEF k
<1>3. k \in Seq(S) /\ Len(k) = (IF Len(s) < Keep THEN Len(s) ELSE Keep) /\ \A i \in 1..Len(k) : k[i] = s[i]
  BY <1>1 DEF k
<1>4. /\ <<x>> \o k \in Seq(S) /\ Len(<<x>> \o k) = Len(k) + 1
      /\ \A i \in 1..Len(k) + 1 : (<<x>> \o k)[i] = IF i = 1 THEN x ELSE k[i - 1]
  BY <1>3
<1>5. /\ <<x>> \o s \in Seq(S) /\ Len(<<x>> \o s) = Len(s) + 1
      /\ \A i \in 1..Len(s) + 1 : (<<x>> \o s)[i] = IF i = 1 THEN x ELSE s[i - 1]
  OBVIOUS
<1> DEFINE a == <<x>> \o k
           b == <<x>> \o s
<1> HIDE DEF a, b
<1>6. UpToKeep(a) = UpToKeep(b)
  <2>1. /\ a \in Seq(S) /\ b \in Seq(S) /\ Len(a) = Len(k) + 1 /\ Len(b) = Len(s) + 1
        /\ \A i \in 1..Len(k) + 1 : a[i] = b[i]
    BY <1>0, <1>3, <1>4, <1>5 DEF a, b
  <2>2. /\ UpToKeep(a) \in Seq(S) /\ UpToKeep(b) \in Seq(S)
        /\ Len(UpToKeep(a)) = (IF Len(a) < Keep THEN Len(a) ELSE Keep)
        /\ Len(UpToKeep(b)) = (IF Len(b) < Keep THEN Len(b) ELSE Keep)
        /\ \A i \in 1..Len(UpToKeep(a)) : UpToKeep(a)[i] = a[i]
        /\ \A i \in 1..Len(UpToKeep(b)) : UpToKeep(b)[i] = b[i]
    BY <2>1, Keeps
  <2>3. Len(UpToKeep(a)) = Len(UpToKeep(b)) /\ Len(UpToKeep(a)) <= Len(k) + 1 /\ Len(UpToKeep(a)) \in Nat
    BY <1>0, <1>3, <2>1, <2>2
  <2>4. \A i \in 1..Len(UpToKeep(a)) : UpToKeep(a)[i] = UpToKeep(b)[i]
    BY <1>3, <2>1, <2>2, <2>3
  <2> QED
    BY <2>2, <2>3, <2>4, SameSeq
<1> QED
  BY <1>2, <1>6 DEF a, b, k

-----------------------------------------------------------------------------
(* Pages *)

\* The rank of a member is its place in the order, and every place is taken.
LEMMA Ranks ==
  ASSUME NEW S \in SUBSET User
  PROVE  /\ IsFiniteSet(S) /\ Cardinality(S) \in Nat
         /\ \A u \in S : Rank(S, u) \in 1..Cardinality(S)
         /\ \A k \in 1..Cardinality(S) : \E u \in S : Rank(S, u) = k
         /\ \A u, v \in S : Rank(S, u) = Rank(S, v) => u = v
<1>1. IsFiniteSet(S) /\ Cardinality(S) \in Nat /\ S \subseteq Nat
  <2>1. IsFiniteSet(User) /\ User \subseteq Nat
    BY DirectoryAssumption, FS_Interval DEF User
  <2> QED
    BY <2>1, FS_Subset, FS_CardinalityType
<1> DEFINE Below(u) == {v \in S : v <= u}
<1>2. \A u \in S : /\ IsFiniteSet(Below(u)) /\ Cardinality(Below(u)) \in Nat
                   /\ Cardinality(Below(u)) <= Cardinality(S) /\ Below(u) # {}
  <2> SUFFICES ASSUME NEW u \in S
               PROVE  /\ IsFiniteSet(Below(u)) /\ Cardinality(Below(u)) \in Nat
                      /\ Cardinality(Below(u)) <= Cardinality(S) /\ Below(u) # {}
    OBVIOUS
  <2>1. Below(u) \in SUBSET S /\ u \in Below(u)
    BY <1>1
  <2> QED
    BY <1>1, <2>1, FS_Subset, FS_CardinalityType
<1>3. \A u \in S : Rank(S, u) = Cardinality(Below(u)) /\ Rank(S, u) \in 1..Cardinality(S)
  <2> SUFFICES ASSUME NEW u \in S PROVE Rank(S, u) = Cardinality(Below(u)) /\ Rank(S, u) \in 1..Cardinality(S)
    OBVIOUS
  <2>1. Rank(S, u) = Cardinality(Below(u))
    BY DEF Rank
  <2>2. Cardinality(Below(u)) # 0
    BY <1>2, FS_EmptySet
  <2> QED
    BY <1>1, <1>2, <2>1, <2>2
<1>4. \A u, v \in S : u < v => Rank(S, u) < Rank(S, v)
  <2> SUFFICES ASSUME NEW u \in S, NEW v \in S, u < v PROVE Rank(S, u) < Rank(S, v)
    OBVIOUS
  <2>0. u \in Nat /\ v \in Nat /\ \A x \in S : x \in Nat
    BY <1>1
  <2>a. (\A w \in S : w <= u => w <= v) /\ ~(v <= u) /\ v <= v
    BY <2>0
  <2>1. Below(u) \in SUBSET Below(v) /\ v \in Below(v) /\ v \notin Below(u)
    BY <2>a
  <2>2. Cardinality(Below(u)) <= Cardinality(Below(v)) /\ Cardinality(Below(v)) # Cardinality(Below(u))
    BY <1>2, <2>1, FS_Subset
  <2>3. /\ Cardinality(Below(u)) \in Nat /\ Cardinality(Below(v)) \in Nat
        /\ Rank(S, u) = Cardinality(Below(u)) /\ Rank(S, v) = Cardinality(Below(v))
    BY <1>2, <1>3
  <2> HIDE DEF Below
  <2> QED
    BY <2>2, <2>3
<1>5. \A u, v \in S : Rank(S, u) = Rank(S, v) => u = v
  <2> SUFFICES ASSUME NEW u \in S, NEW v \in S, Rank(S, u) = Rank(S, v) PROVE u = v
    OBVIOUS
  <2>0. u \in Nat /\ v \in Nat
    BY <1>1
  <2>b. Rank(S, u) \in 1..Cardinality(S) /\ Cardinality(S) \in Nat
    BY <1>1, <1>3
  <2>a. Rank(S, u) \in Nat
    BY <2>b
  <2>1. ~(u < v) /\ ~(v < u)
    BY <1>4, <2>a
  <2> QED
    BY <2>0, <2>1
<1>6. \A k \in 1..Cardinality(S) : \E u \in S : Rank(S, u) = k
  <2> DEFINE f == [u \in S |-> Rank(S, u)]
             T == 1..Cardinality(S)
  <2>1. f \in [S -> T] /\ \A u, v \in S : f[u] = f[v] => u = v
    BY <1>3, <1>5
  <2>2. f \in Injection(S, T)
    BY <2>1 DEF Injection, IsInjective
  <2>3. IsFiniteSet(T) /\ Cardinality(T) = Cardinality(S)
    BY <1>1, FS_Interval
  <2> HIDE DEF f, T
  <2>4. f \in Surjection(S, T)
    BY <2>2, <2>3, FS_Injection
  <2>5. \A k \in T : \E u \in S : f[u] = k
    BY <2>4 DEF Surjection
  <2> QED
    BY <2>5 DEF f, T
<1> QED
  BY <1>1, <1>3, <1>5, <1>6

\* Those up to a place are on the pages so far; the last page is at the end, or at the cap.
LEMMA Paging ==
  ASSUME NEW S \in SUBSET User, NEW page \in Nat \ {0}
  PROVE  /\ Within(S, 0) = {}
         /\ Within(S, (page - 1) * PageSize) \cup Listed(S, page) = Within(S, page * PageSize)
         /\ Within(S, (page - 1) * PageSize) \cap Listed(S, page) = {}
         /\ LastPage(Listed(S, page), page) /\ page <= MaxPages =>
              Within(S, page * PageSize) = Within(S, MaxPages * PageSize)
         /\ Listed(S, page) \subseteq S
<1> DEFINE a == (page - 1) * PageSize
           b == page * PageSize
           n == Cardinality(S)
<1>0. PageSize \in Nat /\ PageSize > 0
  BY DirectoryAssumption
<1>1. a \in Nat /\ b = a + PageSize /\ b \in Nat
  BY <1>0
<1>2. n \in Nat /\ IsFiniteSet(S) /\ \A u \in S : Rank(S, u) \in 1..n
  BY Ranks
<1>3. Listed(S, page) = {u \in S : Rank(S, u) \in a + 1 .. b}
  BY DEF Listed
<1> HIDE DEF a, b, n
<1>4. Within(S, 0) = {}
  BY <1>2 DEF Within
<1>5. Within(S, a) \cup Listed(S, page) = Within(S, b) /\ Within(S, a) \cap Listed(S, page) = {}
  BY <1>0, <1>1, <1>2, <1>3 DEF Within
<1>6. ASSUME Cardinality(Listed(S, page)) < PageSize PROVE Within(S, b) = S
  <2>1. SUFFICES ASSUME n > b PROVE FALSE
    BY <1>1, <1>2 DEF Within
  <2>2. IsFiniteSet(Listed(S, page)) /\ Cardinality(Listed(S, page)) \in Nat
    BY <1>2, <1>3, FS_Subset, FS_CardinalityType
  <2> DEFINE L == Listed(S, page)
             T == a + 1 .. b
             f == [u \in L |-> Rank(S, u)]
  <2>3. f \in [L -> T] /\ \A k \in T : \E u \in L : f[u] = k
    <3>1. \A k \in T : k \in 1..n
      BY <1>1, <1>2, <2>1
    <3>2. \A k \in T : \E u \in S : Rank(S, u) = k
      BY <3>1, Ranks DEF n
    <3> QED
      BY <1>3, <3>2
  <2>4. f \in Surjection(L, T)
    BY <2>3 DEF Surjection
  <2>5. Cardinality(T) = PageSize
    BY <1>0, <1>1, FS_Interval
  <2>6. IsFiniteSet(L) /\ Cardinality(L) < PageSize /\ Cardinality(L) \in Nat
    BY <1>6, <2>2
  <2> HIDE DEF f, L, T
  <2>7. Cardinality(T) <= Cardinality(L)
    BY <2>4, <2>6, FS_Surjection
  <2> QED
    BY <1>0, <2>5, <2>6, <2>7
<1>7. Listed(S, page) \subseteq S
  BY <1>3
<1>8. ASSUME Cardinality(Listed(S, page)) < PageSize, page <= MaxPages PROVE Within(S, MaxPages * PageSize) = S
  <2>1. PICK d \in Nat : MaxPages = page + d
    <3>1. MaxPages - page \in Nat /\ MaxPages = page + (MaxPages - page)
      BY <1>8, DirectoryAssumption
    <3> QED
      BY <3>1
  <2>2. (page + d) * PageSize = page * PageSize + d * PageSize /\ d * PageSize \in Nat
    BY <1>0
  <2>3. b <= MaxPages * PageSize
    BY <1>1, <2>1, <2>2 DEF b
  <2>4. \A u \in S : Rank(S, u) <= b
    BY <1>6, <1>8 DEF Within
  <2>5. MaxPages * PageSize \in Int
    BY <1>0, DirectoryAssumption
  <2>6. \A u \in S : Rank(S, u) <= MaxPages * PageSize
    BY <1>1, <1>2, <2>3, <2>4, <2>5
  <2> QED
    BY <2>6 DEF Within
<1>9. LastPage(Listed(S, page), page) /\ page <= MaxPages => Within(S, b) = Within(S, MaxPages * PageSize)
  <2>1. CASE Cardinality(Listed(S, page)) < PageSize
    BY <1>6, <1>8, <2>1
  <2>2. CASE page = MaxPages
    BY <2>2 DEF b
  <2> QED
    BY <2>1, <2>2 DEF LastPage
<1> QED
  BY <1>4, <1>5, <1>7, <1>9 DEF a, b

-----------------------------------------------------------------------------
(* What requests carry *)

GroupPlace == {"make", "putGroup", "patchGroup", "deleteGroup", "members", "refused"}

\* Request r, whose work nobody else's write has overlapped if al, among the users ex, the
\* groups grp and the administrators adm.
Carries(r, al, ex, grp, adm) ==
  /\ r.at = "row" => /\ r.todo \subseteq r.set /\ r.set \subseteq User
                     /\ Cardinality(r.set \ r.todo) = r.made + r.errors
  /\ r.at = "insert" => /\ r.todo \subseteq r.set /\ r.set \subseteq User /\ r.u \in r.set
                        /\ Cardinality(r.set \ r.todo) = r.made + r.errors + 1
  /\ r.at = "page" => /\ r.page \in Nat \ {0} /\ r.page <= MaxPages /\ r.set \subseteq User
                      /\ al => r.set = Within(ex, (r.page - 1) * PageSize) /\ r.todo = {}
  /\ r.at = "exported" /\ al => r.set = Within(ex, MaxPages * PageSize) /\ r.todo = {}
  /\ r.at = "guard" => /\ r.u \in User /\ r.op \in ScopedOp
                       /\ al => r.set = {g \in Group : grp[g].dept /\ Manager \in grp[g].members}
  /\ r.at = "write" => /\ r.u \in User /\ r.op \in ScopedOp
                       /\ al => r.u = Manager \/ \E g \in Group : grp[g].dept /\ {r.u, Manager} \subseteq grp[g].members
  /\ r.at = "scimWrite" => r.u \in User /\ r.op \in {"suspended", "active"}
  /\ r.at \in {"revoke", "patch", "swap", "push", "prune", "bootstrap"} => r.u \in User
  /\ r.at = "swap" => r.pw \in 1..MaxPw
  /\ r.at \in {"push", "prune"} => r.old \in 1..MaxPw
  /\ r.op \in {"group", "patchGroup"} <=> r.at \in GroupPlace
  /\ r.at \in {"make", "putGroup", "patchGroup", "deleteGroup"} => r.op = "group"
  /\ r.at \in GroupPlace => r.page \in Group /\ r.set \subseteq User
  /\ r.at \in GroupPlace \ {"make"} /\ al => ~grp[r.page].bound
  /\ r.at = "make" /\ al => r.set \subseteq ex
  /\ r.at = "members" /\ r.op = "group" /\ al => grp[r.page].there /\ r.set \subseteq ex
  /\ r.at = "refused" /\ al => r.op = "patchGroup"
  /\ r.at = "bootstrap" /\ al /\ r.made = 1 => r.u \in adm

\* Memberships and administrators are of users that exist; what is no group has nothing.
KeysHold ==
  /\ \A g \in Group : group[g].members \subseteq Existing
  /\ \A g \in Group : ~group[g].there => ~group[g].bound /\ group[g].members = {}
  /\ admin \subseteq Existing

AllCarry == \A p \in Proc : Carries(req[p], alone[p], Existing, group, admin)

World == <<Existing, group, admin>>

\* A step of request p, as far as the others notice: their work is overlapped, or nothing
\* they have looked at changes.
Alone(p) ==
  /\ alone' \in [Proc -> BOOLEAN] /\ \A q \in Proc \ {p} : req'[q] = req[q]
  /\ \A q \in Proc \ {p} : alone'[q] => alone[q] /\ UNCHANGED World

LEMMA OthersCarry ==
  ASSUME AllCarry, NEW p \in Proc, Alone(p),
         Carries(req'[p], alone'[p], Existing', group', admin')
  PROVE  AllCarry'
<1> SUFFICES ASSUME NEW q \in Proc PROVE Carries(req'[q], alone'[q], Existing', group', admin')
  BY DEF AllCarry
<1>1. CASE q = p
  BY <1>1
<1>2. CASE q # p
  <2>1. Carries(req[q], alone[q], Existing, group, admin) /\ req'[q] = req[q]
    BY <1>2 DEF AllCarry, Alone
  <2>2. alone'[q] => alone[q] /\ Existing' = Existing /\ group' = group /\ admin' = admin
    BY <1>2 DEF Alone, World
  <2>3. alone'[q] \in BOOLEAN
    BY DEF Alone
  <2>4. ASSUME alone'[q] PROVE Carries(req'[q], alone'[q], Existing', group', admin')
    <3>1. alone[q] /\ Existing' = Existing /\ group' = group /\ admin' = admin
      BY <2>2, <2>4
    <3> QED
      BY <2>1, <2>4, <3>1 DEF Carries
  <2>5. ASSUME ~alone'[q] PROVE Carries(req'[q], alone'[q], Existing', group', admin')
    BY <2>1, <2>5 DEF Carries
  <2> QED
    BY <2>4, <2>5
<1> QED
  BY <1>1, <1>2

LEMMA IdleCarries == \A al, ex, grp, adm : Carries(Idle, al, ex, grp, adm)
<1>1. Idle.at = "idle" /\ Idle.op = "none"
  BY IdleShape
<1> QED
  BY <1>1 DEF Carries, GroupPlace

\* The three ways in which a step marks who has been overlapped.
LEMMA Marks ==
  ASSUME Shapes, NEW p \in Proc, \A q \in Proc \ {p} : req'[q] = req[q]
  PROVE  /\ UNCHANGED <<alone, Existing, group, admin>> => Alone(p)
         /\ Starts(p) /\ UNCHANGED World => Alone(p) /\ alone'[p]
         /\ WroteBy(p) => Alone(p) /\ alone'[p] = alone[p]
<1>1. UNCHANGED <<alone, Existing, group, admin>> => Alone(p)
  BY DEF Alone, Shapes, World
<1>2. Starts(p) /\ UNCHANGED World => Alone(p) /\ alone'[p]
  BY DEF Alone, Shapes, Starts
<1>3. ASSUME WroteBy(p) PROVE Alone(p) /\ alone'[p] = alone[p]
  <2>1. /\ \A q \in Proc : alone'[q] = (alone[q] /\ q = p) /\ alone[q] \in BOOLEAN
        /\ alone' = [q \in Proc |-> alone[q] /\ q = p]
    BY <1>3 DEF WroteBy, Shapes
  <2>2. alone' \in [Proc -> BOOLEAN]
    BY <2>1
  <2> QED
    BY <2>1, <2>2 DEF Alone
<1> QED
  BY <1>1, <1>2, <1>3

-----------------------------------------------------------------------------
(* Steps that change no row *)

Inv == Shapes /\ KeysHold /\ AllCarry

LEMMA Walk ==
  ASSUME Inv, NEW p \in Proc, NEW r \in Request, NEW where \in Place, Goto(p, where, r),
         UNCHANGED <<user, group, admin, history, trail>>, UNCHANGED alone \/ Starts(p),
         (UNCHANGED alone => Carries([r EXCEPT !.at = where], alone[p], Existing, group, admin)),
         (Starts(p) => Carries([r EXCEPT !.at = where], TRUE, Existing, group, admin))
  PROVE  Inv'
<1>0. Shapes
  BY DEF Inv
<1>1. UNCHANGED Existing
  BY DEF Existing, Present
<1>2. req' \in [Proc -> Request] /\ req'[p] = [r EXCEPT !.at = where] /\ \A q \in Proc \ {p} : req'[q] = req[q]
  BY <1>0, GotoShape
<1>3. CASE UNCHANGED alone
  <2>1. Alone(p)
    BY <1>0, <1>1, <1>2, <1>3, Marks
  <2>2. Carries(req'[p], alone'[p], Existing', group', admin')
    BY <1>1, <1>2, <1>3
  <2>3. AllCarry'
    BY <2>1, <2>2, OthersCarry DEF Inv
  <2> QED
    BY <1>1, <1>2, <1>3, <2>3 DEF Inv, Shapes, KeysHold
<1>4. CASE Starts(p)
  <2>1. Alone(p) /\ alone'[p]
    BY <1>0, <1>1, <1>2, <1>4, Marks DEF World
  <2>2. Carries(req'[p], alone'[p], Existing', group', admin')
    BY <1>1, <1>2, <1>4, <2>1
  <2>3. AllCarry'
    BY <2>1, <2>2, OthersCarry DEF Inv
  <2> QED
    BY <1>1, <1>2, <2>1, <2>3 DEF Inv, Shapes, KeysHold, Alone
<1> QED
  BY <1>3, <1>4

LEMMA Answer ==
  ASSUME Inv, NEW p \in Proc, Reply(p), UNCHANGED <<user, group, admin, history, trail>>, UNCHANGED alone \/ Starts(p)
  PROVE  Inv'
<1>1. Goto(p, "idle", Idle)
  <2>1. [Idle EXCEPT !.at = "idle"] = Idle
    BY DEF Idle
  <2> QED
    BY <2>1 DEF Reply, Goto
<1>2. [Idle EXCEPT !.at = "idle"] = Idle
  BY DEF Idle
<1> QED
  <2>1. Idle \in Request /\ "idle" \in Place
    BY IdleShape DEF Place
  <2>2. /\ Carries([Idle EXCEPT !.at = "idle"], alone[p], Existing, group, admin)
        /\ Carries([Idle EXCEPT !.at = "idle"], TRUE, Existing, group, admin)
    BY <1>2, IdleCarries
  <2> QED
    BY <1>1, <2>1, <2>2, Walk

\* The imports.
LEMMA Counts ==
  ASSUME NEW S \in SUBSET User, NEW T \in SUBSET S
  PROVE  /\ Cardinality(S \ T) \in Nat
         /\ \A u \in T : Cardinality(S \ (T \ {u})) = Cardinality(S \ T) + 1
         /\ Cardinality(S \ S) = 0
<1>1. IsFiniteSet(S \ T) /\ Cardinality(S \ T) \in Nat
  <2>1. IsFiniteSet(User) /\ S \ T \in SUBSET User
    BY DirectoryAssumption, FS_Interval DEF User
  <2> QED
    BY <2>1, FS_Subset, FS_CardinalityType
<1>2. ASSUME NEW u \in T PROVE Cardinality(S \ (T \ {u})) = Cardinality(S \ T) + 1
  <2>1. S \ (T \ {u}) = (S \ T) \cup {u} /\ u \notin S \ T
    OBVIOUS
  <2> QED
    BY <1>1, <2>1, FS_AddElement
<1>3. Cardinality(S \ S) = 0
  BY FS_EmptySet
<1> QED
  BY <1>1, <1>2, <1>3

LEMMA ImportSteps ==
  ASSUME Inv, NEW p \in Proc,
         \/ \E rows \in SUBSET User : Import(p, rows)
         \/ \E u \in User, valid \in BOOLEAN : ImportCheck(p, u, valid)
         \/ ImportDone(p)
  PROVE  Inv'
<1>0. req[p] \in Request /\ Carries(req[p], alone[p], Existing, group, admin) /\ Idle \in Request
  BY IdleShape DEF Inv, Shapes, AllCarry
<1>1. ASSUME NEW rows \in SUBSET User, Import(p, rows) PROVE Inv'
  <2> DEFINE r == [Idle EXCEPT !.set = rows, !.todo = rows]
             x == [r EXCEPT !.at = "row"]
  <2>1. r \in Request /\ x.at = "row" /\ x.set = rows /\ x.todo = rows /\ x.made = 0 /\ x.errors = 0 /\ x.op = "none"
    BY <1>0 DEF Request, Idle
  <2>2. Goto(p, "row", r) /\ Starts(p) /\ UNCHANGED <<user, group, admin, history, trail>> /\ alone'[p]
    BY <1>1 DEF Import, tables, past, Starts, Inv, Shapes
  <2> HIDE DEF r, x
  <2>a. Cardinality(rows \ rows) = 0
    BY Counts
  <2>3. \A al, ex, grp, adm : Carries(x, al, ex, grp, adm)
    BY <2>1, <2>a DEF Carries, GroupPlace
  <2> HIDE DEF x
  <2> QED
    BY <2>1, <2>2, <2>3, Walk DEF Place, x
<1>2. ASSUME NEW u \in User, NEW valid \in BOOLEAN, ImportCheck(p, u, valid) PROVE Inv'
  <2> DEFINE r == [req[p] EXCEPT !.todo = @ \ {u}, !.u = u]
             e == [r EXCEPT !.errors = @ + 1, !.u = NoUser]
  <2>1. At(p, "row") /\ u \in req[p].todo /\ UNCHANGED <<user, group, admin, history, trail, alone>>
        /\ (Goto(p, "insert", r) \/ Goto(p, "row", e))
    BY <1>2 DEF ImportCheck, tables, past
  <2>2. /\ req[p].todo \subseteq req[p].set /\ req[p].set \subseteq User /\ req[p].op \notin {"group", "patchGroup"}
        /\ Cardinality(req[p].set \ req[p].todo) = req[p].made + req[p].errors
    BY <1>0, <2>1 DEF Carries, At, GroupPlace
  <2>a. Cardinality(req[p].set \ (req[p].todo \ {u})) = req[p].made + req[p].errors + 1 /\ req[p].made \in Nat /\ req[p].errors \in Nat
    <3>1. Cardinality(req[p].set \ (req[p].todo \ {u})) = Cardinality(req[p].set \ req[p].todo) + 1
      BY <2>1, <2>2, Counts
    <3> QED
      BY <1>0, <2>2, <3>1 DEF Request
  <2>b. u \in 0..Users /\ NoUser \in 0..Users
    BY DirectoryAssumption DEF User, NoUser
  <2>3. CASE Goto(p, "insert", r)
    <3> DEFINE x == [r EXCEPT !.at = "insert"]
    <3>1. r \in Request /\ x.at = "insert" /\ x.set = req[p].set /\ x.todo = req[p].todo \ {u} /\ x.u = u
          /\ x.made = req[p].made /\ x.errors = req[p].errors /\ x.op = req[p].op
      BY <1>0, <2>b DEF Request
    <3> HIDE DEF r
    <3>2. \A al, ex, grp, adm : Carries(x, al, ex, grp, adm)
      BY <2>1, <2>2, <2>a, <3>1 DEF Carries, GroupPlace
    <3> HIDE DEF x
    <3> QED
      BY <2>1, <2>3, <3>1, <3>2, Walk DEF Place, x
  <2>4. CASE Goto(p, "row", e)
    <3> DEFINE x == [e EXCEPT !.at = "row"]
    <3>0. r \in Request /\ r.set = req[p].set /\ r.todo = req[p].todo \ {u} /\ r.errors = req[p].errors
          /\ r.made = req[p].made /\ r.op = req[p].op
      BY <1>0, <2>b DEF Request
    <3> HIDE DEF r
    <3>a. r.errors + 1 \in Nat
      BY <1>0, <3>0 DEF Request
    <3>1. e \in Request /\ x.at = "row" /\ x.set = r.set /\ x.todo = r.todo
          /\ x.made = r.made /\ x.errors = r.errors + 1 /\ x.op = r.op
      BY <3>0, <3>a, <2>b DEF Request
    <3> HIDE DEF e
    <3> HIDE DEF x
    <3>b. Cardinality(x.set \ x.todo) = x.made + x.errors /\ x.todo \subseteq x.set /\ x.set \subseteq User
      BY <2>2, <2>a, <3>0, <3>1
    <3>2. \A al, ex, grp, adm : Carries(x, al, ex, grp, adm)
      BY <2>2, <3>0, <3>1, <3>b DEF Carries, GroupPlace
    <3> QED
      BY <2>1, <2>4, <3>1, <3>2, Walk DEF Place, x
  <2> QED
    BY <2>1, <2>3, <2>4
<1>3. CASE ImportDone(p)
  BY <1>3, Answer DEF ImportDone, tables, past
<1> QED
  BY <1>1, <1>2, <1>3

\* The exports.
LEMMA ExportSteps ==
  ASSUME Inv, NEW p \in Proc, Export(p) \/ ExportPage(p) \/ ExportDone(p)
  PROVE  Inv'
<1>0. req[p] \in Request /\ Carries(req[p], alone[p], Existing, group, admin) /\ Idle \in Request /\ Existing \in SUBSET User
  BY IdleShape DEF Inv, Shapes, AllCarry, Existing
<1>1. CASE Export(p)
  <2> DEFINE x == [Idle EXCEPT !.at = "page"]
  <2>1. x.at = "page" /\ x.set = {} /\ x.todo = {} /\ x.page = 1 /\ x.op = "none"
    BY DEF Idle
  <2>2. Goto(p, "page", Idle) /\ Starts(p) /\ UNCHANGED <<user, group, admin, history, trail>>
    BY <1>1 DEF Export, tables, past
  <2>3. (x.page - 1) * PageSize = 0
    BY <2>1, DirectoryAssumption
  <2>b. Within(Existing, 0) = {}
    <3>1. 1 \in Nat \ {0}
      OBVIOUS
    <3> QED
      BY <1>0, <3>1, Paging
  <2> HIDE DEF x
  <2>4. \A al, grp, adm : Carries(x, al, Existing, grp, adm)
    BY <2>1, <2>3, <2>b, DirectoryAssumption DEF Carries, GroupPlace
  <2> QED
    BY <1>0, <2>2, <2>4, Walk DEF Place, x
<1>2. CASE ExportPage(p)
  <2> DEFINE k == req[p].page
             rows == Listed(Existing, k)
             r == [req[p] EXCEPT !.set = @ \cup rows, !.todo = @ \cup (req[p].set \cap rows), !.page = @ + 1]
  <2>1. At(p, "page") /\ Goto(p, IF LastPage(rows, k) THEN "exported" ELSE "page", r)
        /\ UNCHANGED <<user, group, admin, history, trail, alone>>
    BY <1>2 DEF ExportPage, tables, past
  <2>2. k \in Nat \ {0} /\ k <= MaxPages /\ req[p].set \subseteq User /\ req[p].op \notin {"group", "patchGroup"}
        /\ (alone[p] => req[p].set = Within(Existing, (k - 1) * PageSize) /\ req[p].todo = {})
    BY <1>0, <2>1 DEF Carries, At, GroupPlace
  <2>3. /\ Within(Existing, (k - 1) * PageSize) \cup rows = Within(Existing, k * PageSize)
        /\ Within(Existing, (k - 1) * PageSize) \cap rows = {}
        /\ LastPage(rows, k) => Within(Existing, k * PageSize) = Within(Existing, MaxPages * PageSize)
        /\ rows \subseteq Existing
    BY <1>0, <2>2, Paging
  <2> HIDE DEF rows
  <2>4. r \in Request /\ r.set = req[p].set \cup rows /\ r.todo = req[p].todo \cup (req[p].set \cap rows)
        /\ r.page = k + 1 /\ r.op = req[p].op
    <3>1. k + 1 \in Nat \cup Group /\ req[p].set \cup rows \in SUBSET (User \cup Group)
          /\ req[p].todo \cup (req[p].set \cap rows) \in SUBSET User
      BY <1>0, <2>2, <2>3 DEF Request
    <3> QED
      BY <1>0, <3>1 DEF Request
  <2>5. alone[p] => r.set = Within(Existing, k * PageSize) /\ r.todo = {}
    BY <2>2, <2>3, <2>4
  <2>6. /\ r.page \in Nat \ {0} /\ r.page - 1 = k /\ r.set \subseteq User
        /\ ~LastPage(rows, k) => r.page <= MaxPages
    BY <1>0, <2>2, <2>3, <2>4, DirectoryAssumption DEF LastPage
  <2> HIDE DEF r, k
  <2>7. ASSUME NEW where \in {"exported", "page"}, where = IF LastPage(rows, k) THEN "exported" ELSE "page"
        PROVE  Carries([r EXCEPT !.at = where], alone[p], Existing, group, admin)
    <3> DEFINE x == [r EXCEPT !.at = where]
    <3>1. x.at = where /\ x.set = r.set /\ x.todo = r.todo /\ x.page = r.page /\ x.op = r.op
      BY <2>4 DEF Request
    <3> HIDE DEF x
    <3>2. Carries(x, alone[p], Existing, group, admin)
      BY <2>2, <2>3, <2>4, <2>5, <2>6, <2>7, <3>1 DEF Carries, GroupPlace
    <3> QED
      BY <3>2 DEF x
  <2>c. "exported" \in Place /\ "page" \in Place /\ (Starts(p) => alone'[p] = TRUE)
    BY DEF Place, Starts, Inv, Shapes
  <2>8. CASE LastPage(rows, k)
    <3>1. Goto(p, "exported", r) /\ Carries([r EXCEPT !.at = "exported"], alone[p], Existing, group, admin)
      BY <2>1, <2>7, <2>8
    <3> QED
      BY <2>1, <2>4, <3>1, Walk, <2>c
  <2>9. CASE ~LastPage(rows, k)
    <3>1. Goto(p, "page", r) /\ Carries([r EXCEPT !.at = "page"], alone[p], Existing, group, admin)
      BY <2>1, <2>7, <2>9
    <3> QED
      BY <2>1, <2>4, <3>1, Walk, <2>c
  <2> QED
    BY <2>8, <2>9
<1>3. CASE ExportDone(p)
  BY <1>3, Answer DEF ExportDone, tables, past
<1> QED
  BY <1>1, <1>2, <1>3

\* Managers.
LEMMA ScopeSteps ==
  ASSUME Inv, NEW p \in Proc, (\E op \in ScopedOp, u \in User : ResolveScope(p, op, u)) \/ RowScope(p)
  PROVE  Inv'
<1>0. req[p] \in Request /\ Carries(req[p], alone[p], Existing, group, admin) /\ Idle \in Request
  BY IdleShape DEF Inv, Shapes, AllCarry
<1>1. ASSUME NEW op \in ScopedOp, NEW u \in User, ResolveScope(p, op, u) PROVE Inv'
  <2> DEFINE d == DepartmentIds(Manager)
             r == [Idle EXCEPT !.op = op, !.u = u, !.set = d]
             x == [r EXCEPT !.at = "guard"]
  <2>1. Goto(p, "guard", r) /\ Starts(p) /\ UNCHANGED <<user, group, admin, history, trail>>
    BY <1>1 DEF ResolveScope, tables, past
  <2>2. d = {g \in Group : group[g].dept /\ Manager \in group[g].members} /\ d \in SUBSET (User \cup Group)
    BY DEF DepartmentIds
  <2>3. op \in Op /\ op \notin {"group", "patchGroup"} /\ u \in 0..Users
    BY DirectoryAssumption DEF ScopedOp, Op, User
  <2> HIDE DEF d
  <2>4. r \in Request /\ x.at = "guard" /\ x.op = op /\ x.u = u /\ x.set = d
    BY <1>0, <2>2, <2>3 DEF Request, Idle
  <2> HIDE DEF r, x
  <2>5. \A al : Carries(x, al, Existing, group, admin)
    BY <2>2, <2>3, <2>4 DEF Carries, GroupPlace
  <2> QED
    BY <2>1, <2>4, <2>5, Walk DEF Place, x
<1>2. CASE RowScope(p)
  <2> DEFINE x == [req[p] EXCEPT !.at = "write"]
  <2>1. At(p, "guard") /\ UNCHANGED <<user, group, admin, history, trail>> /\ UNCHANGED alone
    BY <1>2 DEF RowScope, tables, past
  <2>2. /\ req[p].u \in User /\ req[p].op \in ScopedOp
        /\ alone[p] => req[p].set = {g \in Group : group[g].dept /\ Manager \in group[g].members}
    BY <1>0, <2>1 DEF Carries, At
  <2>3. CASE req[p].u \in Visible(Manager, req[p].set)
    <3>1. Goto(p, "write", req[p])
      BY <1>2, <2>3 DEF RowScope
    <3>2. alone[p] => req[p].u = Manager \/ \E g \in Group : group[g].dept /\ {req[p].u, Manager} \subseteq group[g].members
      BY <2>2, <2>3 DEF Visible
    <3>3. x.at = "write" /\ x.op = req[p].op /\ x.u = req[p].u
      BY <1>0 DEF Request
    <3> HIDE DEF x
    <3>4. Carries(x, alone[p], Existing, group, admin)
      BY <2>2, <3>2, <3>3 DEF Carries, GroupPlace, ScopedOp
    <3>5. Starts(p) => alone[p] = TRUE
      BY <2>1 DEF Starts, Inv, Shapes
    <3> QED
      BY <1>0, <2>1, <3>1, <3>4, <3>5, Walk DEF Place, x
  <2>4. CASE req[p].u \notin Visible(Manager, req[p].set)
    BY <1>2, <2>1, <2>4, Answer DEF RowScope
  <2> QED
    BY <2>3, <2>4
<1> QED
  BY <1>1, <1>2

\* A request about one user that starts.
LEMMA StartsOn ==
  ASSUME Inv, NEW p \in Proc, NEW u \in User, NEW op \in {"none", "suspended", "active"}, NEW where \in {"patch", "scimWrite"},
         where = "scimWrite" => op # "none",
         Goto(p, where, [Idle EXCEPT !.u = u, !.op = op]), Starts(p), UNCHANGED <<user, group, admin, history, trail>>
  PROVE  Inv'
<1> DEFINE r == [Idle EXCEPT !.u = u, !.op = op]
           x == [r EXCEPT !.at = where]
<1>1. op \in Op /\ u \in 0..Users
  BY DirectoryAssumption DEF Op, User
<1>2. r \in Request /\ x.at = where /\ x.op = op /\ x.u = u
  BY <1>1, IdleShape DEF Request, Idle
<1>3. Goto(p, where, r)
  OBVIOUS
<1> HIDE DEF r, x
<1>4. \A al, ex, grp, adm : Carries(x, al, ex, grp, adm)
  BY <1>2 DEF Carries, GroupPlace
<1> QED
  BY <1>2, <1>3, <1>4, Walk DEF Place, x

LEMMA ScimReads ==
  ASSUME Inv, NEW p \in Proc,
         \/ \E u \in User : ScimFind(p, u) \/ ScimDelete(p, u) \/ ScimPatch(p, u)
         \/ \E u \in User, active \in BOOLEAN : ScimPut(p, u, active)
         \/ PatchDone(p)
  PROVE  Inv'
<1>1. ASSUME NEW u \in User, ScimFind(p, u) PROVE Inv'
  <2> DEFINE r == [Idle EXCEPT !.u = u, !.set = {u}]
             x == [r EXCEPT !.at = "insert"]
  <2>1. Goto(p, "insert", r) /\ Starts(p) /\ UNCHANGED <<user, group, admin, history, trail>>
    BY <1>1 DEF ScimFind, tables, past
  <2>2. {u} \in SUBSET (User \cup Group) /\ u \in 0..Users
    BY DirectoryAssumption DEF User
  <2>3. r \in Request /\ x.at = "insert" /\ x.op = "none" /\ x.u = u /\ x.set = {u} /\ x.todo = {} /\ x.made = 0 /\ x.errors = 0
    BY <2>2, IdleShape DEF Request, Idle
  <2>4. Cardinality({u} \ {}) = 1
    BY FS_Singleton
  <2> HIDE DEF r, x
  <2>5. \A al, ex, grp, adm : Carries(x, al, ex, grp, adm)
    BY <2>3, <2>4 DEF Carries, GroupPlace
  <2> QED
    BY <2>1, <2>3, <2>5, Walk DEF Place, x
<1>2. ASSUME NEW u \in User, ScimDelete(p, u) PROVE Inv'
  BY <1>2, StartsOn DEF ScimDelete, tables, past
<1>3. ASSUME NEW u \in User, ScimPatch(p, u) PROVE Inv'
  <2>0. \A r \in Request : r.op = "none" => [r EXCEPT !.u = u] = [r EXCEPT !.u = u, !.op = "none"]
    BY DEF Request
  <2>1. [Idle EXCEPT !.u = u] = [Idle EXCEPT !.u = u, !.op = "none"]
    BY <2>0, IdleShape
  <2>2. Goto(p, "patch", [Idle EXCEPT !.u = u, !.op = "none"]) /\ Starts(p) /\ UNCHANGED <<user, group, admin, history, trail>>
    BY <1>3, <2>1 DEF ScimPatch, tables, past
  <2> QED
    BY <2>2, StartsOn
<1>4. ASSUME NEW u \in User, NEW active \in BOOLEAN, ScimPut(p, u, active) PROVE Inv'
  <2>1. \/ Goto(p, "scimWrite", [Idle EXCEPT !.u = u, !.op = "suspended"])
        \/ Goto(p, "scimWrite", [Idle EXCEPT !.u = u, !.op = "active"])
    BY <1>4 DEF ScimPut
  <2>2. Starts(p) /\ UNCHANGED <<user, group, admin, history, trail>>
    BY <1>4 DEF ScimPut, tables, past
  <2> QED
    BY <2>1, <2>2, StartsOn
<1>5. CASE PatchDone(p)
  BY <1>5, Answer DEF PatchDone, tables, past
<1> QED
  BY <1>1, <1>2, <1>3, <1>4, <1>5

\* Groups of SCIM clients.
LEMMA GroupReads ==
  ASSUME Inv, NEW p \in Proc,
         \/ \E g \in Group, refs \in SUBSET User : ScimCreateGroup(p, g, refs)
         \/ \E g \in Group, op \in {"putGroup", "patchGroup", "deleteGroup"} : ScimGroupOp(p, g, op)
         \/ \E refs \in SUBSET User : ReplaceMembers(p, refs)
         \/ \E u \in User, add \in BOOLEAN : PatchMember(p, u, add)
         \/ MembersDone(p) \/ Refused(p) \/ PatchGroupDone(p)
  PROVE  Inv'
<1>0. req[p] \in Request /\ Carries(req[p], alone[p], Existing, group, admin) /\ Idle \in Request
  BY IdleShape DEF Inv, Shapes, AllCarry
<1>a. "group" \in Op /\ "patchGroup" \in Op /\ 1 \in Nat
  BY DEF Op
<1>1. ASSUME NEW g \in Group, NEW refs \in SUBSET User, ScimCreateGroup(p, g, refs) PROVE Inv'
  <2> DEFINE r == [Idle EXCEPT !.op = "group", !.page = g, !.set = refs]
             x == [r EXCEPT !.at = "make"]
  <2>1. Starts(p) /\ UNCHANGED <<user, group, admin, history, trail>>
    BY <1>1 DEF ScimCreateGroup, tables, past
  <2>2. r \in Request /\ x.at = "make" /\ x.op = "group" /\ x.page = g /\ x.set = refs
    BY <1>0, <1>a DEF Request, Idle
  <2>3. CASE UnknownMembers(refs)
    BY <1>1, <2>1, <2>3, Answer DEF ScimCreateGroup
  <2>4. CASE ~UnknownMembers(refs)
    <3>1. Goto(p, "make", r)
      BY <1>1, <2>4 DEF ScimCreateGroup
    <3>2. refs \subseteq Existing
      BY <2>4 DEF UnknownMembers
    <3> HIDE DEF r, x
    <3>3. \A al : Carries(x, al, Existing, group, admin)
      BY <2>2, <3>2 DEF Carries, GroupPlace
    <3> QED
      BY <2>1, <2>2, <3>1, <3>3, Walk DEF Place, x
  <2> QED
    BY <2>3, <2>4
<1>2. ASSUME NEW g \in Group, NEW op \in {"putGroup", "patchGroup", "deleteGroup"}, ScimGroupOp(p, g, op) PROVE Inv'
  <2> DEFINE r == [Idle EXCEPT !.op = "group", !.page = g]
             x == [r EXCEPT !.at = op]
  <2>1. Goto(p, op, r) /\ Starts(p) /\ UNCHANGED <<user, group, admin, history, trail>> /\ ~group[g].bound
    BY <1>2 DEF ScimGroupOp, tables, past, SystemBoundBlock
  <2>2. r \in Request /\ x.at = op /\ x.op = "group" /\ x.page = g /\ x.set = {}
    BY <1>0, <1>a DEF Request, Idle
  <2> HIDE DEF r, x
  <2>3. \A al : Carries(x, al, Existing, group, admin)
    BY <2>1, <2>2 DEF Carries, GroupPlace
  <2> QED
    BY <2>1, <2>2, <2>3, Walk DEF Place, x
<1>3. ASSUME NEW refs \in SUBSET User, ReplaceMembers(p, refs) PROVE Inv'
  <2> DEFINE g == req[p].page
             t == (group[g].members \ refs) \cup (refs \ group[g].members)
             r == [req[p] EXCEPT !.set = refs, !.made = 1, !.todo = t]
             x == [r EXCEPT !.at = "members"]
  <2>1. /\ At(p, "putGroup") \/ At(p, "patchGroup")
        /\ UNCHANGED <<user, group, admin, history, trail>> /\ UNCHANGED alone
    BY <1>3 DEF ReplaceMembers, tables, past
  <2>2. g \in Group /\ req[p].op = "group" /\ (alone[p] => ~group[g].bound)
    BY <1>0, <2>1 DEF Carries, At, GroupPlace
  <2>3. t \in SUBSET User /\ refs \in SUBSET (User \cup Group)
    BY <2>2 DEF Inv, Shapes, GroupRow
  <2>4. CASE UnknownMembers(refs) \/ ~There(g)
    BY <1>3, <2>1, <2>4, Answer DEF ReplaceMembers
  <2>5. CASE ~(UnknownMembers(refs) \/ ~There(g))
    <3>1. Goto(p, "members", r) /\ refs \subseteq Existing /\ group[g].there
      BY <1>3, <2>5 DEF ReplaceMembers, UnknownMembers, There
    <3> HIDE DEF t
    <3>2. r \in Request /\ x.at = "members" /\ x.op = "group" /\ x.page = g /\ x.set = refs
      BY <1>0, <1>a, <2>2, <2>3 DEF Request
    <3> HIDE DEF r, x, g
    <3>3. Carries(x, alone[p], Existing, group, admin)
      BY <2>2, <3>1, <3>2 DEF Carries, GroupPlace
    <3>4. Starts(p) => alone[p] = TRUE
      BY <2>1 DEF Starts, Inv, Shapes
    <3> QED
      BY <2>1, <3>1, <3>2, <3>3, <3>4, Walk DEF Place, x
  <2> QED
    BY <2>4, <2>5
<1>4. ASSUME NEW u \in User, NEW add \in BOOLEAN, PatchMember(p, u, add) PROVE Inv'
  <2> DEFINE s == IF add THEN {u} ELSE {}
             r == [req[p] EXCEPT !.todo = {u}, !.set = s, !.op = "patchGroup"]
             x == [r EXCEPT !.at = "members"]
  <2>1. /\ At(p, "patchGroup") /\ Goto(p, "members", r)
        /\ UNCHANGED <<user, group, admin, history, trail>> /\ UNCHANGED alone
    BY <1>4 DEF PatchMember, tables, past
  <2>2. req[p].page \in Group /\ (alone[p] => ~group[req[p].page].bound)
    BY <1>0, <2>1 DEF Carries, At, GroupPlace
  <2>3. s \in SUBSET User /\ s \in SUBSET (User \cup Group) /\ {u} \in SUBSET User
    OBVIOUS
  <2> HIDE DEF s
  <2>4. r \in Request /\ x.at = "members" /\ x.op = "patchGroup" /\ x.page = req[p].page /\ x.set = s
    BY <1>0, <1>a, <2>3 DEF Request
  <2> HIDE DEF r, x
  <2>5. Carries(x, alone[p], Existing, group, admin)
    BY <2>2, <2>3, <2>4 DEF Carries, GroupPlace
  <2>6. Starts(p) => alone[p] = TRUE
    BY <2>1 DEF Starts, Inv, Shapes
  <2> QED
    BY <2>1, <2>4, <2>5, <2>6, Walk DEF Place, x
<1>5. CASE MembersDone(p)
  <2> DEFINE r == [req[p] EXCEPT !.op = "group", !.set = {}]
             x == [r EXCEPT !.at = "patchGroup"]
  <2>1. At(p, "members") /\ UNCHANGED <<user, group, admin, history, trail>> /\ UNCHANGED alone
        /\ (Goto(p, "patchGroup", r) \/ Reply(p))
    BY <1>5 DEF MembersDone, tables, past
  <2>2. req[p].page \in Group /\ (alone[p] => ~group[req[p].page].bound)
    BY <1>0, <2>1 DEF Carries, At, GroupPlace
  <2>3. r \in Request /\ x.at = "patchGroup" /\ x.op = "group" /\ x.page = req[p].page /\ x.set = {}
    BY <1>0, <1>a DEF Request
  <2> HIDE DEF r, x
  <2>4. Carries(x, alone[p], Existing, group, admin)
    BY <2>2, <2>3 DEF Carries, GroupPlace
  <2>5. Starts(p) => alone[p] = TRUE
    BY <2>1 DEF Starts, Inv, Shapes
  <2>6. CASE Goto(p, "patchGroup", r)
    BY <2>1, <2>3, <2>4, <2>5, <2>6, Walk DEF Place, x
  <2>7. CASE Reply(p)
    BY <2>1, <2>7, Answer
  <2> QED
    BY <2>1, <2>6, <2>7
<1>6. CASE Refused(p)
  BY <1>6, Answer DEF Refused, tables, past
<1>7. CASE PatchGroupDone(p)
  BY <1>7, Answer DEF PatchGroupDone, tables, past
<1> QED
  BY <1>1, <1>2, <1>3, <1>4, <1>5, <1>6, <1>7

\* The start of a bootstrap, of a rotation, and errors.
LEMMA OtherReads ==
  ASSUME Inv, NEW p \in Proc, (\E u \in User : Bootstrap(p, u)) \/ Fail(p)
  PROVE  Inv'
<1>1. ASSUME NEW u \in User, Bootstrap(p, u) PROVE Inv'
  <2> DEFINE n == IF Present(u) THEN 1 ELSE 0
             r == [Idle EXCEPT !.u = u, !.made = n]
             x == [r EXCEPT !.at = "bootstrap"]
  <2>1. Starts(p) /\ UNCHANGED <<user, group, admin, history, trail>>
    BY <1>1 DEF Bootstrap, tables, past
  <2>2. n \in Nat /\ (n = 1 => Present(u)) /\ u \in 0..Users
    BY DirectoryAssumption DEF User
  <2>3. CASE ~Present(u) \/ Replays(u)
    <3>1. Goto(p, "bootstrap", r)
      BY <1>1, <2>3 DEF Bootstrap
    <3>2. n = 1 => u \in admin
      BY <2>2, <2>3 DEF Replays
    <3> HIDE DEF n
    <3>3. r \in Request /\ x.at = "bootstrap" /\ x.op = "none" /\ x.u = u /\ x.made = n
      BY <2>2, IdleShape DEF Request, Idle
    <3> HIDE DEF r, x
    <3>4. \A al : Carries(x, al, Existing, group, admin)
      BY <3>2, <3>3 DEF Carries, GroupPlace
    <3> QED
      BY <2>1, <3>1, <3>3, <3>4, Walk DEF Place, x
  <2>4. CASE ~(~Present(u) \/ Replays(u))
    BY <1>1, <2>1, <2>4, Answer DEF Bootstrap
  <2> QED
    BY <2>3, <2>4
<1>2. CASE Fail(p)
  BY <1>2, Answer DEF Fail, tables
<1> QED
  BY <1>1, <1>2

-----------------------------------------------------------------------------
(* Steps that change rows *)

\* A step of one request: what is left to show is what it did to the rows, and what it carries.
LEMMA Acts ==
  ASSUME Inv, NEW p \in Proc, req' \in [Proc -> Request], \A q \in Proc \ {p} : req'[q] = req[q],
         WroteBy(p) \/ UNCHANGED <<alone, Existing, group, admin>>,
         user' \in [User -> UserRow], group' \in [Group -> GroupRow], admin' \in SUBSET User,
         history' \in [User -> Seq(1..MaxPw)], trail' \in [User -> Seq(0..MaxPw)], KeysHold',
         Carries(req'[p], alone[p], Existing', group', admin')
  PROVE  Inv'
<1>0. Shapes
  BY DEF Inv
<1>1. Alone(p) /\ alone'[p] = alone[p]
  BY <1>0, Marks
<1>2. AllCarry'
  BY <1>1, OthersCarry DEF Inv
<1>3. alone' \in [Proc -> BOOLEAN]
  BY <1>1 DEF Alone
<1> QED
  BY <1>2, <1>3 DEF Inv, Shapes

\* A write to the rows of one user, who existed before and still does.
LEMMA SameUsers ==
  ASSUME user' \in [User -> UserRow], \A v \in User : Present(v) <=> Present(v)'
  PROVE  Existing' = Existing
  BY DEF Existing

LEMMA SameKeys ==
  ASSUME KeysHold, UNCHANGED <<group, admin>>, Existing \subseteq Existing'
  PROVE  KeysHold'
  BY DEF KeysHold

\* A user who did not exist.
LEMMA OneMore ==
  ASSUME Inv, NEW u \in User, NEW pw \in 0..MaxPw, user[u].status = "none", user' = [user EXCEPT ![u] = Created(pw)]
  PROVE  user' \in [User -> UserRow] /\ Existing' = Existing \cup {u} /\ u \in Existing'
<1>1. user' \in [User -> UserRow] /\ (\A v \in User \ {u} : user'[v] = user[v]) /\ user'[u].status = "active"
  BY CreateWrite DEF Inv
<1> QED
  BY <1>1 DEF Existing, Present

LEMMA CreateSteps ==
  ASSUME Inv, NEW p \in Proc, (\E u \in User, pw \in {0, 1} : CreateUser(p, u, pw)) \/ ImportInsert(p)
  PROVE  Inv'
<1>0. req[p] \in Request /\ Carries(req[p], alone[p], Existing, group, admin) /\ req \in [Proc -> Request]
      /\ history \in [User -> Seq(1..MaxPw)] /\ trail \in [User -> Seq(0..MaxPw)]
      /\ group \in [Group -> GroupRow] /\ admin \in SUBSET User /\ KeysHold
  BY DEF Inv, Shapes, AllCarry
<1>1. ASSUME NEW u \in User, NEW pw \in {0, 1}, CreateUser(p, u, pw) PROVE Inv'
  <2>1. /\ At(p, "idle") /\ user[u].status = "none" /\ user' = [user EXCEPT ![u] = Created(pw)] /\ WroteBy(p)
        /\ UNCHANGED <<history, group, admin, req, trail>>
    BY <1>1 DEF CreateUser, past
  <2>2. pw \in 0..MaxPw
    BY DirectoryAssumption
  <2>3. user' \in [User -> UserRow] /\ Existing \subseteq Existing'
    BY <2>1, <2>2, OneMore
  <2>4. KeysHold'
    BY <1>0, <2>1, <2>3, SameKeys
  <2>5. Carries(req'[p], alone[p], Existing', group', admin')
    BY <1>0, <2>1 DEF Carries, At, GroupPlace
  <2> QED
    BY <1>0, <2>1, <2>3, <2>4, <2>5, Acts
<1>2. CASE ImportInsert(p)
  <2> DEFINE u == req[p].u
             r == [req[p] EXCEPT !.u = NoUser]
             y == [r EXCEPT !.made = @ + 1]
             n == RefusedRow(r)
  <2>1. /\ At(p, "insert") /\ UNCHANGED <<history, group, admin, trail>>
        /\ \/ user[u].status = "none" /\ user' = [user EXCEPT ![u] = Created(1)] /\ WroteBy(p) /\ Goto(p, "row", y)
           \/ Goto(p, "row", n) /\ UNCHANGED <<user, alone>>
    BY <1>2 DEF ImportInsert, past
  <2>2. /\ req[p].todo \subseteq req[p].set /\ req[p].set \subseteq User /\ u \in User
        /\ Cardinality(req[p].set \ req[p].todo) = req[p].made + req[p].errors + 1
        /\ req[p].op \notin {"group", "patchGroup"}
    BY <1>0, <2>1 DEF Carries, At, GroupPlace
  <2>3. /\ r \in Request /\ r.set = req[p].set /\ r.todo = req[p].todo /\ r.made = req[p].made
        /\ r.errors = req[p].errors /\ r.op = req[p].op
    <3>1. NoUser \in 0..Users
      BY DirectoryAssumption DEF NoUser
    <3> QED
      BY <1>0, <3>1 DEF Request
  <2>4. r.made \in Nat /\ r.errors \in Nat
    BY <2>3 DEF Request
  <2> HIDE DEF r
  <2>5. /\ y \in Request /\ y.set = r.set /\ y.todo = r.todo /\ y.made = r.made + 1 /\ y.errors = r.errors /\ y.op = r.op
        /\ n \in Request /\ n.set = r.set /\ n.todo = r.todo /\ n.made = r.made /\ n.errors = r.errors + 1 /\ n.op = r.op
    BY <2>3, <2>4 DEF Request, RefusedRow
  <2> HIDE DEF y, n
  <2>6. ASSUME NEW z \in {y, n} PROVE \A al, ex, grp, adm : Carries([z EXCEPT !.at = "row"], al, ex, grp, adm)
    <3> DEFINE x == [z EXCEPT !.at = "row"]
    <3>1. x.at = "row" /\ x.set = z.set /\ x.todo = z.todo /\ x.made = z.made /\ x.errors = z.errors /\ x.op = z.op
      BY <2>5 DEF Request
    <3>2. Cardinality(x.set \ x.todo) = x.made + x.errors /\ x.todo \subseteq x.set /\ x.set \subseteq User
          /\ x.op \notin {"group", "patchGroup"}
      <4>1. z.made + z.errors = r.made + r.errors + 1 /\ z.set = r.set /\ z.todo = r.todo /\ z.op = r.op
        BY <2>4, <2>5
      <4> QED
        BY <2>2, <2>3, <3>1, <4>1
    <3> HIDE DEF x
    <3>3. \A al, ex, grp, adm : Carries(x, al, ex, grp, adm)
      BY <3>1, <3>2 DEF Carries, GroupPlace
    <3> QED
      BY <3>3 DEF x
  <2>7. CASE user[u].status = "none" /\ user' = [user EXCEPT ![u] = Created(1)] /\ WroteBy(p) /\ Goto(p, "row", y)
    <3>0. 1 \in 0..MaxPw /\ "row" \in Place
      BY DirectoryAssumption DEF Place
    <3>1. user' \in [User -> UserRow] /\ Existing \subseteq Existing'
      BY <2>2, <2>7, <3>0, OneMore
    <3>2. KeysHold'
      BY <1>0, <2>1, <3>1, SameKeys
    <3>3. /\ req' \in [Proc -> Request] /\ \A q \in Proc \ {p} : req'[q] = req[q]
          /\ req'[p] = [y EXCEPT !.at = "row"]
      BY <2>5, <2>7, <3>0, GotoShape DEF Inv
    <3>4. Carries(req'[p], alone[p], Existing', group', admin')
      BY <2>6, <3>3
    <3> QED
      BY <1>0, <2>1, <2>7, <3>1, <3>2, <3>3, <3>4, Acts
  <2>8. CASE Goto(p, "row", n) /\ UNCHANGED <<user, alone>>
    BY <2>1, <2>5, <2>6, <2>8, Walk DEF Place
  <2> QED
    BY <2>1, <2>7, <2>8
<1> QED
  BY <1>1, <1>2

LEMMA StatusStep ==
  ASSUME Inv, NEW p \in Proc, NEW u \in User, NEW s \in {"active", "suspended", "pending"}, NEW next \in {"done", "patch"},
         next = "patch" => At(p, "patch"), Status(p, u, s, next)
  PROVE  Inv'
<1>0. req[p] \in Request /\ Carries(req[p], alone[p], Existing, group, admin) /\ req \in [Proc -> Request]
      /\ history \in [User -> Seq(1..MaxPw)] /\ trail \in [User -> Seq(0..MaxPw)]
      /\ group \in [Group -> GroupRow] /\ admin \in SUBSET User /\ KeysHold /\ Shapes
  BY DEF Inv, Shapes, AllCarry
<1>1. CASE ~Present(u)
  BY <1>1, Answer DEF Status, past
<1>2. CASE Present(u)
  <2> DEFINE r == [req[p] EXCEPT !.u = u, !.op = next]
  <2>1. /\ user' = [user EXCEPT ![u].status = s] /\ WroteBy(p) /\ UNCHANGED <<history, group, admin, trail>>
        /\ \/ Goto(p, "revoke", r)
           \/ next = "patch" /\ Goto(p, "patch", req[p])
           \/ Reply(p)
    BY <1>2 DEF Status, past
  <2>2. user' \in [User -> UserRow] /\ Existing' = Existing
    <3>1. /\ user' \in [User -> UserRow] /\ \A v \in User \ {u} : user'[v] = user[v]
          /\ user'[u].status = s
      BY <1>0, <2>1, StatusWrite DEF Status5
    <3>2. \A v \in User : Present(v) <=> Present(v)'
      BY <1>2, <3>1 DEF Present
    <3> QED
      BY <3>1, <3>2, SameUsers
  <2>3. KeysHold'
    BY <1>0, <2>1, <2>2, SameKeys
  <2>4. /\ req' \in [Proc -> Request] /\ \A q \in Proc \ {p} : req'[q] = req[q]
        /\ Carries(req'[p], alone[p], Existing', group', admin')
    <3>a. u \in 0..Users /\ next \in Op
      BY DirectoryAssumption DEF User, Op
    <3>1. CASE Goto(p, "revoke", r)
      <4>1. r \in Request /\ r.u = u /\ r.op = next
        BY <1>0, <3>a DEF Request
      <4> HIDE DEF r
      <4>2. /\ req' \in [Proc -> Request] /\ \A q \in Proc \ {p} : req'[q] = req[q]
            /\ req'[p].at = "revoke" /\ req'[p].u = u /\ req'[p].op = next
        BY <1>0, <3>1, <4>1, GotoShape DEF Place
      <4> QED
        BY <4>2 DEF Carries, GroupPlace
    <3>2. CASE next = "patch" /\ Goto(p, "patch", req[p])
      <4>1. /\ req' \in [Proc -> Request] /\ \A q \in Proc \ {p} : req'[q] = req[q]
            /\ req'[p].at = "patch" /\ req'[p].u = req[p].u /\ req'[p].op = req[p].op
        BY <1>0, <3>2, GotoShape DEF Place
      <4>2. req[p].at = "patch"
        BY <3>2 DEF At
      <4> QED
        BY <1>0, <4>1, <4>2 DEF Carries, GroupPlace
    <3>3. CASE Reply(p)
      BY <1>0, <3>3, ReplyShape, IdleCarries
    <3> QED
      BY <2>1, <3>1, <3>2, <3>3
  <2> QED
    BY <1>0, <2>1, <2>2, <2>3, <2>4, Acts
<1> QED
  BY <1>1, <1>2

LEMMA DeleteStep ==
  ASSUME Inv, NEW p \in Proc, NEW u \in User, Delete(p, u)
  PROVE  Inv'
<1>0. history \in [User -> Seq(1..MaxPw)] /\ trail \in [User -> Seq(0..MaxPw)]
      /\ group \in [Group -> GroupRow] /\ admin \in SUBSET User /\ KeysHold /\ Shapes
  BY DEF Inv, Shapes
<1>1. CASE ~Present(u)
  BY <1>1, Answer DEF Delete, past
<1>2. CASE Present(u)
  <2>1. /\ user' = [user EXCEPT ![u] = [Absent EXCEPT !.status = "gone"]] /\ group' = LeftGroups(u)
        /\ admin' = admin \ {u} /\ WroteBy(p) /\ Reply(p) /\ UNCHANGED <<history, trail>>
    BY <1>2 DEF Delete, past
  <2>2. user' \in [User -> UserRow] /\ Existing' = Existing \ {u}
    <3>1. /\ user' \in [User -> UserRow] /\ \A v \in User \ {u} : user'[v] = user[v]
          /\ user'[u].status = "gone"
      BY <1>0, <2>1, GoneWrite
    <3> QED
      BY <3>1 DEF Existing, Present
  <2>3. group' \in [Group -> GroupRow]
        /\ \A g \in Group : /\ group'[g].members = group[g].members \ {u} /\ group'[g].there = group[g].there
                            /\ group'[g].bound = group[g].bound
    <3>1. \A g \in Group : group[g].members \ {u} \in SUBSET User
      BY <1>0 DEF GroupRow
    <3>2. group' = [g \in Group |-> [group[g] EXCEPT !.members = group[g].members \ {u}]]
      BY <2>1 DEF LeftGroups
    <3>3. \A g \in Group : /\ [group[g] EXCEPT !.members = group[g].members \ {u}] \in GroupRow
                           /\ [group[g] EXCEPT !.members = group[g].members \ {u}].members = group[g].members \ {u}
                           /\ [group[g] EXCEPT !.members = group[g].members \ {u}].there = group[g].there
                           /\ [group[g] EXCEPT !.members = group[g].members \ {u}].bound = group[g].bound
      <4>1. ASSUME NEW r \in GroupRow, NEW m \in SUBSET User
            PROVE  /\ [r EXCEPT !.members = m] \in GroupRow /\ [r EXCEPT !.members = m].members = m
                   /\ [r EXCEPT !.members = m].there = r.there /\ [r EXCEPT !.members = m].bound = r.bound
        BY GroupWrites
      <4> QED
        BY <1>0, <3>1, <4>1, ZenonT(60)
    <3> QED
      BY <3>2, <3>3
  <2>4. KeysHold' /\ admin' \in SUBSET User
    BY <1>0, <2>1, <2>2, <2>3 DEF KeysHold
  <2>5. /\ req' \in [Proc -> Request] /\ \A q \in Proc \ {p} : req'[q] = req[q]
        /\ Carries(req'[p], alone[p], Existing', group', admin')
    BY <1>0, <2>1, ReplyShape, IdleCarries
  <2> QED
    BY <1>0, <2>1, <2>2, <2>3, <2>4, <2>5, Acts
<1> QED
  BY <1>1, <1>2

\* Writes that leave everybody's status alone, and every group and role.
LEMMA RowStep ==
  ASSUME Inv, NEW p \in Proc, WroteBy(p), user' \in [User -> UserRow], \A v \in User : user'[v].status = user[v].status,
         UNCHANGED <<history, group, admin, trail>>, req' \in [Proc -> Request], \A q \in Proc \ {p} : req'[q] = req[q],
         \A al : Carries(req[p], al, Existing, group, admin) => Carries(req'[p], al, Existing, group, admin)
  PROVE  Inv'
<1>1. Existing' = Existing
  BY SameUsers DEF Present
<1>2. KeysHold'
  BY <1>1, SameKeys DEF Inv
<1>3. Carries(req'[p], alone[p], Existing', group', admin')
  BY <1>1 DEF Inv, AllCarry
<1> QED
  BY <1>2, <1>3, Acts DEF Inv, Shapes

LEMMA SessionSteps ==
  ASSUME Inv, NEW p \in Proc,
         \/ \E u \in User : ForceLogout(p, u) \/ Invite(p, u)
         \/ RevokeSessions(p)
  PROVE  Inv'
<1>0. Shapes /\ req[p] \in Request /\ Carries(req[p], alone[p], Existing, group, admin) /\ req \in [Proc -> Request]
  BY DEF Inv, Shapes, AllCarry
<1>1. ASSUME NEW u \in User, ForceLogout(p, u) PROVE Inv'
  <2>1. user' = [user EXCEPT ![u].live = FALSE] /\ WroteBy(p) /\ Reply(p) /\ UNCHANGED <<history, group, admin, trail>>
    BY <1>1 DEF ForceLogout, Revoked, past
  <2>2. user' \in [User -> UserRow] /\ \A v \in User : user'[v].status = user[v].status
    BY <1>0, <2>1, LiveWrite
  <2>3. req' \in [Proc -> Request] /\ (\A q \in Proc \ {p} : req'[q] = req[q]) /\ req'[p] = Idle
    BY <1>0, <2>1, ReplyShape
  <2>4. \A al : Carries(req'[p], al, Existing, group, admin)
    BY <2>3, IdleCarries
  <2> QED
    BY <2>1, <2>2, <2>3, <2>4, RowStep
<1>2. ASSUME NEW u \in User, Invite(p, u) PROVE Inv'
  <2>1. user' = [user EXCEPT ![u].link = TRUE] /\ WroteBy(p) /\ UNCHANGED <<history, group, admin, req, trail>>
    BY <1>2 DEF Invite, past
  <2>2. user' \in [User -> UserRow] /\ \A v \in User : user'[v].status = user[v].status
    BY <1>0, <2>1, LinkWrite
  <2> QED
    BY <1>0, <2>1, <2>2, RowStep
<1>3. CASE RevokeSessions(p)
  <2>1. /\ At(p, "revoke") /\ user' = [user EXCEPT ![req[p].u].live = FALSE] /\ WroteBy(p)
        /\ UNCHANGED <<history, group, admin, trail>>
        /\ (Goto(p, "patch", req[p]) \/ Reply(p))
    BY <1>3 DEF RevokeSessions, Revoked, past
  <2>2. req[p].u \in User /\ req[p].op \notin {"group", "patchGroup"}
    BY <1>0, <2>1 DEF Carries, At, GroupPlace
  <2>3. user' \in [User -> UserRow] /\ \A v \in User : user'[v].status = user[v].status
    BY <1>0, <2>1, <2>2, LiveWrite
  <2>4. CASE Reply(p)
    <3>1. req' \in [Proc -> Request] /\ (\A q \in Proc \ {p} : req'[q] = req[q]) /\ req'[p] = Idle
      BY <1>0, <2>4, ReplyShape
    <3>2. \A al : Carries(req'[p], al, Existing, group, admin)
      BY <3>1, IdleCarries
    <3> QED
      BY <2>1, <2>3, <3>1, <3>2, RowStep
  <2>5. CASE Goto(p, "patch", req[p])
    <3>1. /\ req' \in [Proc -> Request] /\ \A q \in Proc \ {p} : req'[q] = req[q]
          /\ req'[p].at = "patch" /\ req'[p].u = req[p].u /\ req'[p].op = req[p].op
      BY <1>0, <2>5, GotoShape DEF Place
    <3>2. \A al : Carries(req'[p], al, Existing, group, admin)
      BY <2>2, <3>1 DEF Carries, GroupPlace
    <3> QED
      BY <2>1, <2>3, <3>1, <3>2, RowStep
  <2> QED
    BY <2>1, <2>4, <2>5
<1> QED
  BY <1>1, <1>2, <1>3

\* Writes of managers, of the console and of SCIM clients.
LEMMA WriteSteps ==
  ASSUME Inv, NEW p \in Proc,
         \/ WriteUser(p)
         \/ \E u \in User, op \in {"active", "suspended", "pending", "delete"} : ConsoleWrite(p, u, op)
         \/ \E active \in BOOLEAN : PatchStatus(p, active)
  PROVE  Inv'
<1>0. Carries(req[p], alone[p], Existing, group, admin)
  BY DEF Inv, AllCarry
<1>1. CASE WriteUser(p)
  <2>1. req[p].u \in User
    BY <1>0, <1>1 DEF WriteUser, Carries, At
  <2>2. CASE req[p].op \in {"suspended", "active"} /\ Status(p, req[p].u, req[p].op, "done")
    BY <2>1, <2>2, StatusStep
  <2>3. CASE Delete(p, req[p].u)
    BY <2>1, <2>3, DeleteStep
  <2>4. CASE ForceLogout(p, req[p].u)
    BY <2>1, <2>4, SessionSteps
  <2> QED
    BY <1>1, <2>2, <2>3, <2>4 DEF WriteUser
<1>2. ASSUME NEW u \in User, NEW op \in {"active", "suspended", "pending", "delete"}, ConsoleWrite(p, u, op) PROVE Inv'
  <2>1. CASE op = "delete"
    BY <1>2, <2>1, DeleteStep DEF ConsoleWrite
  <2>2. CASE op # "delete"
    <3>1. Status(p, u, op, "done") /\ op \in {"active", "suspended", "pending"}
      BY <1>2, <2>2 DEF ConsoleWrite
    <3> QED
      BY <3>1, StatusStep
  <2> QED
    BY <2>1, <2>2
<1>3. ASSUME NEW active \in BOOLEAN, PatchStatus(p, active) PROVE Inv'
  <2> DEFINE s == IF active THEN "active" ELSE "suspended"
  <2>1. At(p, "patch") /\ Status(p, req[p].u, s, "patch") /\ s \in {"active", "suspended", "pending"}
    BY <1>3 DEF PatchStatus
  <2>2. req[p].u \in User
    BY <1>0, <2>1 DEF Carries, At
  <2> HIDE DEF s
  <2> QED
    BY <2>1, <2>2, StatusStep
<1> QED
  BY <1>1, <1>2, <1>3

LEMMA SetTenantStep ==
  ASSUME Inv, NEW p \in Proc, SetTenant(p)
  PROVE  Inv'
<1>0. Shapes /\ req \in [Proc -> Request]
  BY DEF Inv, Shapes
<1>1. WroteBy(p) /\ UNCHANGED <<history, group, admin, req, trail>>
      /\ (user' = [u \in User |-> [user[u] EXCEPT !.live = FALSE]] \/ UNCHANGED user)
  BY DEF SetTenant, past
<1>2. user' \in [User -> UserRow] /\ \A v \in User : user'[v].status = user[v].status
  <2>1. \A r \in UserRow : [r EXCEPT !.live = FALSE] \in UserRow /\ [r EXCEPT !.live = FALSE].status = r.status
    BY DEF UserRow
  <2> QED
    BY <1>0, <1>1, <2>1, ZenonT(60) DEF Shapes
<1> QED
  BY <1>0, <1>1, <1>2, RowStep

LEMMA BootstrapWrites ==
  ASSUME Inv, NEW p \in Proc, BootstrapWrite(p)
  PROVE  Inv'
<1> DEFINE u == req[p].u
<1>0. Shapes /\ KeysHold /\ Carries(req[p], alone[p], Existing, group, admin) /\ user \in [User -> UserRow]
      /\ history \in [User -> Seq(1..MaxPw)] /\ trail \in [User -> Seq(0..MaxPw)]
      /\ group \in [Group -> GroupRow] /\ admin \in SUBSET User
  BY DEF Inv, Shapes, AllCarry
<1>1. /\ At(p, "bootstrap") /\ Reply(p) /\ WroteBy(p) /\ UNCHANGED <<history, group, trail>>
      /\ \/ Present(u) /\ admin' = admin \cup {u} /\ UNCHANGED user
         \/ user[u].status = "none" /\ user' = [user EXCEPT ![u] = Created(1)] /\ admin' = admin \cup {u}
         \/ UNCHANGED <<user, admin>>
  BY DEF BootstrapWrite, past
<1>2. u \in User /\ 1 \in 0..MaxPw
  BY <1>0, <1>1, DirectoryAssumption DEF Carries, At
<1>3. /\ req' \in [Proc -> Request] /\ \A q \in Proc \ {p} : req'[q] = req[q]
      /\ Carries(req'[p], alone[p], Existing', group', admin')
  BY <1>0, <1>1, ReplyShape, IdleCarries
<1> HIDE DEF u
<1>4. user' \in [User -> UserRow] /\ Existing \subseteq Existing' /\ admin' \subseteq Existing' /\ admin' \in SUBSET User
  <2>1. CASE Present(u) /\ admin' = admin \cup {u} /\ UNCHANGED user
    BY <1>0, <1>2, <2>1 DEF Existing, Present, KeysHold
  <2>2. CASE user[u].status = "none" /\ user' = [user EXCEPT ![u] = Created(1)] /\ admin' = admin \cup {u}
    <3>1. user' \in [User -> UserRow] /\ Existing' = Existing \cup {u} /\ u \in Existing'
      BY <1>2, <2>2, OneMore
    <3>2. admin \subseteq Existing
      BY <1>0 DEF KeysHold
    <3> QED
      BY <1>0, <1>2, <2>2, <3>1, <3>2
  <2>3. CASE UNCHANGED <<user, admin>>
    BY <1>0, <2>3 DEF Existing, Present, KeysHold
  <2> QED
    BY <1>1, <2>1, <2>2, <2>3
<1>5. KeysHold'
  BY <1>0, <1>1, <1>4 DEF KeysHold
<1> QED
  BY <1>0, <1>1, <1>3, <1>4, <1>5, Acts

\* A write to one group, whose members exist.
LEMMA GroupWrite ==
  ASSUME Inv, NEW p \in Proc, NEW g \in Group, NEW r \in GroupRow, r.members \subseteq Existing,
         ~r.there => ~r.bound /\ r.members = {}, group' = [group EXCEPT ![g] = r], WroteBy(p),
         UNCHANGED <<user, history, admin, trail>>, req' \in [Proc -> Request], \A q \in Proc \ {p} : req'[q] = req[q],
         Carries(req'[p], alone[p], Existing, group', admin)
  PROVE  Inv'
<1>1. Existing' = Existing
  BY DEF Existing, Present
<1>2. group' \in [Group -> GroupRow] /\ group'[g] = r /\ \A f \in Group \ {g} : group'[f] = group[f]
  BY DEF Inv, Shapes
<1>3. KeysHold'
  BY <1>1, <1>2 DEF KeysHold, Inv
<1>4. user' \in [User -> UserRow] /\ admin' \in SUBSET User /\ history' \in [User -> Seq(1..MaxPw)]
      /\ trail' \in [User -> Seq(0..MaxPw)]
  BY DEF Inv, Shapes
<1> QED
  BY <1>1, <1>2, <1>3, <1>4, Acts

LEMMA GroupSteps ==
  ASSUME Inv, NEW p \in Proc, Make(p) \/ RemoveGroup(p) \/ \E u \in User : ChangeMember(p, u)
  PROVE  Inv'
<1> DEFINE g == req[p].page
<1>0. Shapes /\ req[p] \in Request /\ Carries(req[p], alone[p], Existing, group, admin)
      /\ group \in [Group -> GroupRow] /\ KeysHold
  BY DEF Inv, Shapes, AllCarry
<1>1. CASE Make(p)
  <2> DEFINE n == [NoGroup EXCEPT !.there = TRUE]
             r == [req[p] EXCEPT !.todo = req[p].set, !.made = 1]
  <2>1. At(p, "make") /\ UNCHANGED <<user, history, admin, trail>>
        /\ \/ Reply(p) /\ UNCHANGED <<group, alone>>
           \/ group' = [group EXCEPT ![g] = n] /\ WroteBy(p) /\ Goto(p, "members", r)
    BY <1>1 DEF Make, past
  <2>2. g \in Group /\ req[p].set \subseteq User /\ req[p].op = "group" /\ (alone[p] => req[p].set \subseteq Existing)
    BY <1>0, <2>1 DEF Carries, At, GroupPlace
  <2>3. CASE Reply(p) /\ UNCHANGED <<group, alone>>
    BY <2>1, <2>3, Answer
  <2>4. CASE group' = [group EXCEPT ![g] = n] /\ WroteBy(p) /\ Goto(p, "members", r)
    <3>1. r \in Request /\ r.set = req[p].set /\ r.op = "group" /\ r.page = g
      BY <1>0, <2>2 DEF Request
    <3>2. n \in GroupRow /\ n.members = {} /\ n.there /\ ~n.bound
      BY NoGroupShape
    <3> HIDE DEF r, n
    <3>3. /\ req' \in [Proc -> Request] /\ \A q \in Proc \ {p} : req'[q] = req[q]
          /\ req'[p].at = "members" /\ req'[p].set = req[p].set /\ req'[p].op = "group" /\ req'[p].page = g
      BY <1>0, <2>4, <3>1, GotoShape DEF Place
    <3>4. group'[g] = n
      BY <1>0, <2>2, <2>4
    <3> HIDE DEF g
    <3>5. Carries(req'[p], alone[p], Existing, group', admin)
      BY <2>2, <3>2, <3>3, <3>4 DEF Carries, GroupPlace
    <3> QED
      BY <2>1, <2>2, <2>4, <3>2, <3>3, <3>5, GroupWrite
  <2> QED
    BY <2>1, <2>3, <2>4
<1>2. CASE RemoveGroup(p)
  <2>1. At(p, "deleteGroup") /\ UNCHANGED <<user, history, admin, trail>>
        /\ Reply(p) /\ group' = [group EXCEPT ![g] = NoGroup] /\ WroteBy(p)
    BY <1>2 DEF RemoveGroup, past
  <2>2. g \in Group
    BY <1>0, <2>1 DEF Carries, At, GroupPlace
  <2>3. /\ req' \in [Proc -> Request] /\ \A q \in Proc \ {p} : req'[q] = req[q]
        /\ Carries(req'[p], alone[p], Existing, group', admin)
    BY <1>0, <2>1, ReplyShape, IdleCarries
  <2>4. NoGroup \in GroupRow /\ NoGroup.members = {} /\ ~NoGroup.bound
    BY NoGroupShape
  <2> HIDE DEF g
  <2> QED
    BY <2>1, <2>2, <2>3, <2>4, GroupWrite
<1>3. ASSUME NEW u \in User, ChangeMember(p, u) PROVE Inv'
  <2> DEFINE rest == [req[p] EXCEPT !.todo = @ \ {u}]
             m == IF u \in req[p].set THEN group[g].members \cup {u} ELSE group[g].members \ {u}
             n == [group[g] EXCEPT !.members = m]
  <2>1. At(p, "members") /\ u \in req[p].todo /\ UNCHANGED <<user, history, admin, trail>>
        /\ \/ /\ There(g) /\ (u \in req[p].set => Present(u))
              /\ group' = [group EXCEPT ![g].members = m] /\ Goto(p, "members", rest) /\ WroteBy(p)
           \/ /\ ~(There(g) /\ (u \in req[p].set => Present(u)))
              /\ UNCHANGED <<group, alone>> /\ Goto(p, "refused", req[p])
    BY <1>3 DEF ChangeMember, past
  <2>2. /\ g \in Group /\ req[p].op \in {"group", "patchGroup"} /\ (alone[p] => ~group[g].bound) /\ req[p].set \subseteq User
        /\ alone[p] /\ req[p].op = "group" => group[g].there /\ req[p].set \subseteq Existing
    BY <1>0, <2>1 DEF Carries, At, GroupPlace
  <2>3. CASE /\ There(g) /\ (u \in req[p].set => Present(u))
             /\ group' = [group EXCEPT ![g].members = m] /\ Goto(p, "members", rest) /\ WroteBy(p)
    <3>1. group[g] \in GroupRow /\ group[g].members \subseteq Existing
      BY <1>0, <2>2 DEF KeysHold
    <3>2. m \subseteq Existing /\ m \in SUBSET User
      BY <2>3, <3>1 DEF Existing
    <3>3. group' = [group EXCEPT ![g] = n]
      BY <2>3
    <3> HIDE DEF m
    <3>4. n \in GroupRow /\ n.members = m /\ n.there = group[g].there /\ n.bound = group[g].bound
      BY <3>1, <3>2, GroupWrites
    <3> HIDE DEF n
    <3>5. n.there /\ group'[g] = n
      BY <1>0, <2>2, <2>3, <3>3, <3>4 DEF There
    <3>6. rest \in Request /\ rest.set = req[p].set /\ rest.op = req[p].op /\ rest.page = g
      BY <1>0 DEF Request
    <3> HIDE DEF rest
    <3>7. /\ req' \in [Proc -> Request] /\ \A q \in Proc \ {p} : req'[q] = req[q]
          /\ req'[p].at = "members" /\ req'[p].set = req[p].set /\ req'[p].op = req[p].op /\ req'[p].page = g
      BY <1>0, <2>3, <3>6, GotoShape DEF Place
    <3> HIDE DEF g
    <3>8. Carries(req'[p], alone[p], Existing, group', admin)
      BY <2>2, <3>4, <3>5, <3>7 DEF Carries, GroupPlace
    <3> QED
      BY <2>1, <2>2, <2>3, <3>2, <3>3, <3>4, <3>5, <3>7, <3>8, GroupWrite
  <2>4. CASE /\ ~(There(g) /\ (u \in req[p].set => Present(u)))
             /\ UNCHANGED <<group, alone>> /\ Goto(p, "refused", req[p])
    <3> DEFINE x == [req[p] EXCEPT !.at = "refused"]
    <3>1. x.at = "refused" /\ x.set = req[p].set /\ x.op = req[p].op /\ x.page = g
      BY <1>0 DEF Request
    <3>2. alone[p] => req[p].op = "patchGroup"
      <4>1. ASSUME alone[p], req[p].op # "patchGroup" PROVE FALSE
        <5>1. group[g].there /\ req[p].set \subseteq Existing
          BY <2>2, <4>1
        <5> QED
          BY <2>4, <5>1 DEF There, Existing
      <4> QED
        BY <4>1
    <3> HIDE DEF x, g
    <3>3. Carries(x, alone[p], Existing, group, admin)
      BY <2>2, <3>1, <3>2 DEF Carries, GroupPlace
    <3>4. Starts(p) => alone'[p] = TRUE
      BY <1>0 DEF Starts, Shapes
    <3> QED
      BY <1>0, <2>1, <2>4, <3>3, <3>4, Walk DEF Place, x
  <2> QED
    BY <2>1, <2>3, <2>4
<1> QED
  BY <1>1, <1>2, <1>3

\* Passwords and their history.
LEMMA Stacks ==
  ASSUME NEW S, NEW h \in [User -> Seq(S)], NEW x \in S, NEW u \in User
  PROVE  /\ <<x>> \o h[u] \in Seq(S) /\ UpToKeep(<<x>> \o h[u]) \in Seq(S) /\ UpToKeep(h[u]) \in Seq(S)
         /\ [h EXCEPT ![u] = <<x>> \o h[u]] \in [User -> Seq(S)]
         /\ [h EXCEPT ![u] = UpToKeep(h[u])] \in [User -> Seq(S)]
         /\ [h EXCEPT ![u] = UpToKeep(<<x>> \o h[u])] \in [User -> Seq(S)]
<1>1. <<x>> \o h[u] \in Seq(S) /\ h[u] \in Seq(S)
  OBVIOUS
<1>2. UpToKeep(<<x>> \o h[u]) \in Seq(S) /\ UpToKeep(h[u]) \in Seq(S)
  BY <1>1, Keeps
<1> QED
  BY <1>1, <1>2

\* A password that is set at last.
LEMMA SetWrite ==
  ASSUME Inv, NEW p \in Proc, At(p, "swap"), user' = IF Present(req[p].u) THEN Set(p) ELSE user
  PROVE  /\ req[p].u \in User /\ req[p].pw \in 1..MaxPw
         /\ user' \in [User -> UserRow] /\ \A v \in User \ {req[p].u} : user'[v] = user[v]
         /\ \A v \in User : user'[v].status = user[v].status
         /\ Present(req[p].u) => user'[req[p].u].pw = req[p].pw
         /\ Existing' = Existing
<1>1. Shapes /\ Carries(req[p], alone[p], Existing, group, admin)
  BY DEF Inv, AllCarry
<1>2. req[p].u \in User /\ req[p].pw \in 1..MaxPw
  BY <1>1 DEF Carries, At
<1>3. /\ user' \in [User -> UserRow] /\ \A v \in User \ {req[p].u} : user'[v] = user[v]
      /\ \A v \in User : user'[v].status = user[v].status
      /\ Present(req[p].u) => user'[req[p].u].pw = req[p].pw
  <2>1. CASE Present(req[p].u)
    BY <1>1, <1>2, <2>1, PasswordWrite
  <2>2. CASE ~Present(req[p].u)
    BY <1>1, <2>2 DEF Shapes
  <2> QED
    BY <2>1, <2>2
<1> QED
  BY <1>2, <1>3, SameUsers DEF Present

LEMMA TrailShape ==
  ASSUME Shapes, NEW p \in Proc, req[p].u \in User
  PROVE  Trailed(p) \in [User -> Seq(0..MaxPw)]
<1>1. user[req[p].u].pw \in 0..MaxPw /\ trail \in [User -> Seq(0..MaxPw)]
  BY DEF Shapes, UserRow
<1> QED
  BY <1>1, Stacks DEF Trailed

LEMMA RotationStart ==
  ASSUME Inv, NEW p \in Proc, NEW u \in User, NEW pw \in 1..MaxPw, NEW armed \in BOOLEAN, StartRotation(p, u, pw, armed)
  PROVE  /\ Inv'
         /\ req' \in [Proc -> Request] /\ \A q \in Proc \ {p} : req'[q] = req[q]
         /\ req'[p].at = "swap" /\ req'[p].u = u /\ req'[p].pw = pw /\ req'[p].old = user[u].pw
         /\ \A v \in User : user'[v].status = user[v].status /\ user'[v].pw = user[v].pw
<1> DEFINE op == IF armed THEN "armed" ELSE "done"
           r == [Idle EXCEPT !.u = u, !.pw = pw, !.old = user[u].pw, !.op = op]
<1>0. Shapes /\ user \in [User -> UserRow] /\ history \in [User -> Seq(1..MaxPw)] /\ trail \in [User -> Seq(0..MaxPw)]
      /\ group \in [Group -> GroupRow] /\ admin \in SUBSET User /\ alone \in [Proc -> BOOLEAN] /\ KeysHold
  BY DEF Inv, Shapes
<1>1. /\ Goto(p, "swap", r) /\ Starts(p) /\ UNCHANGED <<history, group, admin, trail>>
      /\ user' = IF armed THEN user ELSE [user EXCEPT ![u].link = FALSE]
  BY DEF StartRotation
<1>2. /\ user' \in [User -> UserRow]
      /\ \A v \in User : user'[v].status = user[v].status /\ user'[v].pw = user[v].pw
  BY <1>0, <1>1, LinkWrite
<1>3. Existing' = Existing
  BY <1>2, SameUsers DEF Present
<1>4. r \in Request /\ r.op = op /\ r.u = u /\ r.pw = pw /\ r.old = user[u].pw /\ op \notin {"group", "patchGroup"}
  <2>1. u \in 0..Users /\ pw \in 0..MaxPw /\ op \in Op /\ user[u].pw \in 0..MaxPw /\ op \notin {"group", "patchGroup"}
    BY <1>0, DirectoryAssumption DEF User, Op, UserRow
  <2> HIDE DEF op
  <2> QED
    BY <2>1, IdleShape DEF Request, Idle
<1> HIDE DEF r, op
<1>5. /\ req' \in [Proc -> Request] /\ \A q \in Proc \ {p} : req'[q] = req[q]
      /\ req'[p].at = "swap" /\ req'[p].u = u /\ req'[p].pw = pw /\ req'[p].old = user[u].pw /\ req'[p].op = op
  BY <1>0, <1>1, <1>4, GotoShape DEF Place
<1>6. Carries(req'[p], alone'[p], Existing', group', admin')
  BY <1>4, <1>5 DEF Carries, GroupPlace
<1>7. Alone(p)
  BY <1>0, <1>1, <1>3, <1>5, Marks DEF World
<1>8. AllCarry'
  BY <1>6, <1>7, OthersCarry DEF Inv
<1>9. KeysHold'
  BY <1>0, <1>1, <1>3, SameKeys
<1>10. Shapes'
  BY <1>0, <1>1, <1>2, <1>5, <1>7 DEF Shapes, Alone
<1> QED
  BY <1>2, <1>5, <1>8, <1>9, <1>10 DEF Inv

LEMMA RotationSteps ==
  ASSUME Inv, NEW p \in Proc, Swap(p) \/ Push(p) \/ Prune(p) \/ AdminReset(p)
  PROVE  Inv'
<1> DEFINE u == req[p].u
<1>0. Shapes /\ req[p] \in Request /\ Carries(req[p], alone[p], Existing, group, admin)
      /\ user \in [User -> UserRow] /\ history \in [User -> Seq(1..MaxPw)] /\ trail \in [User -> Seq(0..MaxPw)]
      /\ group \in [Group -> GroupRow] /\ admin \in SUBSET User /\ KeysHold
  BY DEF Inv, Shapes, AllCarry
<1>1. CASE Swap(p)
  <2>1. /\ At(p, "swap") /\ user' = IF Present(u) THEN Set(p) ELSE user
        /\ \/ req[p].old > 0 /\ Goto(p, "push", req[p]) /\ trail' = Trailed(p)
           \/ Reply(p) /\ UNCHANGED trail
        /\ WroteBy(p) /\ UNCHANGED <<history, group, admin>>
    BY <1>1 DEF Swap
  <2>2. u \in User /\ user' \in [User -> UserRow] /\ Existing' = Existing
    BY <2>1, SetWrite
  <2>3. trail' \in [User -> Seq(0..MaxPw)]
    BY <1>0, <2>1, <2>2, TrailShape
  <2>4. KeysHold'
    BY <1>0, <2>1, <2>2, SameKeys
  <2>5. /\ req' \in [Proc -> Request] /\ \A q \in Proc \ {p} : req'[q] = req[q]
        /\ Carries(req'[p], alone[p], Existing', group', admin')
    <3>1. CASE Reply(p)
      BY <1>0, <3>1, ReplyShape, IdleCarries
    <3>2. CASE req[p].old > 0 /\ Goto(p, "push", req[p])
      <4>1. /\ req' \in [Proc -> Request] /\ \A q \in Proc \ {p} : req'[q] = req[q]
            /\ req'[p].at = "push" /\ req'[p].u = u /\ req'[p].old = req[p].old /\ req'[p].op = req[p].op
        BY <1>0, <3>2, GotoShape DEF Place
      <4>2. req[p].old \in 1..MaxPw /\ req[p].op \notin {"group", "patchGroup"}
        <5>1. req[p].old \in 0..MaxPw
          BY <1>0 DEF Request
        <5>2. req[p].op \notin {"group", "patchGroup"}
          BY <1>0, <2>1 DEF Carries, At, GroupPlace
        <5> QED
          BY <3>2, <5>1, <5>2, DirectoryAssumption
      <4> QED
        BY <2>2, <4>1, <4>2 DEF Carries, GroupPlace
    <3> QED
      BY <2>1, <3>1, <3>2
  <2> QED
    BY <1>0, <2>1, <2>2, <2>3, <2>4, <2>5, Acts
<1>2. CASE Push(p)
  <2>1. /\ At(p, "push") /\ history' = [history EXCEPT ![u] = <<req[p].old>> \o history[u]]
        /\ Goto(p, "prune", req[p]) /\ UNCHANGED <<user, group, admin, alone, trail>>
    BY <1>2 DEF Push, Pushed, past
  <2>2. u \in User /\ req[p].old \in 1..MaxPw /\ req[p].op \notin {"group", "patchGroup"}
    BY <1>0, <2>1 DEF Carries, At, GroupPlace
  <2>3. history' \in [User -> Seq(1..MaxPw)] /\ UNCHANGED Existing
    BY <1>0, <2>1, <2>2, Stacks DEF Existing, Present
  <2>4. KeysHold'
    BY <1>0, <2>1, <2>3, SameKeys
  <2>5. /\ req' \in [Proc -> Request] /\ \A q \in Proc \ {p} : req'[q] = req[q]
        /\ req'[p].at = "prune" /\ req'[p].u = u /\ req'[p].old = req[p].old /\ req'[p].op = req[p].op
    BY <1>0, <2>1, GotoShape DEF Place
  <2>6. Carries(req'[p], alone[p], Existing', group', admin')
    BY <2>2, <2>5 DEF Carries, GroupPlace
  <2> QED
    BY <1>0, <2>1, <2>3, <2>4, <2>5, <2>6, Acts
<1>3. CASE Prune(p)
  <2>1. /\ At(p, "prune") /\ history' = [history EXCEPT ![u] = UpToKeep(history[u])]
        /\ Reply(p) /\ UNCHANGED <<user, group, admin, alone, trail>>
    BY <1>3 DEF Prune, Pruned, past
  <2>2. u \in User /\ req[p].old \in 1..MaxPw
    BY <1>0, <2>1 DEF Carries, At
  <2>3. history' \in [User -> Seq(1..MaxPw)] /\ UNCHANGED Existing
    BY <1>0, <2>1, <2>2, Stacks DEF Existing, Present
  <2>4. KeysHold'
    BY <1>0, <2>1, <2>3, SameKeys
  <2>5. /\ req' \in [Proc -> Request] /\ \A q \in Proc \ {p} : req'[q] = req[q]
        /\ Carries(req'[p], alone[p], Existing', group', admin')
    BY <1>0, <2>1, ReplyShape, IdleCarries
  <2> QED
    BY <1>0, <2>1, <2>3, <2>4, <2>5, Acts
<1>4. CASE AdminReset(p)
  <2> DEFINE r == [req[p] EXCEPT !.op = "done"]
  <2>1. /\ At(p, "swap") /\ user' = IF Present(u) THEN Set(p) ELSE user
        /\ \/ /\ req[p].old > 0 /\ history' = [history EXCEPT ![u] = UpToKeep(<<req[p].old>> \o history[u])]
              /\ trail' = Trailed(p)
           \/ UNCHANGED <<history, trail>>
        /\ Goto(p, "revoke", r) /\ WroteBy(p) /\ UNCHANGED <<group, admin>>
    BY <1>4 DEF AdminReset, Pruned, Pushed
  <2>2. u \in User /\ user' \in [User -> UserRow] /\ Existing' = Existing
    BY <2>1, SetWrite
  <2>3. trail' \in [User -> Seq(0..MaxPw)] /\ history' \in [User -> Seq(1..MaxPw)]
    <3>1. CASE /\ req[p].old > 0 /\ history' = [history EXCEPT ![u] = UpToKeep(<<req[p].old>> \o history[u])]
               /\ trail' = Trailed(p)
      <4>1. req[p].old \in 1..MaxPw
        <5>1. req[p].old \in 0..MaxPw
          BY <1>0 DEF Request
        <5> QED
          BY <3>1, <5>1, DirectoryAssumption
      <4> QED
        BY <1>0, <2>2, <3>1, <4>1, TrailShape, Stacks
    <3>2. CASE UNCHANGED <<history, trail>>
      BY <1>0, <3>2
    <3> QED
      BY <2>1, <3>1, <3>2
  <2>4. KeysHold'
    BY <1>0, <2>1, <2>2, SameKeys
  <2>5. r \in Request /\ r.u = u /\ r.op = "done"
    <3>1. "done" \in Op
      BY DEF Op
    <3> QED
      BY <1>0, <3>1 DEF Request
  <2> HIDE DEF r
  <2>6. /\ req' \in [Proc -> Request] /\ \A q \in Proc \ {p} : req'[q] = req[q]
        /\ req'[p].at = "revoke" /\ req'[p].u = u /\ req'[p].op = "done"
    BY <1>0, <2>1, <2>5, GotoShape DEF Place
  <2>7. Carries(req'[p], alone[p], Existing', group', admin')
    BY <2>2, <2>6 DEF Carries, GroupPlace
  <2> QED
    BY <1>0, <2>1, <2>2, <2>3, <2>4, <2>6, <2>7, Acts
<1> QED
  BY <1>1, <1>2, <1>3, <1>4

-----------------------------------------------------------------------------
(* Steps of no request *)

\* What everybody is overlapped by asks nothing of what the requests carry.
LEMMA Overlapped ==
  ASSUME Inv, Wrote, UNCHANGED <<req, history, trail>>,
         user' \in [User -> UserRow], group' \in [Group -> GroupRow], admin' \in SUBSET User, KeysHold'
  PROVE  Inv'
<1>1. alone' \in [Proc -> BOOLEAN] /\ \A p \in Proc : alone'[p] = FALSE
  BY DEF Wrote
<1>2. AllCarry'
  <2> SUFFICES ASSUME NEW p \in Proc PROVE Carries(req[p], FALSE, Existing', group', admin')
    BY <1>1 DEF AllCarry
  <2>1. Carries(req[p], alone[p], Existing, group, admin)
    BY DEF Inv, AllCarry
  <2> QED
    BY <2>1 DEF Carries
<1> QED
  BY <1>1, <1>2 DEF Inv, Shapes

LEMMA Outside ==
  ASSUME Inv,
         \/ \E u \in User : SignsIn(u) \/ DropAdmin(u)
         \/ \E g \in Group : CreateGroup(g) \/ DeleteGroup(g) \/ SetKind(g) \/ BindRole(g)
         \/ \E g \in Group, u \in User : AddMember(g, u) \/ RemoveMember(g, u)
         \/ SetKey
  PROVE  Inv'
<1>0. Shapes /\ KeysHold /\ user \in [User -> UserRow] /\ group \in [Group -> GroupRow] /\ admin \in SUBSET User
  BY DEF Inv, Shapes
<1>1. ASSUME NEW u \in User, SignsIn(u) PROVE Inv'
  <2>1. user' = [user EXCEPT ![u].live = TRUE] /\ Wrote /\ UNCHANGED <<req, history, trail, group, admin>>
    BY <1>1 DEF SignsIn, past
  <2>2. user' \in [User -> UserRow] /\ Existing' = Existing
    BY <1>0, <2>1, LiveWrite, SameUsers DEF Present
  <2>3. KeysHold'
    BY <1>0, <2>1, <2>2, SameKeys
  <2> QED
    BY <1>0, <2>1, <2>2, <2>3, Overlapped
<1>2. ASSUME NEW u \in User, DropAdmin(u) PROVE Inv'
  <2>1. admin' = admin \ {u} /\ Wrote /\ UNCHANGED <<req, history, trail, group, user>>
    BY <1>2 DEF DropAdmin, past
  <2>2. KeysHold'
    BY <1>0, <2>1 DEF KeysHold, Existing, Present
  <2> QED
    BY <1>0, <2>1, <2>2, Overlapped
<1>3. ASSUME NEW g \in Group, NEW r \in GroupRow, r.members \subseteq Existing, ~r.there => ~r.bound /\ r.members = {},
             SetGroup(g, r)
      PROVE  Inv'
  <2>1. group' = [group EXCEPT ![g] = r] /\ Wrote /\ UNCHANGED <<req, history, trail, user, admin>>
    BY <1>3 DEF SetGroup, past
  <2>2. group' \in [Group -> GroupRow] /\ group'[g] = r /\ \A f \in Group \ {g} : group'[f] = group[f]
    BY <1>0, <2>1
  <2>3. Existing' = Existing
    BY <2>1 DEF Existing, Present
  <2>4. KeysHold'
    BY <1>0, <1>3, <2>1, <2>2, <2>3 DEF KeysHold
  <2> QED
    BY <1>0, <2>1, <2>2, <2>4, Overlapped
<1>4. ASSUME NEW g \in Group PROVE group[g] \in GroupRow /\ group[g].members \in SUBSET User /\ group[g].members \subseteq Existing
                                   /\ group[g].dept \in BOOLEAN /\ group[g].bound \in BOOLEAN
                                   /\ (~group[g].there => ~group[g].bound /\ group[g].members = {})
  BY <1>0, <1>4 DEF KeysHold, GroupRow
<1>5. ASSUME NEW g \in Group, CreateGroup(g) \/ DeleteGroup(g) PROVE Inv'
  BY <1>3, <1>5, NoGroupShape DEF CreateGroup, DeleteGroup
<1>6. ASSUME NEW g \in Group, SetKind(g) PROVE Inv'
  <2> DEFINE r == [group[g] EXCEPT !.dept = ~group[g].dept]
  <2>1. SetGroup(g, r) /\ group[g].there
    BY <1>6 DEF SetKind, There
  <2>2. (~group[g].dept) \in BOOLEAN
    OBVIOUS
  <2>3. r \in GroupRow /\ r.members = group[g].members /\ r.there = group[g].there
    BY <1>4, <2>2, GroupWrites, ZenonT(60)
  <2> HIDE DEF r
  <2> QED
    BY <1>3, <1>4, <2>1, <2>3
<1>7. ASSUME NEW g \in Group, BindRole(g) PROVE Inv'
  <2> DEFINE r == [group[g] EXCEPT !.bound = ~group[g].bound]
  <2>1. SetGroup(g, r) /\ group[g].there
    BY <1>7 DEF BindRole, There
  <2>2. (~group[g].bound) \in BOOLEAN
    OBVIOUS
  <2>3. r \in GroupRow /\ r.members = group[g].members /\ r.there = group[g].there
    BY <1>4, <2>2, GroupWrites, ZenonT(60)
  <2> HIDE DEF r
  <2> QED
    BY <1>3, <1>4, <2>1, <2>3
<1>8. ASSUME NEW g \in Group, NEW u \in User, AddMember(g, u) \/ RemoveMember(g, u) PROVE Inv'
  <2>1. /\ group[g].there
        /\ \E m \in SUBSET User : m \subseteq Existing /\ SetGroup(g, [group[g] EXCEPT !.members = m])
    <3>1. CASE AddMember(g, u)
      <4> DEFINE m == group[g].members \cup {u}
      <4>1. SetGroup(g, [group[g] EXCEPT !.members = m]) /\ group[g].there /\ Present(u)
        BY <3>1 DEF AddMember, There
      <4>2. m \in SUBSET User /\ m \subseteq Existing
        BY <1>4, <4>1 DEF Existing
      <4> QED
        BY <4>1, <4>2
    <3>2. CASE RemoveMember(g, u)
      <4> DEFINE m == group[g].members \ {u}
      <4>1. SetGroup(g, [group[g] EXCEPT !.members = m]) /\ u \in group[g].members
        BY <3>2 DEF RemoveMember
      <4>2. m \in SUBSET User /\ m \subseteq Existing /\ group[g].there
        BY <1>4, <4>1
      <4> QED
        BY <4>1, <4>2
    <3> QED
      BY <1>8, <3>1, <3>2
  <2>2. PICK m \in SUBSET User : m \subseteq Existing /\ SetGroup(g, [group[g] EXCEPT !.members = m])
    BY <2>1
  <2> DEFINE r == [group[g] EXCEPT !.members = m]
  <2>3. r \in GroupRow /\ r.members = m /\ r.there = group[g].there
    <3>1. group[g] \in GroupRow /\ m \in SUBSET User
      BY <1>4
    <3> QED
      BY <3>1, GroupWrites
  <2>4. SetGroup(g, r)
    BY <2>2
  <2> HIDE DEF r
  <2> QED
    BY <1>3, <2>1, <2>2, <2>3, <2>4
<1>9. CASE SetKey
  <2>1. Wrote /\ UNCHANGED <<req, history, trail, group, user, admin>>
    BY <1>9 DEF SetKey, past
  <2>2. KeysHold'
    BY <1>0, <2>1 DEF KeysHold, Existing, Present
  <2> QED
    BY <1>0, <2>1, <2>2, Overlapped
<1> QED
  BY <1>1, <1>2, <1>5, <1>6, <1>7, <1>8, <1>9

LEMMA InitInv == Init => Inv
<1> SUFFICES ASSUME Init PROVE Inv
  OBVIOUS
<1>1. user \in [User -> UserRow] /\ Existing = {Manager}
  <2>1. Absent \in UserRow /\ [Absent EXCEPT !.status = "active"] \in UserRow /\ Absent.status = "none"
        /\ [Absent EXCEPT !.status = "active"].status = "active"
    <3>1. 0 \in 0..MaxPw
      BY DirectoryAssumption
    <3> QED
      BY <3>1 DEF Absent, UserRow, Status5
  <2>2. user = [u \in User |-> IF u = Manager THEN [Absent EXCEPT !.status = "active"] ELSE Absent]
    BY DEF Init
  <2> QED
    BY <2>1, <2>2, DirectoryAssumption DEF Existing, Present
<1>2. group \in [Group -> GroupRow] /\ \A g \in Group : ~group[g].bound /\ group[g].members = {}
  <2>1. /\ NoGroup \in GroupRow /\ ~NoGroup.bound /\ NoGroup.members = {}
        /\ [NoGroup EXCEPT !.there = TRUE, !.dept = TRUE] \in GroupRow /\ ~[NoGroup EXCEPT !.there = TRUE, !.dept = TRUE].bound
        /\ [NoGroup EXCEPT !.there = TRUE, !.dept = TRUE].members = {}
    BY DEF NoGroup, GroupRow
  <2>2. group = [g \in Group |-> IF "scoped" \in callers THEN [NoGroup EXCEPT !.there = TRUE, !.dept = TRUE] ELSE NoGroup]
    BY DEF Init
  <2> QED
    BY <2>1, <2>2
<1>3. admin = {} /\ req = [p \in Proc |-> Idle] /\ alone = [p \in Proc |-> TRUE]
      /\ history = [u \in User |-> << >>] /\ trail = [u \in User |-> << >>]
  BY DEF Init
<1>4. Shapes
  <2>1. << >> \in Seq(1..MaxPw) /\ << >> \in Seq(0..MaxPw)
    OBVIOUS
  <2>2. req \in [Proc -> Request]
    BY <1>3, IdleShape
  <2>3. history \in [User -> Seq(1..MaxPw)] /\ trail \in [User -> Seq(0..MaxPw)]
    BY <1>3, <2>1
  <2>4. alone \in [Proc -> BOOLEAN] /\ admin \in SUBSET User
    BY <1>3
  <2> QED
    BY <1>1, <1>2, <2>2, <2>3, <2>4 DEF Shapes
<1>5. KeysHold
  BY <1>2, <1>3 DEF KeysHold
<1>6. AllCarry
  BY <1>3, IdleCarries DEF AllCarry
<1> QED
  BY <1>4, <1>5, <1>6 DEF Inv

LEMMA StepInv ==
  ASSUME Inv, [Next]_vars PROVE Inv'
<1>1. ASSUME NEW p \in Proc, UserStep(p) PROVE Inv'
  <2>1. CASE (\E rows \in SUBSET User : Import(p, rows)) \/ (\E u \in User, valid \in BOOLEAN : ImportCheck(p, u, valid)) \/ ImportDone(p)
    BY <2>1, ImportSteps
  <2>2. CASE Export(p) \/ ExportPage(p) \/ ExportDone(p)
    BY <2>2, ExportSteps
  <2>3. CASE (\E u \in User, pw \in {0, 1} : CreateUser(p, u, pw)) \/ ImportInsert(p)
    BY <2>3, CreateSteps
  <2>4. CASE (\E op \in ScopedOp, u \in User : ResolveScope(p, op, u)) \/ RowScope(p)
    BY <2>4, ScopeSteps
  <2>5. CASE WriteUser(p) \/ \E u \in User, op \in {"active", "suspended", "pending", "delete"} : ConsoleWrite(p, u, op)
    BY <2>5, WriteSteps
  <2>6. CASE RevokeSessions(p)
    BY <2>6, SessionSteps
  <2> QED
    BY <1>1, <2>1, <2>2, <2>3, <2>4, <2>5, <2>6 DEF UserStep
<1>2. ASSUME NEW p \in Proc, PasswordStep(p) PROVE Inv'
  <2>1. CASE \E u \in User : Invite(p, u)
    BY <2>1, SessionSteps
  <2>2. CASE \E u \in User, pw \in 1..MaxPw, armed \in BOOLEAN : StartRotation(p, u, pw, armed)
    BY <2>2, RotationStart
  <2>3. CASE Swap(p) \/ Push(p) \/ Prune(p) \/ AdminReset(p)
    BY <2>3, RotationSteps
  <2> QED
    BY <1>2, <2>1, <2>2, <2>3 DEF PasswordStep
<1>3. ASSUME NEW p \in Proc, ScimStep(p) PROVE Inv'
  <2>1. CASE (\E u \in User : ScimFind(p, u) \/ ScimDelete(p, u) \/ ScimPatch(p, u))
             \/ (\E u \in User, active \in BOOLEAN : ScimPut(p, u, active)) \/ PatchDone(p)
    BY <2>1, ScimReads
  <2>2. CASE \E active \in BOOLEAN : PatchStatus(p, active)
    BY <2>2, WriteSteps
  <2>3. CASE Make(p) \/ RemoveGroup(p) \/ \E u \in User : ChangeMember(p, u)
    BY <2>3, GroupSteps
  <2>4. CASE \/ \E g \in Group, refs \in SUBSET User : ScimCreateGroup(p, g, refs)
             \/ \E g \in Group, op \in {"putGroup", "patchGroup", "deleteGroup"} : ScimGroupOp(p, g, op)
             \/ \E refs \in SUBSET User : ReplaceMembers(p, refs)
             \/ \E u \in User, add \in BOOLEAN : PatchMember(p, u, add)
             \/ MembersDone(p) \/ Refused(p) \/ PatchGroupDone(p)
    BY <2>4, GroupReads
  <2> QED
    BY <1>3, <2>1, <2>2, <2>3, <2>4 DEF ScimStep
<1>4. ASSUME NEW p \in Proc, TenantStep(p) PROVE Inv'
  BY <1>4, SetTenantStep, BootstrapWrites, OtherReads DEF TenantStep
<1>5. ASSUME NEW p \in Proc, Fail(p) PROVE Inv'
  BY <1>5, OtherReads
<1>6. CASE UNCHANGED vars
  BY <1>6 DEF Inv, Shapes, KeysHold, AllCarry, Existing, Present, vars, tables, past
<1> QED
  BY <1>1, <1>2, <1>3, <1>4, <1>5, <1>6, Outside DEF Next

THEOREM DirectoryInv == Spec => []Inv
<1>1. Inv /\ [Next]_vars => Inv'
  BY StepInv
<1> QED
  BY <1>1, InitInv, PTL DEF Spec

-----------------------------------------------------------------------------
(* Batches, scopes and administrators *)

\* Every row of an import has been created or is in the report; an export nobody's write
\* overlaps has everybody once, up to its cap; a SCIM group comes with all its members;
\* memberships and roles belong to users that exist: whatever the requests do at the same time.
THEOREM BatchesHold == Spec => []BatchesAreWhole
<1>1. Inv => BatchesAreWhole
  <2> SUFFICES ASSUME Inv PROVE BatchesAreWhole
    OBVIOUS
  <2>1. TypeOK
    BY DEF Inv, Shapes, KeysHold, TypeOK, UserRow, Status5
  <2>2. ASSUME NEW p \in Proc PROVE Carries(req[p], alone[p], Existing, group, admin)
    BY DEF Inv, AllCarry
  <2>3. ImportReportIsTrue
    BY <2>2 DEF ImportReportIsTrue, Carries, At
  <2>4. ExportIsComplete
    BY <2>2 DEF ExportIsComplete, Carries, At
  <2>5. GroupsAreWhole
    BY <2>2 DEF GroupsAreWhole, Carries, At
  <2> QED
    BY <2>1, <2>3, <2>4, <2>5 DEF BatchesAreWhole
<1> QED
  BY <1>1, DirectoryInv, PTL

\* A manager's write is in a department of the manager's, unless memberships have changed
\* since the scope was resolved.
THEOREM ScopesHold == Spec => []ManagersStayInScope
<1>1. Inv => ManagersStayInScope
  BY DEF Inv, AllCarry, Carries, ManagersStayInScope, At
<1> QED
  BY <1>1, DirectoryInv, PTL

-----------------------------------------------------------------------------
(* What most steps leave alone *)

Rotation == {"swap", "push", "prune"}

\* What happens to a user in a step that sets nobody's password a second time.
Kept(v) ==
  \/ user[v].status = "none"
  \/ Present(v) /\ user'[v].status = "gone" /\ user'[v].pw = 0
  \/ /\ user[v].status # "none" /\ user'[v].status # "none" /\ user'[v].pw = user[v].pw
     /\ Present(v)' => Present(v)

\* A step of request p that belongs to no rotation.
Quiet(p) ==
  /\ UNCHANGED <<history, trail>> /\ mixed \subseteq mixed'
  /\ req[p].at = "push" => req[p].u \in mixed'
  /\ req'[p].at \notin Rotation
  /\ \A v \in User : Kept(v)

\* A step of request p that makes nobody an administrator, and that changes no group if it
\* is one of the steps of a SCIM client's request about a group.
Harmless(p) == admin' \subseteq admin /\ (req[p].at \in GroupPlace => group' = group)

\* The one request that moves.
Moves(p) == \A q \in Proc \ {p} : req'[q] = req[q]

LEMMA Unmoved ==
  ASSUME Shapes, UNCHANGED user PROVE \A v \in User : Kept(v)
  BY DEF Kept, Present

LEMMA SameRows ==
  ASSUME Shapes, user' \in [User -> UserRow],
         \A v \in User : user'[v].status = user[v].status /\ user'[v].pw = user[v].pw
  PROVE  \A v \in User : Kept(v)
  BY DEF Kept, Present

LEMMA OneRow ==
  ASSUME Shapes, NEW u \in User, \A v \in User \ {u} : user'[v] = user[v], Kept(u)
  PROVE  \A v \in User : Kept(v)
  BY DEF Kept, Present

LEMMA Going ==
  ASSUME Shapes, NEW p \in Proc, NEW r, "at" \in DOMAIN r, NEW where \in Place, Goto(p, where, r)
  PROVE  Moves(p) /\ req'[p].at = where
  BY DEF Goto, Moves, Shapes

LEMMA Replying ==
  ASSUME Shapes, NEW p \in Proc, Reply(p)
  PROVE  Moves(p) /\ req'[p].at \notin Rotation
  BY ReplyShape, IdleShape DEF Moves, Rotation

LEMMA Still ==
  ASSUME Inv, NEW p \in Proc, ~At(p, "push"), UNCHANGED <<user, group, admin, history, trail, mixed>>,
         Moves(p), req'[p].at \notin Rotation
  PROVE  Moves(p) /\ Quiet(p) /\ Harmless(p)
<1>1. \A v \in User : Kept(v)
  BY Unmoved DEF Inv
<1> QED
  BY <1>1 DEF Quiet, Harmless, At

\* Steps that only look.
LEMMA QuietReads ==
  ASSUME Inv, NEW p \in Proc,
         \/ (\E rows \in SUBSET User : Import(p, rows))
         \/ (\E u \in User, valid \in BOOLEAN : ImportCheck(p, u, valid))
         \/ Export(p)
         \/ (\E op \in ScopedOp, u \in User : ResolveScope(p, op, u))
         \/ RowScope(p)
         \/ (\E u \in User : ScimFind(p, u))
         \/ (\E u \in User : ScimDelete(p, u))
         \/ (\E u \in User : ScimPatch(p, u))
         \/ (\E u \in User, active \in BOOLEAN : ScimPut(p, u, active))
         \/ (\E g \in Group, refs \in SUBSET User : ScimCreateGroup(p, g, refs))
         \/ (\E refs \in SUBSET User : ReplaceMembers(p, refs))
         \/ (\E u \in User, add \in BOOLEAN : PatchMember(p, u, add))
         \/ MembersDone(p)
         \/ ExportPage(p)
         \/ (\E g \in Group, op \in {"putGroup", "patchGroup", "deleteGroup"} : ScimGroupOp(p, g, op))
         \/ (\E u \in User : Bootstrap(p, u))
         \/ ImportDone(p) \/ ExportDone(p) \/ PatchDone(p) \/ Refused(p) \/ PatchGroupDone(p)
  PROVE  Moves(p) /\ Quiet(p) /\ Harmless(p)
<1>0. Shapes /\ req[p] \in Request /\ "at" \in DOMAIN Idle /\ "at" \in DOMAIN req[p]
  BY DEF Inv, Shapes, Request, Idle
<1>1. ASSUME NEW rows \in SUBSET User, Import(p, rows) PROVE Moves(p) /\ Quiet(p) /\ Harmless(p)
  <2>1. /\ ~At(p, "push") /\ UNCHANGED <<user, group, admin, history, trail, mixed>>
        /\ Goto(p, "row", [Idle EXCEPT !.set = rows, !.todo = rows])
    BY <1>1 DEF Import, tables, past, At
  <2>2. "at" \in DOMAIN [Idle EXCEPT !.set = rows, !.todo = rows]
    BY <1>0
  <2>3. \A w \in {"row"} : w \in Place /\ w \notin Rotation
    BY DEF Place, Rotation
  <2>4. Moves(p) /\ req'[p].at \notin Rotation
    BY <1>0, <2>1, <2>2, <2>3, Going
  <2> QED
    BY <2>1, <2>4, Still
<1>2. ASSUME NEW u \in User, NEW valid \in BOOLEAN, ImportCheck(p, u, valid) PROVE Moves(p) /\ Quiet(p) /\ Harmless(p)
  <2>1. /\ ~At(p, "push") /\ UNCHANGED <<user, group, admin, history, trail, mixed>>
        /\ \/ Goto(p, "insert", [req[p] EXCEPT !.todo = @ \ {u}, !.u = u])
           \/ Goto(p, "row", [[req[p] EXCEPT !.todo = @ \ {u}, !.u = u] EXCEPT !.errors = @ + 1, !.u = NoUser])
    BY <1>2 DEF ImportCheck, tables, past, At
  <2>2. /\ "at" \in DOMAIN [req[p] EXCEPT !.todo = @ \ {u}, !.u = u]
        /\ "at" \in DOMAIN [[req[p] EXCEPT !.todo = @ \ {u}, !.u = u] EXCEPT !.errors = @ + 1, !.u = NoUser]
    BY <1>0
  <2>3. \A w \in {"insert", "row"} : w \in Place /\ w \notin Rotation
    BY DEF Place, Rotation
  <2>4. Moves(p) /\ req'[p].at \notin Rotation
    BY <1>0, <2>1, <2>2, <2>3, Going
  <2> QED
    BY <2>1, <2>4, Still
<1>3. CASE Export(p)
  <2>1. /\ ~At(p, "push") /\ UNCHANGED <<user, group, admin, history, trail, mixed>>
        /\ Goto(p, "page", Idle)
    BY <1>3 DEF Export, tables, past, At
  <2>3. \A w \in {"page"} : w \in Place /\ w \notin Rotation
    BY DEF Place, Rotation
  <2>4. Moves(p) /\ req'[p].at \notin Rotation
    BY <1>0, <2>1, <2>3, Going
  <2> QED
    BY <2>1, <2>4, Still
<1>4. ASSUME NEW op \in ScopedOp, NEW u \in User, ResolveScope(p, op, u) PROVE Moves(p) /\ Quiet(p) /\ Harmless(p)
  <2>1. /\ ~At(p, "push") /\ UNCHANGED <<user, group, admin, history, trail, mixed>>
        /\ Goto(p, "guard", [Idle EXCEPT !.op = op, !.u = u, !.set = DepartmentIds(Manager)])
    BY <1>4 DEF ResolveScope, tables, past, At
  <2>2. "at" \in DOMAIN [Idle EXCEPT !.op = op, !.u = u, !.set = DepartmentIds(Manager)]
    BY <1>0
  <2>3. \A w \in {"guard"} : w \in Place /\ w \notin Rotation
    BY DEF Place, Rotation
  <2>4. Moves(p) /\ req'[p].at \notin Rotation
    BY <1>0, <2>1, <2>2, <2>3, Going
  <2> QED
    BY <2>1, <2>4, Still
<1>5. CASE RowScope(p)
  <2>1. /\ ~At(p, "push") /\ UNCHANGED <<user, group, admin, history, trail, mixed>>
        /\ \/ Goto(p, "write", req[p])
           \/ Reply(p)
    BY <1>5 DEF RowScope, tables, past, At
  <2>3. \A w \in {"write"} : w \in Place /\ w \notin Rotation
    BY DEF Place, Rotation
  <2>4. Moves(p) /\ req'[p].at \notin Rotation
    BY <1>0, <2>1, <2>3, Going, Replying
  <2> QED
    BY <2>1, <2>4, Still
<1>6. ASSUME NEW u \in User, ScimFind(p, u) PROVE Moves(p) /\ Quiet(p) /\ Harmless(p)
  <2>1. /\ ~At(p, "push") /\ UNCHANGED <<user, group, admin, history, trail, mixed>>
        /\ Goto(p, "insert", [Idle EXCEPT !.u = u, !.set = {u}])
    BY <1>6 DEF ScimFind, tables, past, At, Scim
  <2>2. "at" \in DOMAIN [Idle EXCEPT !.u = u, !.set = {u}]
    BY <1>0
  <2>3. \A w \in {"insert"} : w \in Place /\ w \notin Rotation
    BY DEF Place, Rotation
  <2>4. Moves(p) /\ req'[p].at \notin Rotation
    BY <1>0, <2>1, <2>2, <2>3, Going
  <2> QED
    BY <2>1, <2>4, Still
<1>7. ASSUME NEW u \in User, ScimDelete(p, u) PROVE Moves(p) /\ Quiet(p) /\ Harmless(p)
  <2>1. /\ ~At(p, "push") /\ UNCHANGED <<user, group, admin, history, trail, mixed>>
        /\ Goto(p, "scimWrite", [Idle EXCEPT !.u = u, !.op = "suspended"])
    BY <1>7 DEF ScimDelete, tables, past, At, Scim
  <2>2. "at" \in DOMAIN [Idle EXCEPT !.u = u, !.op = "suspended"]
    BY <1>0
  <2>3. \A w \in {"scimWrite"} : w \in Place /\ w \notin Rotation
    BY DEF Place, Rotation
  <2>4. Moves(p) /\ req'[p].at \notin Rotation
    BY <1>0, <2>1, <2>2, <2>3, Going
  <2> QED
    BY <2>1, <2>4, Still
<1>8. ASSUME NEW u \in User, ScimPatch(p, u) PROVE Moves(p) /\ Quiet(p) /\ Harmless(p)
  <2>1. /\ ~At(p, "push") /\ UNCHANGED <<user, group, admin, history, trail, mixed>>
        /\ Goto(p, "patch", [Idle EXCEPT !.u = u])
    BY <1>8 DEF ScimPatch, tables, past, At, Scim
  <2>2. "at" \in DOMAIN [Idle EXCEPT !.u = u]
    BY <1>0
  <2>3. \A w \in {"patch"} : w \in Place /\ w \notin Rotation
    BY DEF Place, Rotation
  <2>4. Moves(p) /\ req'[p].at \notin Rotation
    BY <1>0, <2>1, <2>2, <2>3, Going
  <2> QED
    BY <2>1, <2>4, Still
<1>9. ASSUME NEW u \in User, NEW active \in BOOLEAN, ScimPut(p, u, active) PROVE Moves(p) /\ Quiet(p) /\ Harmless(p)
  <2>1. /\ ~At(p, "push") /\ UNCHANGED <<user, group, admin, history, trail, mixed>>
        /\ \/ Goto(p, "scimWrite", [Idle EXCEPT !.u = u, !.op = "suspended"])
           \/ Goto(p, "scimWrite", [Idle EXCEPT !.u = u, !.op = "active"])
    BY <1>9 DEF ScimPut, tables, past, At, Scim
  <2>2. /\ "at" \in DOMAIN [Idle EXCEPT !.u = u, !.op = "suspended"]
        /\ "at" \in DOMAIN [Idle EXCEPT !.u = u, !.op = "active"]
    BY <1>0
  <2>3. \A w \in {"scimWrite"} : w \in Place /\ w \notin Rotation
    BY DEF Place, Rotation
  <2>4. Moves(p) /\ req'[p].at \notin Rotation
    BY <1>0, <2>1, <2>2, <2>3, Going
  <2> QED
    BY <2>1, <2>4, Still
<1>10. ASSUME NEW g \in Group, NEW refs \in SUBSET User, ScimCreateGroup(p, g, refs) PROVE Moves(p) /\ Quiet(p) /\ Harmless(p)
  <2>1. /\ ~At(p, "push") /\ UNCHANGED <<user, group, admin, history, trail, mixed>>
        /\ \/ Goto(p, "make", [Idle EXCEPT !.op = "group", !.page = g, !.set = refs])
           \/ Reply(p)
    BY <1>10 DEF ScimCreateGroup, tables, past, At, Scim
  <2>2. "at" \in DOMAIN [Idle EXCEPT !.op = "group", !.page = g, !.set = refs]
    BY <1>0
  <2>3. \A w \in {"make"} : w \in Place /\ w \notin Rotation
    BY DEF Place, Rotation
  <2>4. Moves(p) /\ req'[p].at \notin Rotation
    BY <1>0, <2>1, <2>2, <2>3, Going, Replying
  <2> QED
    BY <2>1, <2>4, Still
<1>11. ASSUME NEW refs \in SUBSET User, ReplaceMembers(p, refs) PROVE Moves(p) /\ Quiet(p) /\ Harmless(p)
  <2>1. /\ ~At(p, "push") /\ UNCHANGED <<user, group, admin, history, trail, mixed>>
        /\ \/ Goto(p, "members", [req[p] EXCEPT !.set = refs, !.made = 1, !.todo = (group[req[p].page].members \ refs) \cup (refs \ group[req[p].page].members)])
           \/ Reply(p)
    BY <1>11 DEF ReplaceMembers, tables, past, At
  <2>2. "at" \in DOMAIN [req[p] EXCEPT !.set = refs, !.made = 1, !.todo = (group[req[p].page].members \ refs) \cup (refs \ group[req[p].page].members)]
    BY <1>0
  <2>3. \A w \in {"members"} : w \in Place /\ w \notin Rotation
    BY DEF Place, Rotation
  <2>4. Moves(p) /\ req'[p].at \notin Rotation
    BY <1>0, <2>1, <2>2, <2>3, Going, Replying
  <2> QED
    BY <2>1, <2>4, Still
<1>12. ASSUME NEW u \in User, NEW add \in BOOLEAN, PatchMember(p, u, add) PROVE Moves(p) /\ Quiet(p) /\ Harmless(p)
  <2>1. /\ ~At(p, "push") /\ UNCHANGED <<user, group, admin, history, trail, mixed>>
        /\ Goto(p, "members", [req[p] EXCEPT !.todo = {u}, !.set = IF add THEN {u} ELSE {}, !.op = "patchGroup"])
    BY <1>12 DEF PatchMember, tables, past, At
  <2>2. "at" \in DOMAIN [req[p] EXCEPT !.todo = {u}, !.set = IF add THEN {u} ELSE {}, !.op = "patchGroup"]
    BY <1>0
  <2>3. \A w \in {"members"} : w \in Place /\ w \notin Rotation
    BY DEF Place, Rotation
  <2>4. Moves(p) /\ req'[p].at \notin Rotation
    BY <1>0, <2>1, <2>2, <2>3, Going
  <2> QED
    BY <2>1, <2>4, Still
<1>13. CASE MembersDone(p)
  <2>1. /\ ~At(p, "push") /\ UNCHANGED <<user, group, admin, history, trail, mixed>>
        /\ \/ Goto(p, "patchGroup", [req[p] EXCEPT !.op = "group", !.set = {}])
           \/ Reply(p)
    BY <1>13 DEF MembersDone, tables, past, At
  <2>2. "at" \in DOMAIN [req[p] EXCEPT !.op = "group", !.set = {}]
    BY <1>0
  <2>3. \A w \in {"patchGroup"} : w \in Place /\ w \notin Rotation
    BY DEF Place, Rotation
  <2>4. Moves(p) /\ req'[p].at \notin Rotation
    BY <1>0, <2>1, <2>2, <2>3, Going, Replying
  <2> QED
    BY <2>1, <2>4, Still
<1>14. CASE ExportPage(p)
  <2> DEFINE rows == Listed(Existing, req[p].page)
             r == [req[p] EXCEPT !.set = @ \cup rows, !.todo = @ \cup (req[p].set \cap rows), !.page = @ + 1]
             w == IF LastPage(rows, req[p].page) THEN "exported" ELSE "page"
  <2>1. /\ ~At(p, "push") /\ UNCHANGED <<user, group, admin, history, trail, mixed>>
        /\ Goto(p, w, r)
    BY <1>14 DEF ExportPage, tables, past, At
  <2>2. "at" \in DOMAIN r
    BY <1>0
  <2>3. w \in Place /\ w \notin Rotation
    BY DEF Place, Rotation
  <2> HIDE DEF rows, r, w
  <2>4. Moves(p) /\ req'[p].at \notin Rotation
    BY <1>0, <2>1, <2>2, <2>3, Going
  <2> QED
    BY <2>1, <2>4, Still
<1>15. ASSUME NEW g \in Group, NEW op \in {"putGroup", "patchGroup", "deleteGroup"}, ScimGroupOp(p, g, op)
      PROVE  Moves(p) /\ Quiet(p) /\ Harmless(p)
  <2> DEFINE r == [Idle EXCEPT !.op = "group", !.page = g]
  <2>1. ~At(p, "push") /\ UNCHANGED <<user, group, admin, history, trail, mixed>> /\ Goto(p, op, r)
    BY <1>15 DEF ScimGroupOp, Scim, tables, past, At
  <2>2. "at" \in DOMAIN r
    BY <1>0
  <2>3. op \in Place /\ op \notin Rotation
    BY DEF Place, Rotation
  <2> HIDE DEF r
  <2>4. Moves(p) /\ req'[p].at \notin Rotation
    BY <1>0, <2>1, <2>2, <2>3, Going
  <2> QED
    BY <2>1, <2>4, Still
<1>16. ASSUME NEW u \in User, Bootstrap(p, u) PROVE Moves(p) /\ Quiet(p) /\ Harmless(p)
  <2> DEFINE r == [Idle EXCEPT !.u = u, !.made = IF Present(u) THEN 1 ELSE 0]
  <2>1. ~At(p, "push") /\ UNCHANGED <<user, group, admin, history, trail, mixed>> /\ (Goto(p, "bootstrap", r) \/ Reply(p))
    BY <1>16 DEF Bootstrap, tables, past, At
  <2>2. "at" \in DOMAIN r
    BY <1>0
  <2>3. "bootstrap" \in Place /\ "bootstrap" \notin Rotation
    BY DEF Place, Rotation
  <2> HIDE DEF r
  <2>4. Moves(p) /\ req'[p].at \notin Rotation
    BY <1>0, <2>1, <2>2, <2>3, Going, Replying
  <2> QED
    BY <2>1, <2>4, Still
<1>17. CASE ImportDone(p) \/ ExportDone(p) \/ PatchDone(p) \/ Refused(p) \/ PatchGroupDone(p)
  <2>1. ~At(p, "push") /\ UNCHANGED <<user, group, admin, history, trail, mixed>> /\ Reply(p)
    BY <1>17 DEF ImportDone, ExportDone, PatchDone, Refused, PatchGroupDone, tables, past, At
  <2> QED
    BY <1>0, <2>1, Replying, Still
<1> QED
  BY <1>1, <1>2, <1>3, <1>4, <1>5, <1>6, <1>7, <1>8, <1>9, <1>10, <1>11, <1>12, <1>13, <1>14, <1>15, <1>16, <1>17

\* Steps that write, but end no rotation.
LEMMA Writing ==
  ASSUME Inv, NEW p \in Proc, ~At(p, "push"), req[p].at \notin GroupPlace, UNCHANGED <<history, trail, mixed>>,
         admin' \subseteq admin, \A v \in User : Kept(v), Moves(p), req'[p].at \notin Rotation
  PROVE  Moves(p) /\ Quiet(p) /\ Harmless(p)
  BY DEF Quiet, Harmless, At

LEMMA Creating ==
  ASSUME Inv, NEW u \in User, NEW pw \in 0..MaxPw, user[u].status = "none", user' = [user EXCEPT ![u] = Created(pw)]
  PROVE  \A v \in User : Kept(v)
<1>1. \A v \in User \ {u} : user'[v] = user[v]
  BY CreateWrite DEF Inv
<1>2. Kept(u)
  BY DEF Kept
<1> QED
  BY <1>1, <1>2, OneRow DEF Inv

LEMMA QuietStatus ==
  ASSUME Inv, NEW p \in Proc, NEW u \in User, NEW status \in {"active", "suspended", "pending"}, NEW next \in {"done", "patch"},
         ~At(p, "push"), req[p].at \notin GroupPlace, Status(p, u, status, next)
  PROVE  Moves(p) /\ Quiet(p) /\ Harmless(p)
<1> DEFINE r == [req[p] EXCEPT !.u = u, !.op = next]
<1>0. Shapes /\ "at" \in DOMAIN req[p] /\ "at" \in DOMAIN r
  BY DEF Inv, Shapes, Request
<1>1. /\ UNCHANGED <<history, trail, mixed, group, admin>>
      /\ \/ Present(u) /\ user' = [user EXCEPT ![u].status = status]
         \/ UNCHANGED user
      /\ Goto(p, "revoke", r) \/ Goto(p, "patch", req[p]) \/ Reply(p)
  BY DEF Status, past
<1>2. \A v \in User : Kept(v)
  <2>1. CASE UNCHANGED user
    BY <1>0, <2>1, Unmoved
  <2>2. CASE Present(u) /\ user' = [user EXCEPT ![u].status = status]
    <3>1. /\ \A v \in User \ {u} : user'[v] = user[v]
          /\ user'[u].status = status /\ user'[u].pw = user[u].pw
      BY <1>0, <2>2, StatusWrite DEF Status5
    <3>2. Kept(u)
      BY <2>2, <3>1 DEF Kept, Present
    <3> QED
      BY <1>0, <3>1, <3>2, OneRow
  <2> QED
    BY <1>1, <2>1, <2>2
<1>3. "revoke" \in Place /\ "patch" \in Place /\ "revoke" \notin Rotation /\ "patch" \notin Rotation
  BY DEF Place, Rotation
<1> HIDE DEF r
<1>4. Moves(p) /\ req'[p].at \notin Rotation
  BY <1>0, <1>1, <1>3, Going, Replying
<1> QED
  BY <1>1, <1>2, <1>4, Writing

LEMMA QuietDelete ==
  ASSUME Inv, NEW p \in Proc, NEW u \in User, ~At(p, "push"), req[p].at \notin GroupPlace, Delete(p, u)
  PROVE  Moves(p) /\ Quiet(p) /\ Harmless(p)
<1>0. Shapes
  BY DEF Inv
<1>1. /\ UNCHANGED <<history, trail, mixed>> /\ admin' \subseteq admin /\ Reply(p)
      /\ \/ Present(u) /\ user' = [user EXCEPT ![u] = [Absent EXCEPT !.status = "gone"]]
         \/ UNCHANGED user
  BY DEF Delete, past
<1>2. \A v \in User : Kept(v)
  <2>1. CASE UNCHANGED user
    BY <1>0, <2>1, Unmoved
  <2>2. CASE Present(u) /\ user' = [user EXCEPT ![u] = [Absent EXCEPT !.status = "gone"]]
    <3>1. /\ \A v \in User \ {u} : user'[v] = user[v]
          /\ user'[u].status = "gone" /\ user'[u].pw = 0
      BY <1>0, <2>2, GoneWrite
    <3>2. Kept(u)
      BY <2>2, <3>1 DEF Kept
    <3> QED
      BY <1>0, <3>1, <3>2, OneRow
  <2> QED
    BY <1>1, <2>1, <2>2
<1>3. Moves(p) /\ req'[p].at \notin Rotation
  BY <1>0, <1>1, Replying
<1> QED
  BY <1>1, <1>2, <1>3, Writing

LEMMA QuietLogout ==
  ASSUME Inv, NEW p \in Proc, NEW u \in User, ~At(p, "push"), req[p].at \notin GroupPlace, ForceLogout(p, u)
  PROVE  Moves(p) /\ Quiet(p) /\ Harmless(p)
<1>0. Shapes
  BY DEF Inv
<1>1. UNCHANGED <<history, trail, mixed, group, admin>> /\ Reply(p) /\ user' = [user EXCEPT ![u].live = FALSE]
  BY DEF ForceLogout, Revoked, past
<1>2. \A v \in User : Kept(v)
  BY <1>0, <1>1, LiveWrite, SameRows
<1>3. Moves(p) /\ req'[p].at \notin Rotation
  BY <1>0, <1>1, Replying
<1> QED
  BY <1>1, <1>2, <1>3, Writing

LEMMA QuietWrites ==
  ASSUME Inv, NEW p \in Proc,
         \/ \E u \in User, pw \in {0, 1} : CreateUser(p, u, pw)
         \/ ImportInsert(p) \/ WriteUser(p) \/ RevokeSessions(p)
         \/ \E u \in User, op \in {"active", "suspended", "pending", "delete"} : ConsoleWrite(p, u, op)
         \/ \E u \in User : Invite(p, u)
         \/ \E active \in BOOLEAN : PatchStatus(p, active)
         \/ SetTenant(p)
  PROVE  Moves(p) /\ Quiet(p) /\ Harmless(p)
<1>0. /\ Shapes /\ Carries(req[p], alone[p], Existing, group, admin) /\ req[p] \in Request
      /\ "at" \in DOMAIN req[p] /\ user \in [User -> UserRow]
  BY DEF Inv, Shapes, AllCarry, Request
<1>1. ASSUME NEW u \in User, NEW pw \in {0, 1}, CreateUser(p, u, pw) PROVE Moves(p) /\ Quiet(p) /\ Harmless(p)
  <2>1. /\ req[p].at = "idle" /\ user[u].status = "none" /\ user' = [user EXCEPT ![u] = Created(pw)]
        /\ UNCHANGED <<history, group, admin, req, trail, mixed>>
    BY <1>1 DEF CreateUser, past, At
  <2>2. \A v \in User : Kept(v)
    <3>1. pw \in 0..MaxPw
      BY DirectoryAssumption
    <3> QED
      BY <2>1, <3>1, Creating
  <2> QED
    BY <2>1, <2>2, Writing DEF Moves, At, Rotation, GroupPlace
<1>2. CASE ImportInsert(p)
  <2> DEFINE u == req[p].u
             r == [req[p] EXCEPT !.u = NoUser]
             y == [r EXCEPT !.made = @ + 1]
             n == RefusedRow(r)
  <2>1. /\ req[p].at = "insert" /\ UNCHANGED <<history, group, admin, trail, mixed>>
        /\ \/ user[u].status = "none" /\ user' = [user EXCEPT ![u] = Created(1)]
           \/ UNCHANGED user
        /\ Goto(p, "row", y) \/ Goto(p, "row", n)
    BY <1>2 DEF ImportInsert, past, At
  <2>2. u \in User /\ 1 \in 0..MaxPw
    BY <1>0, <2>1, DirectoryAssumption DEF Carries
  <2>3. "at" \in DOMAIN y /\ "at" \in DOMAIN n
    BY <1>0 DEF RefusedRow
  <2>4. \A v \in User : Kept(v)
    BY <1>0, <2>1, <2>2, Creating, Unmoved
  <2>5. "row" \in Place /\ "row" \notin Rotation
    BY DEF Place, Rotation
  <2> HIDE DEF y, n
  <2>6. Moves(p) /\ req'[p].at \notin Rotation
    BY <1>0, <2>1, <2>3, <2>5, Going
  <2> QED
    BY <2>1, <2>4, <2>6, Writing DEF At, GroupPlace
<1>3. CASE WriteUser(p)
  <2>1. req[p].u \in User /\ ~At(p, "push") /\ req[p].at \notin GroupPlace
    BY <1>0, <1>3 DEF WriteUser, Carries, At, GroupPlace
  <2>2. CASE req[p].op \in {"suspended", "active"} /\ Status(p, req[p].u, req[p].op, "done")
    BY <2>1, <2>2, QuietStatus
  <2>3. CASE Delete(p, req[p].u)
    BY <2>1, <2>3, QuietDelete
  <2>4. CASE ForceLogout(p, req[p].u)
    BY <2>1, <2>4, QuietLogout
  <2> QED
    BY <1>3, <2>2, <2>3, <2>4 DEF WriteUser
<1>4. CASE RevokeSessions(p)
  <2>1. /\ req[p].at = "revoke" /\ user' = [user EXCEPT ![req[p].u].live = FALSE]
        /\ UNCHANGED <<history, group, admin, trail, mixed>>
        /\ (Goto(p, "patch", req[p]) \/ Reply(p))
    BY <1>4 DEF RevokeSessions, Revoked, past, At
  <2>2. req[p].u \in User
    BY <1>0, <2>1 DEF Carries
  <2>3. \A v \in User : Kept(v)
    BY <1>0, <2>1, <2>2, LiveWrite, SameRows
  <2>4. "patch" \in Place /\ "patch" \notin Rotation
    BY DEF Place, Rotation
  <2>5. Moves(p) /\ req'[p].at \notin Rotation
    BY <1>0, <2>1, <2>4, Going, Replying
  <2> QED
    BY <2>1, <2>3, <2>5, Writing DEF At, GroupPlace
<1>5. ASSUME NEW u \in User, NEW op \in {"active", "suspended", "pending", "delete"}, ConsoleWrite(p, u, op)
      PROVE  Moves(p) /\ Quiet(p) /\ Harmless(p)
  <2>1. ~At(p, "push") /\ req[p].at \notin GroupPlace
    BY <1>5 DEF ConsoleWrite, At, GroupPlace
  <2>2. CASE op = "delete"
    BY <1>5, <2>1, <2>2, QuietDelete DEF ConsoleWrite
  <2>3. CASE op # "delete"
    <3>1. Status(p, u, op, "done") /\ op \in {"active", "suspended", "pending"}
      BY <1>5, <2>3 DEF ConsoleWrite
    <3> QED
      BY <2>1, <3>1, QuietStatus
  <2> QED
    BY <2>2, <2>3
<1>6. ASSUME NEW u \in User, Invite(p, u) PROVE Moves(p) /\ Quiet(p) /\ Harmless(p)
  <2>1. /\ req[p].at = "idle" /\ user' = [user EXCEPT ![u].link = TRUE]
        /\ UNCHANGED <<history, group, admin, req, trail, mixed>>
    BY <1>6 DEF Invite, past, At
  <2>2. \A v \in User : Kept(v)
    BY <1>0, <2>1, LinkWrite, SameRows
  <2> QED
    BY <2>1, <2>2, Writing DEF Moves, At, Rotation, GroupPlace
<1>7. ASSUME NEW active \in BOOLEAN, PatchStatus(p, active) PROVE Moves(p) /\ Quiet(p) /\ Harmless(p)
  <2> DEFINE s == IF active THEN "active" ELSE "suspended"
  <2>1. req[p].at = "patch" /\ Status(p, req[p].u, s, "patch") /\ s \in {"active", "suspended", "pending"}
    BY <1>7 DEF PatchStatus, At
  <2>2. req[p].u \in User
    BY <1>0, <2>1 DEF Carries
  <2> HIDE DEF s
  <2> QED
    BY <2>1, <2>2, QuietStatus DEF At, GroupPlace
<1>8. CASE SetTenant(p)
  <2>1. /\ req[p].at = "idle" /\ UNCHANGED <<history, group, admin, req, trail, mixed>>
        /\ (user' = [u \in User |-> [user[u] EXCEPT !.live = FALSE]] \/ UNCHANGED user)
    BY <1>8 DEF SetTenant, past, At
  <2>2. user' \in [User -> UserRow] /\ \A v \in User : user'[v].status = user[v].status /\ user'[v].pw = user[v].pw
    <3>1. \A r \in UserRow : /\ [r EXCEPT !.live = FALSE] \in UserRow
                             /\ [r EXCEPT !.live = FALSE].status = r.status /\ [r EXCEPT !.live = FALSE].pw = r.pw
      BY DEF UserRow
    <3> QED
      <4>1. CASE UNCHANGED user
        BY <1>0, <4>1
      <4>2. CASE user' = [u \in User |-> [user[u] EXCEPT !.live = FALSE]]
        BY <1>0, <3>1, <4>2
      <4> QED
        BY <2>1, <4>1, <4>2
  <2>3. \A v \in User : Kept(v)
    BY <1>0, <2>2, SameRows
  <2> QED
    BY <2>1, <2>3, Writing DEF Moves, At, Rotation, GroupPlace
<1> QED
  BY <1>1, <1>2, <1>3, <1>4, <1>5, <1>6, <1>7, <1>8

\* An error marks the rotation that it cuts short.
LEMMA QuietErrors ==
  ASSUME Inv, NEW p \in Proc, Fail(p)
  PROVE  Moves(p) /\ Quiet(p) /\ Harmless(p)
<1>0. Shapes
  BY DEF Inv
<1>1. /\ UNCHANGED <<user, group, admin, history, trail>> /\ Reply(p)
      /\ mixed' = IF At(p, "push") \/ At(p, "prune") THEN mixed \cup {req[p].u} ELSE mixed
  BY DEF Fail, tables
<1>2. Moves(p) /\ req'[p].at \notin Rotation
  BY <1>0, <1>1, Replying
<1>3. \A v \in User : Kept(v)
  BY <1>0, <1>1, Unmoved
<1> QED
  BY <1>1, <1>2, <1>3 DEF Quiet, Harmless, At

\* What changes the members of a group changes no user.
LEMMA QuietGroups ==
  ASSUME Inv, NEW p \in Proc, Make(p) \/ RemoveGroup(p) \/ \E u \in User : ChangeMember(p, u)
  PROVE  /\ Moves(p) /\ Quiet(p) /\ admin' = admin /\ req[p].at \in GroupPlace
         /\ \A g \in Group : g # req[p].page => group'[g] = group[g]
         /\ At(p, "make") => UNCHANGED group \/ ~group[req[p].page].there
<1> DEFINE g == req[p].page
           r == [req[p] EXCEPT !.todo = req[p].set, !.made = 1]
<1>0. Shapes /\ "at" \in DOMAIN req[p] /\ "at" \in DOMAIN r /\ \A u \in User : "at" \in DOMAIN [req[p] EXCEPT !.todo = @ \ {u}]
      /\ group \in [Group -> GroupRow]
  BY DEF Inv, Shapes, Request
<1>1. /\ req[p].at \in {"make", "deleteGroup", "members"} /\ UNCHANGED <<user, history, trail, mixed, admin>>
      /\ At(p, "make") => UNCHANGED group \/ ~group[g].there
      /\ \/ Reply(p) \/ Goto(p, "members", r) \/ Goto(p, "refused", req[p])
         \/ \E u \in User : Goto(p, "members", [req[p] EXCEPT !.todo = @ \ {u}])
  BY DEF Make, RemoveGroup, ChangeMember, past, At, There
<1>2. \A f \in Group : f # g => group'[f] = group[f]
  <2>1. CASE Make(p)
    <3> DEFINE n == [NoGroup EXCEPT !.there = TRUE]
    <3>1. group' = [group EXCEPT ![g] = n] \/ UNCHANGED group
      BY <2>1 DEF Make
    <3> HIDE DEF n, g, r
    <3>2. group \in [Group -> GroupRow]
      BY DEF Inv, Shapes
    <3> QED
      BY <3>1, <3>2
  <2>2. CASE RemoveGroup(p)
    BY <1>0, <2>2 DEF RemoveGroup
  <2>3. ASSUME NEW u \in User, ChangeMember(p, u) PROVE \A f \in Group : f # g => group'[f] = group[f]
    <3> DEFINE m == IF u \in req[p].set THEN group[g].members \cup {u} ELSE group[g].members \ {u}
    <3>1. group' = [group EXCEPT ![g].members = m] \/ UNCHANGED group
      BY <2>3 DEF ChangeMember
    <3> HIDE DEF m
    <3> QED
      BY <1>0, <3>1
  <2> QED
    BY <2>1, <2>2, <2>3
<1>3. "members" \in Place /\ "members" \notin Rotation /\ "refused" \in Place /\ "refused" \notin Rotation
  BY DEF Place, Rotation
<1> HIDE DEF r
<1>4. Moves(p) /\ req'[p].at \notin Rotation
  BY <1>0, <1>1, <1>3, Going, Replying
<1>5. \A v \in User : Kept(v)
  BY <1>0, <1>1, Unmoved
<1> QED
  BY <1>1, <1>2, <1>4, <1>5 DEF Quiet, GroupPlace, At

\* Only the bootstrap of a tenant makes administrators.
LEMMA QuietBootstrap ==
  ASSUME Inv, NEW p \in Proc, BootstrapWrite(p)
  PROVE  /\ Moves(p) /\ Quiet(p) /\ group' = group
         /\ \A u \in admin' \ admin : Present(u) => At(p, "bootstrap") /\ ~alone[p]
<1> DEFINE u == req[p].u
<1>0. Shapes /\ Carries(req[p], alone[p], Existing, group, admin)
  BY DEF Inv, AllCarry
<1>1. /\ req[p].at = "bootstrap" /\ Reply(p) /\ UNCHANGED <<history, group, trail, mixed>>
      /\ \/ Present(u) /\ req[p].made = 1 /\ admin' = admin \cup {u} /\ UNCHANGED user
         \/ user[u].status = "none" /\ user' = [user EXCEPT ![u] = Created(1)] /\ admin' = admin \cup {u}
         \/ UNCHANGED <<user, admin>>
  BY DEF BootstrapWrite, past, At
<1>2. u \in User /\ 1 \in 0..MaxPw /\ (alone[p] /\ req[p].made = 1 => u \in admin)
  BY <1>0, <1>1, DirectoryAssumption DEF Carries
<1> HIDE DEF u
<1>3. \A v \in User : Kept(v)
  BY <1>0, <1>1, <1>2, Creating, Unmoved
<1>4. Moves(p) /\ req'[p].at \notin Rotation
  BY <1>0, <1>1, Replying
<1>5. \A v \in admin' \ admin : Present(v) => At(p, "bootstrap") /\ ~alone[p]
  BY <1>1, <1>2 DEF Present, At
<1> QED
  BY <1>1, <1>3, <1>4, <1>5 DEF Quiet

\* Everybody else.
Elsewhere == UNCHANGED <<req, history, trail, mixed>> /\ admin' \subseteq admin /\ \A v \in User : Kept(v)

LEMMA QuietOutside ==
  ASSUME Inv,
         \/ \E u \in User : SignsIn(u) \/ DropAdmin(u)
         \/ \E g \in Group : CreateGroup(g) \/ DeleteGroup(g) \/ SetKind(g) \/ BindRole(g)
         \/ \E g \in Group, u \in User : AddMember(g, u) \/ RemoveMember(g, u)
         \/ SetKey
  PROVE  Elsewhere
<1>0. Shapes
  BY DEF Inv
<1>1. ASSUME NEW u \in User, SignsIn(u) PROVE Elsewhere
  <2>1. UNCHANGED <<req, history, trail, mixed, admin>> /\ user' = [user EXCEPT ![u].live = TRUE]
    BY <1>1 DEF SignsIn, past
  <2>2. \A v \in User : Kept(v)
    BY <1>0, <2>1, LiveWrite, SameRows
  <2> QED
    BY <2>1, <2>2 DEF Elsewhere
<1>2. ASSUME UNCHANGED <<req, history, trail, mixed, user>>, admin' \subseteq admin PROVE Elsewhere
  BY <1>0, <1>2, Unmoved DEF Elsewhere
<1>3. ASSUME NEW g \in Group, NEW r, SetGroup(g, r) PROVE Elsewhere
  BY <1>2, <1>3 DEF SetGroup, past
<1>4. ASSUME NEW u \in User, DropAdmin(u) PROVE Elsewhere
  BY <1>2, <1>4 DEF DropAdmin, past
<1>5. ASSUME NEW g \in Group, CreateGroup(g) \/ DeleteGroup(g) \/ SetKind(g) \/ BindRole(g) PROVE Elsewhere
  BY <1>3, <1>5 DEF CreateGroup, DeleteGroup, SetKind, BindRole
<1>6. ASSUME NEW g \in Group, NEW u \in User, AddMember(g, u) \/ RemoveMember(g, u) PROVE Elsewhere
  BY <1>3, <1>6 DEF AddMember, RemoveMember
<1>7. CASE SetKey
  BY <1>2, <1>7 DEF SetKey, past
<1> QED
  BY <1>1, <1>4, <1>5, <1>6, <1>7

Rotates(p) == \/ \E u \in User, pw \in 1..MaxPw, armed \in BOOLEAN : StartRotation(p, u, pw, armed)
              \/ Swap(p) \/ Push(p) \/ Prune(p) \/ AdminReset(p)

RegroupsFor(p) == Make(p) \/ RemoveGroup(p) \/ \E u \in User : ChangeMember(p, u)

\* Every step is one of these.
LEMMA Kinds ==
  ASSUME Inv, [Next]_vars
  PROVE  \/ \E p \in Proc : Moves(p) /\ Quiet(p) /\ Harmless(p)
         \/ \E p \in Proc : RegroupsFor(p) \/ BootstrapWrite(p) \/ Rotates(p)
         \/ Elsewhere
<1> DEFINE Same(p) == Moves(p) /\ Quiet(p) /\ Harmless(p)
<1>1. ASSUME NEW p \in Proc, UserStep(p) PROVE Same(p)
  BY <1>1, QuietReads, QuietWrites DEF UserStep
<1>2. ASSUME NEW p \in Proc, PasswordStep(p) PROVE Same(p) \/ Rotates(p)
  <2>1. CASE \E u \in User : Invite(p, u)
    BY <2>1, QuietWrites
  <2> QED
    BY <1>2, <2>1 DEF PasswordStep, Rotates
<1>3. ASSUME NEW p \in Proc, ScimStep(p) PROVE Same(p) \/ RegroupsFor(p)
  <2>1. CASE \E active \in BOOLEAN : PatchStatus(p, active)
    BY <2>1, QuietWrites
  <2>2. CASE \/ \E u \in User : ScimFind(p, u) \/ ScimDelete(p, u) \/ ScimPatch(p, u)
             \/ \E u \in User, active \in BOOLEAN : ScimPut(p, u, active)
             \/ PatchDone(p) \/ MembersDone(p) \/ Refused(p) \/ PatchGroupDone(p)
             \/ \E g \in Group, refs \in SUBSET User : ScimCreateGroup(p, g, refs)
             \/ \E g \in Group, op \in {"putGroup", "patchGroup", "deleteGroup"} : ScimGroupOp(p, g, op)
             \/ \E refs \in SUBSET User : ReplaceMembers(p, refs)
             \/ \E u \in User, add \in BOOLEAN : PatchMember(p, u, add)
    BY <2>2, QuietReads
  <2> HIDE DEF Same
  <2> QED
    BY <1>3, <2>1, <2>2 DEF ScimStep, RegroupsFor
<1>4. ASSUME NEW p \in Proc, TenantStep(p) PROVE Same(p) \/ BootstrapWrite(p)
  BY <1>4, QuietReads, QuietWrites DEF TenantStep
<1>5. ASSUME NEW p \in Proc, Fail(p) PROVE Same(p)
  BY <1>5, QuietErrors
<1>6. CASE UNCHANGED vars
  <2>1. \A v \in User : Kept(v)
    BY <1>6, Unmoved DEF Inv, vars, tables
  <2> QED
    BY <1>6, <2>1 DEF Elsewhere, vars, tables, past
<1>7. Next => \/ \E p \in Proc : Same(p)
              \/ \E p \in Proc : RegroupsFor(p) \/ BootstrapWrite(p) \/ Rotates(p)
              \/ Elsewhere
  <2> HIDE DEF Same
  <2> QED
    BY <1>1, <1>2, <1>3, <1>4, <1>5, QuietOutside DEF Next
<1> QED
  BY <1>6, <1>7

\* A rotation is about no group and no role.
LEMMA RotatesOnly ==
  ASSUME Inv, NEW p \in Proc, Rotates(p)
  PROVE  UNCHANGED <<group, admin>> /\ Moves(p)
<1>0. Shapes /\ req[p] \in Request /\ "at" \in DOMAIN req[p] /\ "at" \in DOMAIN [req[p] EXCEPT !.op = "done"]
  BY DEF Inv, Shapes, Request
<1>1. ASSUME NEW u \in User, NEW pw \in 1..MaxPw, NEW armed \in BOOLEAN, StartRotation(p, u, pw, armed)
      PROVE  UNCHANGED <<group, admin>> /\ Moves(p)
  BY <1>1, RotationStart DEF StartRotation, Moves
<1>2. CASE Swap(p) \/ Push(p) \/ Prune(p)
  <2>1. UNCHANGED <<group, admin>> /\ (Reply(p) \/ Goto(p, "push", req[p]) \/ Goto(p, "prune", req[p]))
    BY <1>2 DEF Swap, Push, Prune
  <2> QED
    BY <1>0, <2>1, Going, Replying DEF Place
<1>3. CASE AdminReset(p)
  <2>1. UNCHANGED <<group, admin>> /\ Goto(p, "revoke", [req[p] EXCEPT !.op = "done"])
    BY <1>3 DEF AdminReset
  <2> QED
    BY <1>0, <2>1, Going DEF Place
<1> QED
  BY <1>1, <1>2, <1>3 DEF Rotates

\* No SCIM client changes a group that makes administrators, and no bootstrap promotes a
\* user who was none when it looked, unless somebody else's write came in between.
THEOREM AdministratorsHold == Spec => AdministratorsAreMeant
<1> DEFINE Spares == \A p \in Proc, g \in Group :
                       req[p].op \in {"group", "patchGroup"} /\ alone[p] /\ req'[p] # req[p] /\ group[g].bound
                         => group'[g] = group[g]
           Promotes == \A u \in User : u \in admin' \ admin /\ Present(u) => \E p \in Proc : At(p, "bootstrap") /\ ~alone[p]
<1>1. ASSUME Inv, [Next]_vars PROVE Spares /\ Promotes
  <2>0. /\ \A p \in Proc : Carries(req[p], alone[p], Existing, group, admin)
        /\ \A g \in Group : ~group[g].there => ~group[g].bound
    BY <1>1 DEF Inv, AllCarry, KeysHold
  <2>a. \A p \in Proc : req[p].op \in {"group", "patchGroup"} => req[p].at \in GroupPlace
    BY <2>0 DEF Carries
  <2>1. ASSUME NEW q \in Proc, Moves(q), Quiet(q), Harmless(q) PROVE Spares /\ Promotes
    BY <2>1, <2>a DEF Moves, Harmless
  <2>2. ASSUME NEW q \in Proc, RegroupsFor(q) PROVE Spares /\ Promotes
    <3>1. /\ Moves(q) /\ admin' = admin /\ req[q].at \in GroupPlace
          /\ \A g \in Group : g # req[q].page => group'[g] = group[g]
          /\ At(q, "make") => UNCHANGED group \/ ~group[req[q].page].there
      BY <1>1, <2>2, QuietGroups DEF RegroupsFor
    <3>2. req[q].page \in Group /\ (~At(q, "make") /\ alone[q] => ~group[req[q].page].bound)
      BY <2>0, <3>1 DEF Carries, At
    <3> QED
      BY <2>0, <3>1, <3>2 DEF Moves
  <2>3. ASSUME NEW q \in Proc, BootstrapWrite(q) PROVE Spares /\ Promotes
    <3>1. group' = group /\ \A u \in admin' \ admin : Present(u) => At(q, "bootstrap") /\ ~alone[q]
      BY <1>1, <2>3, QuietBootstrap
    <3> QED
      BY <3>1
  <2>4. ASSUME NEW q \in Proc, Rotates(q) PROVE Spares /\ Promotes
    BY <1>1, <2>4, RotatesOnly
  <2>5. CASE Elsewhere
    BY <2>5 DEF Elsewhere
  <2> HIDE DEF Spares, Promotes
  <2> QED
    BY <1>1, <2>1, <2>2, <2>3, <2>4, <2>5, Kinds
<1>2. Inv /\ [Next]_vars => [Spares]_vars /\ [Promotes]_vars
  BY <1>1
<1>3. Spec => [][Spares]_vars /\ [][Promotes]_vars
  BY <1>2, DirectoryInv, PTL DEF Spec
<1> QED
  BY <1>3 DEF AdministratorsAreMeant, ScimSparesAdministrators, NobodyIsPromoted

-----------------------------------------------------------------------------
(* Rotations *)

\* One rotation at a time, unless they overlapped; between rotations the history is what was
\* superseded, up to what is kept; a rotation that has set the password and not pushed the
\* old one yet owes that entry; one that has not set it looked at the history as it is.
Orderly(u) ==
  /\ \A p, q \in Proc : Rotating(p, u) /\ Rotating(q, u) => p = q
  /\ (\A q \in Proc : Rotating(q, u) => req[q].at # "push") => trail[u] = UpToKeep(history[u])
  /\ \A q \in Proc : Rotating(q, u) /\ req[q].at = "push" => trail[u] = UpToKeep(<<req[q].old>> \o history[u])
  /\ \A q \in Proc : Rotating(q, u) /\ req[q].at = "swap" =>
       /\ req[q].old = user[u].pw
       /\ \A i \in DOMAIN trail[u] : trail[u][i] # req[q].pw

Ordered(u) ==
  /\ user[u].status = "none" => trail[u] = << >> /\ history[u] = << >> /\ \A q \in Proc : ~Rotating(q, u)
  /\ Present(u) /\ u \notin mixed => Orderly(u)

Rotations == \A u \in User : Ordered(u)

LEMMA EmptyKeep == UpToKeep(<< >>) = << >>
<1>1. << >> \in Seq(Nat)
  OBVIOUS
<1>2. UpToKeep(<< >>) \in Seq(Nat) /\ Len(UpToKeep(<< >>)) = (IF Len(<< >>) < Keep THEN Len(<< >>) ELSE Keep)
  BY <1>1, Keeps
<1>3. Len(UpToKeep(<< >>)) = 0
  BY <1>2, DirectoryAssumption
<1> QED
  BY <1>2, <1>3

\* Users whose rotations the step is not about.
LEMMA OthersOrdered ==
  ASSUME NEW u \in User, NEW p \in Proc, Ordered(u), Moves(p), ~Rotating(p, u), ~Rotating(p, u)',
         user'[u].status = user[u].status, user'[u].pw = user[u].pw,
         trail'[u] = trail[u], history'[u] = history[u], mixed \subseteq mixed'
  PROVE  Ordered(u)'
<1>1. \A q \in Proc : Rotating(q, u)' <=> Rotating(q, u)
  BY DEF Moves, Rotating
<1>2. \A q \in Proc : Rotating(q, u) => req'[q] = req[q]
  BY DEF Moves
<1>3. Present(u)' <=> Present(u)
  BY DEF Present
<1>4. ASSUME Orderly(u) PROVE Orderly(u)'
  BY <1>1, <1>2, <1>4 DEF Orderly
<1> QED
  BY <1>1, <1>3, <1>4 DEF Ordered

\* Steps that belong to no rotation.
LEMMA QuietOrdered ==
  ASSUME Inv, Rotations, NEW p \in Proc, Moves(p), Quiet(p)
  PROVE  Rotations'
<1> SUFFICES ASSUME NEW u \in User PROVE Ordered(u)'
  BY DEF Rotations
<1>1. /\ Ordered(u) /\ Kept(u) /\ trail'[u] = trail[u] /\ history'[u] = history[u] /\ mixed \subseteq mixed'
      /\ req[p].at = "push" => req[p].u \in mixed'
      /\ req'[p].at \notin Rotation
  BY DEF Rotations, Quiet
<1>2. ~Rotating(p, u)' /\ \A q \in Proc \ {p} : req'[q] = req[q] /\ (Rotating(q, u)' <=> Rotating(q, u))
  BY <1>1 DEF Rotating, Rotation, Moves
<1>3. \A q \in Proc : Rotating(q, u)' => Rotating(q, u) /\ req'[q] = req[q]
  BY <1>2
<1>4. CASE user[u].status = "none"
  <2>1. trail'[u] = << >> /\ history'[u] = << >> /\ \A q \in Proc : ~Rotating(q, u)'
    BY <1>1, <1>3, <1>4 DEF Ordered
  <2>2. Orderly(u)'
    BY <2>1, EmptyKeep DEF Orderly
  <2> QED
    BY <2>1, <2>2 DEF Ordered
<1>5. CASE user'[u].status = "gone"
  BY <1>5 DEF Ordered, Present
<1>6. CASE user'[u].status # "none" /\ user'[u].pw = user[u].pw /\ (Present(u)' => Present(u))
  <2> SUFFICES ASSUME Present(u)', u \notin mixed' PROVE Orderly(u)'
    BY <1>6 DEF Ordered
  <2>1. Orderly(u)
    BY <1>1, <1>6 DEF Ordered
  <2>2. ~(Rotating(p, u) /\ req[p].at = "push")
    BY <1>1 DEF Rotating
  <2>3. \A q \in Proc : Rotating(q, u) /\ req[q].at = "push" => Rotating(q, u)' /\ req'[q].at = "push"
    BY <1>2, <2>2
  <2>4. (\A q \in Proc : Rotating(q, u)' => req'[q].at # "push") => trail'[u] = UpToKeep(history'[u])
    BY <1>1, <2>1, <2>3 DEF Orderly
  <2> QED
    BY <1>1, <1>3, <1>6, <2>1, <2>4 DEF Orderly
<1> QED
  BY <1>1, <1>4, <1>5, <1>6 DEF Kept

LEMMA ElsewhereOrdered ==
  ASSUME Inv, Rotations, Elsewhere
  PROVE  Rotations'
<1> SUFFICES ASSUME NEW u \in User PROVE Ordered(u)'
  BY DEF Rotations
<1>1. /\ Ordered(u) /\ Kept(u) /\ UNCHANGED <<req, history, trail, mixed>>
  BY DEF Rotations, Elsewhere
<1>2. \A q \in Proc : Rotating(q, u)' <=> Rotating(q, u)
  BY <1>1 DEF Rotating
<1>4. CASE user[u].status = "none"
  <2>1. trail'[u] = << >> /\ history'[u] = << >> /\ \A q \in Proc : ~Rotating(q, u)'
    BY <1>1, <1>2, <1>4 DEF Ordered
  <2>2. Orderly(u)'
    BY <2>1, EmptyKeep DEF Orderly
  <2> QED
    BY <2>1, <2>2 DEF Ordered
<1>5. CASE user'[u].status = "gone"
  BY <1>5 DEF Ordered, Present
<1>6. CASE user'[u].status # "none" /\ user'[u].pw = user[u].pw /\ (Present(u)' => Present(u))
  <2> SUFFICES ASSUME Present(u)', u \notin mixed' PROVE Orderly(u)'
    BY <1>6 DEF Ordered
  <2>1. Orderly(u)
    BY <1>1, <1>6 DEF Ordered
  <2> QED
    BY <1>1, <1>2, <1>6, <2>1 DEF Orderly
<1> QED
  BY <1>1, <1>4, <1>5, <1>6 DEF Kept

\* A rotation starts from the history as it is, or another one of the user is under way.
LEMMA StartOrdered ==
  ASSUME Inv, Rotations, NEW p \in Proc, NEW w \in User, NEW pw \in 1..MaxPw, NEW armed \in BOOLEAN,
         StartRotation(p, w, pw, armed)
  PROVE  Rotations'
<1> SUFFICES ASSUME NEW u \in User PROVE Ordered(u)'
  BY DEF Rotations
<1>1. /\ Moves(p) /\ req'[p].at = "swap" /\ req'[p].u = w /\ req'[p].pw = pw /\ req'[p].old = user[w].pw
      /\ \A v \in User : user'[v].status = user[v].status /\ user'[v].pw = user[v].pw
  BY RotationStart DEF Moves
<1>2. /\ req[p].at = "idle" /\ Present(w) /\ UNCHANGED <<history, trail>>
      /\ pw \notin {Recent(w)[i] : i \in DOMAIN Recent(w)}
      /\ mixed' = IF Overlaps(p, w) THEN mixed \cup {w} ELSE mixed
  BY DEF StartRotation, At, Mark
<1>3. \A v \in User : ~Rotating(p, v)
  BY <1>2 DEF Rotating
<1>4. Ordered(u)
  BY DEF Rotations
<1>5. CASE u # w
  <2>1. ~Rotating(p, u)'
    BY <1>1, <1>5 DEF Rotating
  <2> QED
    BY <1>1, <1>2, <1>3, <1>4, <2>1, OthersOrdered
<1>6. CASE u = w
  <2>1. Present(u)' /\ user'[u].status # "none"
    BY <1>1, <1>2, <1>6 DEF Present
  <2> SUFFICES ASSUME u \notin mixed' PROVE Orderly(u)'
    BY <2>1 DEF Ordered
  <2>2. ~Overlaps(p, u) /\ u \notin mixed
    BY <1>2, <1>6
  <2>3. Orderly(u) /\ \A q \in Proc : ~Rotating(q, u)
    BY <1>2, <1>3, <1>4, <1>6, <2>2 DEF Ordered, Overlaps
  <2>4. trail[u] = UpToKeep(history[u])
    BY <2>3 DEF Orderly
  <2>5. \A q \in Proc : Rotating(q, u)' => q = p
    BY <1>1, <2>3 DEF Moves, Rotating
  <2>6. \A i \in DOMAIN trail[u] : trail[u][i] # pw
    BY <1>2, <1>6, <2>4 DEF Recent
  <2> QED
    BY <1>1, <1>2, <1>6, <2>4, <2>5, <2>6 DEF Orderly
<1> QED
  BY <1>5, <1>6

\* What a step of a rotation finds, if no other of the user has overlapped it.
LEMMA Found ==
  ASSUME Inv, Rotations, NEW p \in Proc, req[p].at \in Rotation
  PROVE  /\ req[p].u \in User /\ Rotating(p, req[p].u) /\ user[req[p].u].status # "none"
         /\ \A v \in User \ {req[p].u} : ~Rotating(p, v)
         /\ Present(req[p].u) /\ req[p].u \notin mixed =>
              /\ Orderly(req[p].u)
              /\ \A q \in Proc : Rotating(q, req[p].u) => q = p
              /\ req[p].at # "push" => trail[req[p].u] = UpToKeep(history[req[p].u])
              /\ req[p].at = "push" => trail[req[p].u] = UpToKeep(<<req[p].old>> \o history[req[p].u])
              /\ req[p].at = "swap" => /\ req[p].old = user[req[p].u].pw
                                       /\ \A i \in DOMAIN trail[req[p].u] : trail[req[p].u][i] # req[p].pw
<1> DEFINE u == req[p].u
<1>1. u \in User
  BY DEF Inv, AllCarry, Carries, Rotation
<1>2. Rotating(p, u) /\ \A v \in User \ {u} : ~Rotating(p, v)
  BY DEF Rotating, Rotation
<1>3. Ordered(u)
  BY <1>1 DEF Rotations
<1> HIDE DEF u
<1>4. user[u].status # "none"
  BY <1>2, <1>3 DEF Ordered
<1>5. ASSUME Present(u), u \notin mixed
      PROVE  /\ Orderly(u)
             /\ \A q \in Proc : Rotating(q, u) => q = p
             /\ req[p].at # "push" => trail[u] = UpToKeep(history[u])
             /\ req[p].at = "push" => trail[u] = UpToKeep(<<req[p].old>> \o history[u])
             /\ req[p].at = "swap" => req[p].old = user[u].pw /\ \A i \in DOMAIN trail[u] : trail[u][i] # req[p].pw
  BY <1>2, <1>3, <1>5 DEF Ordered, Orderly
<1> QED
  BY <1>1, <1>2, <1>4, <1>5 DEF u

\* The step of a rotation that leaves its user in order.
LEMMA OwnOrdered ==
  ASSUME Inv, Rotations, NEW p \in Proc, NEW u \in User, req[p].at \in Rotation, req[p].u = u, Moves(p), UNCHANGED mixed,
         \A v \in User : user'[v].status = user[v].status,
         \A v \in User \ {u} : user'[v].pw = user[v].pw /\ trail'[v] = trail[v] /\ history'[v] = history[v],
         \A v \in User \ {u} : ~Rotating(p, v)',
         ~(Rotating(p, u)' /\ req'[p].at = "swap"),
         Present(u) /\ u \notin mixed =>
           IF Rotating(p, u)' /\ req'[p].at = "push"
             THEN trail'[u] = UpToKeep(<<req'[p].old>> \o history'[u])
             ELSE trail'[u] = UpToKeep(history'[u])
  PROVE  Rotations'
<1>0. /\ user[u].status # "none" /\ \A v \in User \ {u} : ~Rotating(p, v)
      /\ Present(u) /\ u \notin mixed => \A q \in Proc : Rotating(q, u) => q = p
  BY Found
<1>1. ASSUME NEW v \in User \ {u} PROVE Ordered(v)'
  BY <1>0, <1>1, OthersOrdered DEF Rotations
<1>2. Ordered(u)'
  <2>1. user'[u].status # "none" /\ (Present(u)' <=> Present(u))
    BY <1>0 DEF Present
  <2> SUFFICES ASSUME Present(u), u \notin mixed PROVE Orderly(u)'
    BY <2>1 DEF Ordered
  <2>2. \A q \in Proc : Rotating(q, u)' => q = p
    BY <1>0 DEF Rotating, Moves
  <2>3. \/ /\ Rotating(p, u)' /\ req'[p].at = "push" /\ trail'[u] = UpToKeep(<<req'[p].old>> \o history'[u])
        \/ ~(Rotating(p, u)' /\ req'[p].at = "push") /\ trail'[u] = UpToKeep(history'[u])
    OBVIOUS
  <2> QED
    BY <2>2, <2>3 DEF Orderly
<1> QED
  BY <1>1, <1>2 DEF Rotations

LEMMA RotationsOrdered ==
  ASSUME Inv, Rotations, NEW p \in Proc, Swap(p) \/ Push(p) \/ Prune(p) \/ AdminReset(p)
  PROVE  Rotations'
<1>0. /\ Shapes /\ req[p] \in Request /\ Carries(req[p], alone[p], Existing, group, admin)
      /\ user \in [User -> UserRow] /\ history \in [User -> Seq(1..MaxPw)] /\ trail \in [User -> Seq(0..MaxPw)]
  BY DEF Inv, Shapes, AllCarry
<1>a. req[p].at \in Rotation
  BY DEF Swap, Push, Prune, AdminReset, At, Rotation
<1>b. PICK u \in User : req[p].u = u
  BY <1>a, Found
<1>c. /\ user[u].status # "none"
      /\ Present(u) /\ u \notin mixed =>
           /\ req[p].at # "push" => trail[u] = UpToKeep(history[u])
           /\ req[p].at = "push" => trail[u] = UpToKeep(<<req[p].old>> \o history[u])
           /\ req[p].at = "swap" => req[p].old = user[u].pw
  BY <1>a, <1>b, Found
<1>d. ASSUME Reply(p) PROVE Moves(p) /\ \A v \in User : ~Rotating(p, v)'
  BY <1>0, <1>d, Replying DEF Rotating, Rotation
<1>e. history[u] \in Seq(1..MaxPw) /\ UpToKeep(UpToKeep(history[u])) = UpToKeep(history[u])
      /\ \A x \in 1..MaxPw : <<x>> \o history[u] \in Seq(1..MaxPw) /\ UpToKeep(<<x>> \o UpToKeep(history[u])) = UpToKeep(<<x>> \o history[u])
  <2>1. history[u] \in Seq(1..MaxPw)
    BY <1>0
  <2>2. ASSUME NEW x \in 1..MaxPw
        PROVE  <<x>> \o history[u] \in Seq(1..MaxPw) /\ UpToKeep(<<x>> \o UpToKeep(history[u])) = UpToKeep(<<x>> \o history[u])
    <3>1. UpToKeep(<<x>> \o UpToKeep(history[u])) = UpToKeep(<<x>> \o history[u])
      BY <2>1, KeepsTwice
    <3>2. <<x>> \o history[u] \in Seq(1..MaxPw)
      BY <2>1
    <3> QED
      BY <3>1, <3>2
  <2>3. 1 \in 1..MaxPw
    BY DirectoryAssumption
  <2>4. UpToKeep(UpToKeep(history[u])) = UpToKeep(history[u])
    BY <2>1, <2>3, KeepsTwice
  <2> QED
    BY <2>1, <2>2, <2>4
<1>f. req[p].old > 0 => req[p].old \in 1..MaxPw
  <2>1. req[p].old \in 0..MaxPw
    BY <1>0 DEF Request
  <2> QED
    BY <2>1, DirectoryAssumption
<1>1. CASE Swap(p)
  <2>1. /\ At(p, "swap") /\ user' = IF Present(u) THEN Set(p) ELSE user
        /\ \/ req[p].old > 0 /\ Goto(p, "push", req[p]) /\ trail' = Trailed(p)
           \/ Reply(p) /\ UNCHANGED trail
        /\ UNCHANGED <<history, mixed>>
    BY <1>1, <1>b DEF Swap
  <2>2. /\ \A v \in User : user'[v].status = user[v].status
        /\ \A v \in User \ {u} : user'[v].pw = user[v].pw
    BY <1>b, <2>1, SetWrite
  <2>3. CASE Reply(p) /\ UNCHANGED trail
    <3>1. Moves(p) /\ \A v \in User : ~Rotating(p, v)'
      BY <1>d, <2>3
    <3>2. Present(u) /\ u \notin mixed => trail'[u] = UpToKeep(history'[u])
      BY <1>c, <2>1, <2>3 DEF At
    <3> QED
      BY <1>a, <1>b, <2>1, <2>2, <2>3, <3>1, <3>2, OwnOrdered
  <2>4. CASE req[p].old > 0 /\ Goto(p, "push", req[p]) /\ trail' = Trailed(p)
    <3>1. Moves(p) /\ req'[p].at = "push" /\ req'[p].u = u /\ req'[p].old = req[p].old
      BY <1>0, <1>b, <2>4, GotoShape DEF Moves, Place
    <3>2. trail' = [trail EXCEPT ![u] = UpToKeep(<<user[u].pw>> \o trail[u])]
      BY <1>b, <2>4 DEF Trailed
    <3>3. trail'[u] = UpToKeep(<<user[u].pw>> \o trail[u]) /\ \A v \in User \ {u} : trail'[v] = trail[v]
      BY <1>0, <3>2
    <3>4. Present(u) /\ u \notin mixed => trail'[u] = UpToKeep(<<req'[p].old>> \o history'[u])
      <4> SUFFICES ASSUME Present(u), u \notin mixed PROVE trail'[u] = UpToKeep(<<req'[p].old>> \o history'[u])
        OBVIOUS
      <4>1. trail'[u] = UpToKeep(<<req[p].old>> \o UpToKeep(history[u]))
        BY <1>c, <2>1, <3>3 DEF At
      <4> QED
        BY <1>e, <1>f, <2>1, <2>4, <3>1, <4>1
    <3>5. /\ \A v \in User \ {u} : ~Rotating(p, v)'
          /\ Rotating(p, u)'
      BY <3>1 DEF Rotating
    <3> QED
      BY <1>a, <1>b, <2>1, <2>2, <3>1, <3>3, <3>4, <3>5, OwnOrdered
  <2> QED
    BY <2>1, <2>3, <2>4
<1>2. CASE Push(p)
  <2>1. /\ At(p, "push") /\ history' = [history EXCEPT ![u] = <<req[p].old>> \o history[u]]
        /\ Goto(p, "prune", req[p]) /\ UNCHANGED <<user, trail, mixed>>
    BY <1>2, <1>b DEF Push, Pushed, past
  <2>2. history'[u] = <<req[p].old>> \o history[u] /\ \A v \in User \ {u} : history'[v] = history[v]
    BY <1>0, <2>1
  <2>3. Moves(p) /\ req'[p].at = "prune" /\ req'[p].u = u
    BY <1>0, <1>b, <2>1, GotoShape DEF Moves, Place
  <2>4. Present(u) /\ u \notin mixed => trail'[u] = UpToKeep(history'[u])
    BY <1>c, <2>1, <2>2 DEF At
  <2>5. \A v \in User \ {u} : ~Rotating(p, v)'
    BY <2>3 DEF Rotating
  <2> QED
    BY <1>a, <1>b, <2>1, <2>2, <2>3, <2>4, <2>5, OwnOrdered
<1>3. CASE Prune(p)
  <2>1. /\ At(p, "prune") /\ history' = [history EXCEPT ![u] = UpToKeep(history[u])]
        /\ Reply(p) /\ UNCHANGED <<user, trail, mixed>>
    BY <1>3, <1>b DEF Prune, Pruned, past
  <2>2. history'[u] = UpToKeep(history[u]) /\ \A v \in User \ {u} : history'[v] = history[v]
    BY <1>0, <2>1
  <2>3. Moves(p) /\ \A v \in User : ~Rotating(p, v)'
    BY <1>d, <2>1
  <2>4. Present(u) /\ u \notin mixed => trail'[u] = UpToKeep(history'[u])
    <3>1. Present(u) /\ u \notin mixed => trail[u] = UpToKeep(history[u])
      BY <1>c, <2>1 DEF At
    <3> QED
      BY <1>e, <2>1, <2>2, <3>1
  <2> QED
    BY <1>a, <1>b, <2>1, <2>2, <2>3, <2>4, OwnOrdered
<1>4. CASE AdminReset(p)
  <2> DEFINE r == [req[p] EXCEPT !.op = "done"]
  <2>1. /\ At(p, "swap") /\ user' = IF Present(u) THEN Set(p) ELSE user
        /\ \/ /\ req[p].old > 0 /\ history' = [history EXCEPT ![u] = UpToKeep(<<req[p].old>> \o history[u])]
              /\ trail' = [trail EXCEPT ![u] = UpToKeep(<<user[u].pw>> \o trail[u])]
           \/ UNCHANGED <<history, trail>>
        /\ Goto(p, "revoke", r) /\ UNCHANGED mixed
    BY <1>4, <1>b DEF AdminReset, Pruned, Pushed, Trailed
  <2>2. /\ \A v \in User : user'[v].status = user[v].status
        /\ \A v \in User \ {u} : user'[v].pw = user[v].pw
    BY <1>b, <2>1, SetWrite
  <2>3. "at" \in DOMAIN r
    BY <1>0 DEF Request
  <2> HIDE DEF r
  <2>4. Moves(p) /\ req'[p].at = "revoke"
    BY <1>0, <2>1, <2>3, Going DEF Place
  <2>5. \A v \in User : ~Rotating(p, v)'
    BY <2>4 DEF Rotating
  <2>6. CASE UNCHANGED <<history, trail>>
    <3>1. Present(u) /\ u \notin mixed => trail'[u] = UpToKeep(history'[u])
      BY <1>c, <2>1, <2>6 DEF At
    <3> QED
      BY <1>a, <1>b, <2>1, <2>2, <2>4, <2>5, <2>6, <3>1, OwnOrdered
  <2>7. CASE /\ req[p].old > 0 /\ history' = [history EXCEPT ![u] = UpToKeep(<<req[p].old>> \o history[u])]
             /\ trail' = [trail EXCEPT ![u] = UpToKeep(<<user[u].pw>> \o trail[u])]
    <3>1. /\ history'[u] = UpToKeep(<<req[p].old>> \o history[u]) /\ trail'[u] = UpToKeep(<<user[u].pw>> \o trail[u])
          /\ \A v \in User \ {u} : history'[v] = history[v] /\ trail'[v] = trail[v]
      BY <1>0, <2>7
    <3>2. ASSUME Present(u), u \notin mixed PROVE trail'[u] = UpToKeep(history'[u])
      <4>1. trail'[u] = UpToKeep(<<req[p].old>> \o UpToKeep(history[u]))
        BY <1>c, <2>1, <3>1, <3>2 DEF At
      <4>2. <<req[p].old>> \o history[u] \in Seq(1..MaxPw)
            /\ UpToKeep(<<req[p].old>> \o UpToKeep(history[u])) = UpToKeep(<<req[p].old>> \o history[u])
        BY <1>e, <1>f, <2>7
      <4>3. 1 \in 1..MaxPw
        BY DirectoryAssumption
      <4>4. UpToKeep(UpToKeep(<<req[p].old>> \o history[u])) = UpToKeep(<<req[p].old>> \o history[u])
        BY <4>2, <4>3, KeepsTwice
      <4> QED
        BY <3>1, <4>1, <4>2, <4>4
    <3> QED
      BY <1>a, <1>b, <2>1, <2>2, <2>4, <2>5, <3>1, <3>2, OwnOrdered
  <2> QED
    BY <2>1, <2>6, <2>7
<1> QED
  BY <1>1, <1>2, <1>3, <1>4

LEMMA InitRotations == Init => Rotations
<1> SUFFICES ASSUME Init, NEW u \in User PROVE Ordered(u)
  BY DEF Rotations
<1>1. trail[u] = << >> /\ history[u] = << >> /\ req = [p \in Proc |-> Idle]
  BY DEF Init
<1>2. \A q \in Proc : ~Rotating(q, u)
  BY <1>1, IdleShape DEF Rotating
<1>3. Orderly(u)
  BY <1>1, <1>2, EmptyKeep DEF Orderly
<1> QED
  BY <1>1, <1>2, <1>3 DEF Ordered

LEMMA StepRotations ==
  ASSUME Inv, Rotations, [Next]_vars
  PROVE  Rotations'
<1>1. CASE \E p \in Proc : Moves(p) /\ Quiet(p) /\ Harmless(p)
  BY <1>1, QuietOrdered
<1>2. ASSUME NEW p \in Proc, RegroupsFor(p) \/ BootstrapWrite(p) PROVE Rotations'
  <2>1. Moves(p) /\ Quiet(p)
    BY <1>2, QuietGroups, QuietBootstrap DEF RegroupsFor
  <2> QED
    BY <2>1, QuietOrdered
<1>3. ASSUME NEW p \in Proc, Rotates(p) PROVE Rotations'
  BY <1>3, StartOrdered, RotationsOrdered DEF Rotates
<1>4. CASE Elsewhere
  BY <1>4, ElsewhereOrdered
<1> QED
  BY <1>1, <1>2, <1>3, <1>4, Kinds

\* Whoever sets a password, by whatever route, none of the last ones replaced comes back,
\* unless two rotations of the user overlapped or one was cut short.
THEOREM OldPasswordsHold == Spec => OldPasswordsStayOut
<1> DEFINE Out == \A u \in User : user'[u].pw # user[u].pw /\ u \notin mixed' =>
                    \A i \in DOMAIN trail[u] : user'[u].pw # trail[u][i]
<1>1. ASSUME Inv, Rotations, [Next]_vars PROVE Out
  <2> SUFFICES ASSUME NEW u \in User, user'[u].pw # user[u].pw, u \notin mixed'
               PROVE  \A i \in DOMAIN trail[u] : user'[u].pw # trail[u][i]
    OBVIOUS
  <2>0. Ordered(u) /\ history[u] \in Seq(1..MaxPw)
    BY <1>1 DEF Rotations, Inv, Shapes
  <2>1. ASSUME Kept(u), mixed \subseteq mixed' PROVE \A i \in DOMAIN trail[u] : user'[u].pw # trail[u][i]
    <3>1. CASE user[u].status = "none"
      BY <2>0, <3>1 DEF Ordered
    <3>2. CASE Present(u) /\ user'[u].pw = 0
      <4>1. Orderly(u)
        BY <2>0, <2>1, <3>2 DEF Ordered
      <4>2. PICK s \in Seq(1..MaxPw) : trail[u] = UpToKeep(s)
        <5>1. CASE \A q \in Proc : Rotating(q, u) => req[q].at # "push"
          BY <2>0, <4>1, <5>1 DEF Orderly
        <5>2. ASSUME NEW q \in Proc, Rotating(q, u), req[q].at = "push"
              PROVE  \E s \in Seq(1..MaxPw) : trail[u] = UpToKeep(s)
          <6>1. req[q].old \in 1..MaxPw
            BY <1>1, <5>2 DEF Inv, AllCarry, Carries
          <6>2. <<req[q].old>> \o history[u] \in Seq(1..MaxPw)
            BY <2>0, <6>1
          <6>3. trail[u] = UpToKeep(<<req[q].old>> \o history[u])
            BY <4>1, <5>2 DEF Orderly
          <6> QED
            BY <6>2, <6>3
        <5> QED
          BY <5>1, <5>2
      <4>3. trail[u] \in Seq(1..MaxPw)
        BY <4>2, Keeps
      <4>4. \A i \in DOMAIN trail[u] : trail[u][i] \in 1..MaxPw
        BY <4>3, Entries
      <4>5. \A n \in 1..MaxPw : n # 0
        BY DirectoryAssumption
      <4> QED
        BY <3>2, <4>4, <4>5
    <3>3. CASE user'[u].pw = user[u].pw
      BY <3>3
    <3> QED
      BY <2>1, <3>1, <3>2, <3>3 DEF Kept
  <2>2. ASSUME NEW p \in Proc, Quiet(p) PROVE \A i \in DOMAIN trail[u] : user'[u].pw # trail[u][i]
    BY <2>1, <2>2 DEF Quiet
  <2>3. ASSUME NEW p \in Proc, RegroupsFor(p) \/ BootstrapWrite(p)
        PROVE  \A i \in DOMAIN trail[u] : user'[u].pw # trail[u][i]
    BY <1>1, <2>2, <2>3, QuietGroups, QuietBootstrap DEF RegroupsFor
  <2>4. CASE Elsewhere
    BY <2>1, <2>4 DEF Elsewhere
  <2>5. ASSUME NEW p \in Proc, Rotates(p) PROVE \A i \in DOMAIN trail[u] : user'[u].pw # trail[u][i]
    <3>1. CASE \E w \in User, pw \in 1..MaxPw, armed \in BOOLEAN : StartRotation(p, w, pw, armed)
      BY <1>1, <3>1, RotationStart
    <3>2. CASE Push(p) \/ Prune(p)
      BY <3>2 DEF Push, Prune
    <3>3. CASE Swap(p) \/ AdminReset(p)
      <4>1. At(p, "swap") /\ user' = (IF Present(req[p].u) THEN Set(p) ELSE user) /\ UNCHANGED mixed
        BY <3>3 DEF Swap, AdminReset
      <4>2. /\ req[p].u \in User /\ \A v \in User \ {req[p].u} : user'[v] = user[v]
            /\ Present(req[p].u) => user'[req[p].u].pw = req[p].pw
        BY <1>1, <4>1, SetWrite
      <4>3. u = req[p].u /\ Present(u)
        BY <4>1, <4>2
      <4>4. \A i \in DOMAIN trail[u] : trail[u][i] # req[p].pw
        BY <1>1, <4>1, <4>3, Found DEF At, Rotation
      <4> QED
        BY <4>2, <4>3, <4>4
    <3> QED
      BY <2>5, <3>1, <3>2, <3>3 DEF Rotates
  <2> QED
    BY <1>1, <2>2, <2>3, <2>4, <2>5, Kinds
<1>2. Inv /\ Rotations /\ [Next]_vars => Rotations'
  BY StepRotations
<1>3. Inv /\ Rotations /\ [Next]_vars => [Out]_vars
  BY <1>1
<1>4. Spec => [](Inv /\ Rotations)
  <2>1. Init => Inv /\ Rotations
    BY InitInv, InitRotations
  <2>2. Inv /\ Rotations /\ [Next]_vars => (Inv /\ Rotations)'
    BY <1>2, StepInv
  <2> QED
    BY <2>1, <2>2, PTL DEF Spec
<1>5. Spec => [][Out]_vars
  BY <1>3, <1>4, PTL DEF Spec
<1> QED
  BY <1>5 DEF OldPasswordsStayOut
=============================================================================
