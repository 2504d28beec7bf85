---------------------------- MODULE FrontEndProofs ----------------------------
(***************************************************************************)
(* Proofs about the front end: what the operators on the log return, that   *)
(* pages put together are the list of one revision but for the keys that a  *)
(* list may show wrongly, and the invariants of the cache and of Close for  *)
(* every number of keys, rows, watches and callers, and every size of a     *)
(* page.                                                                    *)
(***************************************************************************)
EXTENDS FrontEnd, TLAPS, WellFoundedInduction, FiniteSetTheorems

-----------------------------------------------------------------------------
(* Numbers.                                                                 *)

\* A set of numbers that is not empty has a least one.
LEMMA NatMin == ASSUME NEW T \in SUBSET Nat, T # {} PROVE \E x \in T : \A y \in T : x <= y
<1> DEFINE R == {ss \in Nat \X Nat : ss[1] < ss[2]}
<1>1. IsWellFoundedOn(R, Nat)
  BY NatLessThanWellFounded DEF OpToRel
<1>2. \A x, y \in Nat : <<y, x>> \in R <=> y < x
  OBVIOUS
<1>3. ASSUME NEW Q, IsWellFoundedOn(Q, Nat), \A x, y \in Nat : <<y, x>> \in Q <=> y < x
      PROVE  \E x \in T : \A y \in T : x <= y
  <2>1. PICK x \in T : \A y \in T : ~ (<<y, x>> \in Q)
    BY <1>3, WFMin
  <2>2. ASSUME NEW y \in T PROVE x <= y
    <3>1. ~ (<<y, x>> \in Q) /\ x \in Nat /\ y \in Nat
      BY <2>1
    <3>2. ~ (y < x)
      BY <1>3, <3>1
    <3> QED
      BY <3>1, <3>2
  <2> QED
    BY <2>2
<1> HIDE DEF R
<1> QED
  BY <1>1, <1>2, <1>3

\* Max returns the largest of a set of numbers that is not empty and has a bound.
LEMMA MaxIs == ASSUME NEW S \in SUBSET Nat, NEW n \in Nat, S # {}, \A x \in S : x <= n
               PROVE Max(S) \in S /\ \A y \in S : y <= Max(S)
<1> DEFINE T == {k \in Nat : \E x \in S : k = n - x}
<1>1. T \in SUBSET Nat 
  OBVIOUS
<1>1a. T # {}
  <2>1. PICK x \in S : TRUE
    OBVIOUS
  <2>2. n - x \in Nat
    OBVIOUS
  <2> QED BY <2>2
<1> HIDE DEF T
<1>2. PICK t \in T : \A y \in T : t <= y
  BY <1>1, <1>1a, NatMin
<1>3. PICK m \in S : t = n - m
  BY <1>2 DEF T
<1>4. \A y \in S : m >= y
  <2> TAKE y \in S
  <2>1. n - y \in T BY DEF T
  <2> QED BY <2>1, <1>2, <1>3
<1> QED
  BY <1>4 DEF Max

-----------------------------------------------------------------------------
(* The log.                                                                 *)

\* Newest row of a key: there is none, or it is one of the key and no later
\* one up to the revision is.
LEMMA NewestIs ==
    ASSUME NEW L, NEW k, NEW r \in Nat
    PROVE  /\ NewestAt(L, k, r) \in 0..r
           /\ NewestAt(L, k, r) # 0 => L[NewestAt(L, k, r)].key = k
           /\ \A j \in 1..r : L[j].key = k => j <= NewestAt(L, k, r)
<1> DEFINE S == {i \in 1..r : L[i].key = k} \cup {0}
<1>1. S \in SUBSET Nat /\ S # {} /\ \A x \in S : x <= r
  OBVIOUS
<1> HIDE DEF S
<1>2. Max(S) \in S /\ \A y \in S : y <= Max(S)
  BY <1>1, MaxIs
<1>3. NewestAt(L, k, r) = Max(S)
  BY DEF NewestAt, S
<1> QED
  BY <1>2, <1>3 DEF S

\* So it is with a row added later.
LEMMA NewestStays ==
    ASSUME NEW L \in Seq(Rows), NEW e \in Rows, NEW r \in 0..Len(L), NEW k
    PROVE  NewestAt(Append(L, e), k, r) = NewestAt(L, k, r)
<1>1. \A i \in 1..r : Append(L, e)[i] = L[i]
  OBVIOUS
<1>2. {i \in 1..r : Append(L, e)[i].key = k} = {i \in 1..r : L[i].key = k}
  BY <1>1
<1> QED
  BY <1>2 DEF NewestAt

\* Row i is what the store has of key k at revision r.
Current(L, k, r, i) == i # 0 /\ i = NewestAt(L, k, r) /\ ~ L[i].delete

\* It is the one row of the key among those that are live.
LEMMA CurrentIs ==
    ASSUME NEW L \in Seq(Rows), NEW r \in 0..Len(L), NEW k \in Keys, NEW i
    PROVE  (i \in LiveAt(L, r) /\ L[i].key = k) <=> Current(L, k, r, i)
<1>1. ASSUME i \in LiveAt(L, r), L[i].key = k PROVE Current(L, k, r, i)
  <2>1. PICK h \in Keys : i = NewestAt(L, h, r)
    BY <1>1 DEF LiveAt
  <2>2. i \in 1..Len(L) /\ ~ L[i].delete
    BY <1>1 DEF LiveAt
  <2>3. h = k
    BY <1>1, <2>1, <2>2, NewestIs
  <2> QED
    BY <2>1, <2>2, <2>3 DEF Current
<1>2. ASSUME Current(L, k, r, i) PROVE i \in LiveAt(L, r) /\ L[i].key = k
  <2>1. i \in 1..r /\ L[i].key = k /\ ~ L[i].delete
    BY <1>2, NewestIs DEF Current
  <2> QED
    BY <1>2, <2>1 DEF Current, LiveAt
<1> QED
  BY <1>1, <1>2

\* The ModRevision is a revision of the log, and of the newest row.
LEMMA ModIs ==
    ASSUME NEW L \in Seq(Rows), NEW k
    PROVE  /\ Mod(L, k) \in 0..Len(L)
           /\ Mod(L, k) # 0 => NewestAt(L, k, Len(L)) = Mod(L, k)
<1>1. Len(L) \in Nat
  OBVIOUS
<1>2. NewestAt(L, k, Len(L)) \in 0..Len(L)
  BY <1>1, NewestIs
<1> QED
  BY <1>1, <1>2 DEF Mod

\* What a read shows of a key is nothing or its newest row, and that exactly when
\* none of the rows read is a tombstone.
LEMMA ShownIs ==
    ASSUME NEW L \in Seq(Rows), NEW r \in 0..Len(L), NEW a \in 0..r, NEW k,
           NEW i \in Shown(L, k, a, r)
    PROVE  /\ i \in {0, NewestAt(L, k, r)} /\ (i # 0 => i > a)
           /\ (\A j \in 1..r : L[j].key = k => ~ L[j].delete) /\ NewestAt(L, k, r) > a
                => i = NewestAt(L, k, r)
<1> DEFINE n == NewestAt(L, k, r)
<1>1. n \in 0..r
  BY NewestIs
<1> HIDE DEF n
<1>2. CASE n <= a
  <2>1. i = 0
    BY <1>2 DEF Shown, n
  <2> QED
    BY <1>1, <1>2, <2>1 DEF n
<1>3. CASE ~ (n <= a)
  <2>1. PICK j \in (a + 1)..r : L[j].key = k /\ i = IF L[j].delete THEN 0 ELSE n
    BY <1>3 DEF Shown, n
  <2>2. j \in 1..r
    BY <2>1
  <2> QED
    BY <1>1, <1>3, <2>1, <2>2 DEF n
<1> QED
  BY <1>2, <1>3

-----------------------------------------------------------------------------
(* Pages.                                                                   *)

\* P is S up to some element: it skips nothing.
Segment(P, S) == P \subseteq S /\ \A i \in P : \A j \in S : j < i => j \in P

\* The first n of a set skip nothing, are not empty if there are any, and are
\* all of the set if it has at most n, or if they are fewer than n.
LEMMA FirstIs ==
    ASSUME NEW m \in Nat, NEW S \in SUBSET (1..m), NEW n \in Nat
    PROVE  /\ Segment(First(S, n), S)
           /\ n # 0 /\ S # {} => First(S, n) # {}
           /\ Cardinality(First(S, n)) < n => First(S, n) = S
           /\ Cardinality(S) <= n => First(S, n) = S
<1> DEFINE Below(i) == {j \in S : j < i}
<1>1. IsFiniteSet(S)
  <2>1. IsFiniteSet(1..m)
    BY FS_Interval
  <2> QED
    BY <2>1, FS_Subset
<1>2. \A i : IsFiniteSet(Below(i)) /\ Cardinality(Below(i)) \in Nat
  BY <1>1, FS_Subset, FS_CardinalityType
<1>3. S \subseteq Nat
  OBVIOUS
<1>4. Segment(First(S, n), S)
  <2>1. First(S, n) \subseteq S
    BY DEF First
  <2>2. ASSUME NEW i \in First(S, n), NEW j \in S, j < i PROVE j \in First(S, n)
    <3>1. Below(j) \subseteq Below(i)
      <4>1. ASSUME NEW y \in Below(j) PROVE y \in Below(i)
        <5>1. y \in Nat /\ j \in Nat /\ i \in Nat /\ y \in S /\ y < j
          BY <1>3, <2>1
        <5> QED
          BY <5>1, <2>2
      <4> QED
        BY <4>1
    <3>2. Cardinality(Below(j)) <= Cardinality(Below(i))
      BY <3>1, <1>2, FS_Subset
    <3>3. Cardinality(Below(i)) < n
      BY DEF First
    <3>4. Cardinality(Below(j)) < n
      BY <3>2, <3>3, <1>2
    <3> QED
      BY <3>4 DEF First
  <2> QED
    BY <2>1, <2>2 DEF Segment
<1>5. ASSUME n # 0, S # {} PROVE First(S, n) # {}
  <2>1. PICK x \in S : \A y \in S : x <= y
    BY <1>3, <1>5, NatMin
  <2>2. ASSUME NEW y \in Below(x) PROVE FALSE
    <3>1. x \in Nat /\ y \in Nat /\ x <= y /\ y < x
      BY <1>3, <2>1
    <3> QED
      BY <3>1
  <2>3. Below(x) = {}
    BY <2>2
  <2>4. Cardinality(Below(x)) < n
    BY <2>3, <1>5, FS_EmptySet
  <2> QED
    BY <2>4 DEF First
<1>6. ASSUME Cardinality(First(S, n)) < n PROVE First(S, n) = S
  <2>1. First(S, n) \subseteq S
    BY DEF First
  <2>2. IsFiniteSet(First(S, n)) /\ Cardinality(First(S, n)) \in Nat
    BY <2>1, <1>1, FS_Subset, FS_CardinalityType
  <2>3. ASSUME S \ First(S, n) # {} PROVE FALSE
    <3>1. S \ First(S, n) \in SUBSET Nat
      BY <1>3
    <3>2. PICK x \in S \ First(S, n) : \A y \in S \ First(S, n) : x <= y
      BY <2>3, <3>1, NatMin
    <3>3. Below(x) \subseteq First(S, n)
      <4>1. ASSUME NEW y \in Below(x), y \notin First(S, n) PROVE FALSE
        <5>1. x \in Nat /\ y \in Nat /\ x <= y /\ y < x
          BY <1>3, <3>2, <4>1
        <5> QED
          BY <5>1
      <4> QED
        BY <4>1
    <3>4. Cardinality(Below(x)) <= Cardinality(First(S, n))
      BY <3>3, <2>2, FS_Subset
    <3>5. Cardinality(Below(x)) < n
      BY <3>4, <2>2, <1>2, <1>6
    <3> QED
      BY <3>2, <3>5 DEF First
  <2> QED
    BY <2>1, <2>3
<1>7. ASSUME Cardinality(S) <= n PROVE First(S, n) = S
  <2>1. ASSUME NEW i \in S PROVE i \in First(S, n)
    <3>1. Below(i) \in SUBSET S /\ Below(i) # S
      BY <1>3
    <3>2. Cardinality(Below(i)) <= Cardinality(S) /\ Cardinality(Below(i)) # Cardinality(S)
      BY <3>1, <1>1, FS_Subset
    <3>3. Cardinality(S) \in Nat
      BY <1>1, FS_CardinalityType
    <3>4. Cardinality(Below(i)) < n
      BY <3>2, <3>3, <1>2, <1>7
    <3> QED
      BY <3>4 DEF First
  <2> QED
    BY <2>1 DEF First
<1> QED
  BY <1>4, <1>5, <1>6, <1>7

\* A page of the rows S.
IsPage(page, S) ==
    /\ page.more \in BOOLEAN
    /\ Segment(page.kvs, S)
    /\ page.more => page.kvs # {}
    /\ ~ page.more => page.kvs = S

\* LimitedServer.list hands out rows without a gap; if it says that there are
\* no more these are all, and otherwise they are at least one.
LEMMA PageIs ==
    ASSUME NEW m \in Nat, NEW S \in SUBSET (1..m)
    PROVE  IsPage(list(S), S)
<1> DEFINE B == First(S, Limit + 1)
           P == First(B, Limit)
<1>1. Limit \in Nat \ {0} /\ Limit + 1 \in Nat \ {0}
  BY FrontEndAssumption
<1>2. list(S).kvs = P /\ list(S).more = (Cardinality(B) > Limit)
  BY DEF list
<1>3. (Cardinality(B) > Limit) \in BOOLEAN
  OBVIOUS
<1>4. Segment(B, S) /\ (Cardinality(B) < Limit + 1 => B = S)
  BY <1>1, FirstIs
<1>5. B \in SUBSET (1..m)
  BY <1>4 DEF Segment
<1>6. IsFiniteSet(B) /\ Cardinality(B) \in Nat
  <2>1. IsFiniteSet(1..m)
    BY FS_Interval
  <2> QED
    BY <2>1, <1>5, FS_Subset, FS_CardinalityType
<1> HIDE DEF B
<1>7. Segment(P, B) /\ (B # {} => P # {}) /\ (Cardinality(B) <= Limit => P = B)
  BY <1>1, <1>5, FirstIs
<1> HIDE DEF P
<1>8. Segment(P, S)
  BY <1>4, <1>7 DEF Segment
<1>9. Cardinality(B) > Limit => B # {}
  BY <1>1, FS_EmptySet
<1>10. ~ (Cardinality(B) > Limit) => B = S /\ P = B
  BY <1>1, <1>4, <1>6, <1>7
<1> QED
  BY <1>2, <1>3, <1>7, <1>8, <1>9, <1>10 DEF IsPage

-----------------------------------------------------------------------------
(* Writes.                                                                  *)

\* What a call of the backend may have to write.
Pending == {<<>>} \cup {<<e>> : e \in Rows}

\* Every answer has one row or none.
LEMMA TxnRows ==
    ASSUME NEW L, NEW k \in Keys, NEW t,
           t.key = k, Len(t.success) = 1, t.success[1].key = k, NEW a \in Txn(L, t)
    PROVE  a.rows \in Pending
<1>1. <<>> \in Pending /\ <<Row(k, FALSE)>> \in Pending /\ <<Row(k, TRUE)>> \in Pending
  BY DEF Pending, Row, Rows
<1>2. \A ok : Answer(<<>>, ok).rows \in Pending
  BY <1>1 DEF Answer
<1>3. BackendCreate(L, k).rows \in Pending
  BY <1>1 DEF BackendCreate, Answer
<1>4. ASSUME NEW b \in BackendUpdate(L, k, t.rev) PROVE b.rows \in Pending
  <2>1. b \in {Answer(<<>>, "no"), Answer(<<Row(k, FALSE)>>, "yes")}
    BY DEF BackendUpdate
  <2>2. CASE b = Answer(<<>>, "no")
    BY <1>2, <2>2
  <2>3. CASE b = Answer(<<Row(k, FALSE)>>, "yes")
    BY <1>1, <2>3 DEF Answer
  <2> QED
    BY <2>1, <2>2, <2>3
<1>5. \A r : BackendDelete(L, k, r).rows \in Pending
  BY <1>1 DEF BackendDelete, Answer
<1>6. create(L, t).rows \in Pending
  BY <1>2, <1>3 DEF create
<1>7. delete(L, t).rows \in Pending
  BY <1>5 DEF delete
<1>8. \A b \in update(L, t) : b.rows \in Pending
  BY <1>2, <1>3, <1>4 DEF update
<1>9. CASE isCreate(t)
  BY <1>6, <1>9 DEF Txn
<1>10. CASE ~ isCreate(t) /\ isDelete(t)
  BY <1>7, <1>10 DEF Txn
<1>11. CASE ~ isCreate(t) /\ ~ isDelete(t) /\ isUpdate(t)
  BY <1>8, <1>11 DEF Txn
<1>12. CASE ~ isCreate(t) /\ ~ isDelete(t) /\ ~ isUpdate(t)
  BY <1>2, <1>12 DEF Txn
<1> QED
  BY <1>9, <1>10, <1>11, <1>12

\* The client's methods make transactions of that shape.
LEMMA MethodRows ==
    ASSUME NEW L, NEW k \in Keys, NEW r, NEW failure, NEW op \in {"put", "delete"},
           NEW a \in Txn(L, Compared(k, r, Op(op, k, TRUE), failure))
    PROVE  a.rows \in Pending
<1> DEFINE t == Compared(k, r, Op(op, k, TRUE), failure)
<1>1. t.key = k /\ Len(t.success) = 1 /\ t.success[1].key = k
  BY DEF Compared, Op
<1> HIDE DEF t
<1>2. a \in Txn(L, t)
  BY DEF t
<1> QED
  BY <1>1, <1>2, TxnRows

-----------------------------------------------------------------------------
(* Types.                                                                   *)

\* The goroutines of the stream.
Goroutines == [Ids -> {"none", "created", "loop", "failed", "ending", "ended"}]

\* An empty cache.
LEMMA ListingType == Listing \in Views
BY FrontEndAssumption DEF Listing, Views

\* A step of a caller that writes nothing but what it is to append.
LEMMA PerformTypes ==
    ASSUME TypeOK, NEW c \in Clients, NEW k \in Keys, NEW r, NEW failure,
           NEW op \in {"put", "delete"},
           Perform(c, Compared(k, r, Op(op, k, TRUE), failure)),
           put' \in [Clients -> {<<>>} \cup (Keys \X (1..MaxLog))]
    PROVE  TypeOK'
<1>1. PICK a \in Txn(log, Compared(k, r, Op(op, k, TRUE), failure)) :
         append' = [append EXCEPT ![c] = a.rows]
  BY DEF Perform
<1>2. a.rows \in Pending
  BY <1>1, MethodRows
<1>3. append' \in [Clients -> Pending]
  BY <1>1, <1>2 DEF TypeOK, Pending
<1> QED
  BY <1>3 DEF TypeOK, Perform, stream, Pending

\* The callers' steps.
LEMMA CallerTypes ==
    ASSUME TypeOK, NEW c \in Clients,
           \/ AppendRow(c) \/ PutUpdate(c)
           \/ \E k \in Keys :
                \/ Create(c, k) \/ PutGet(c, k)
                \/ \E r \in 1..MaxLog : Update(c, k, r) \/ Delete(c, k, r)
    PROVE  TypeOK'
<1>1. CASE AppendRow(c)
  <2>1. /\ append' \in [Clients -> Pending] /\ append[c] \in Pending \ {<<>>}
        /\ UNCHANGED <<put, stream>>
    BY <1>1 DEF AppendRow, TypeOK, Pending
  <2>2. CASE UNCHANGED log
    BY <2>1, <2>2 DEF TypeOK, stream, Pending
  <2>3. CASE Len(log) < MaxLog /\ log' = log \o append[c]
    <3>1. PICK e \in Rows : append[c] = <<e>>
      BY <2>1 DEF Pending
    <3>2. log \in Seq(Rows) /\ MaxLog \in Nat
      BY FrontEndAssumption DEF TypeOK
    <3>3. log' \in Seq(Rows) /\ Len(log') = Len(log) + 1
      BY <2>3, <3>1, <3>2
    <3>4. Len(log') \in 1..MaxLog
      BY <2>3, <3>2, <3>3
    <3> QED
      BY <2>1, <3>3, <3>4 DEF TypeOK, stream, Pending
  <2> QED
    BY <1>1, <2>2, <2>3 DEF AppendRow
<1>2. CASE PutUpdate(c)
  <2>1. put[c][1] \in Keys /\ put' \in [Clients -> {<<>>} \cup (Keys \X (1..MaxLog))]
    BY <1>2 DEF PutUpdate, TypeOK
  <2> QED
    BY <1>2, <2>1, PerformTypes DEF PutUpdate
<1>3. ASSUME NEW k \in Keys, Create(c, k) PROVE TypeOK'
  <2>1. put' \in [Clients -> {<<>>} \cup (Keys \X (1..MaxLog))]
    BY <1>3 DEF Create, TypeOK
  <2> QED
    BY <1>3, <2>1, PerformTypes DEF Create
<1>4. ASSUME NEW k \in Keys, NEW r \in 1..MaxLog, Update(c, k, r) \/ Delete(c, k, r) PROVE TypeOK'
  <2>1. put' \in [Clients -> {<<>>} \cup (Keys \X (1..MaxLog))]
    BY <1>4 DEF Update, Delete, TypeOK
  <2> QED
    BY <1>4, <2>1, PerformTypes DEF Update, Delete
<1>5. ASSUME NEW k \in Keys, PutGet(c, k) PROVE TypeOK'
  <2>1. PICK i \in Shown(log, k, 0, Len(log)) \ {0} : put' = [put EXCEPT ![c] = <<k, i>>]
    BY <1>5 DEF PutGet
  <2>2. log \in Seq(Rows) /\ Len(log) \in 0..Len(log) /\ 0 \in 0..Len(log) /\ Len(log) \in 1..MaxLog
    BY DEF TypeOK
  <2>3. i \in {0, NewestAt(log, k, Len(log))} /\ NewestAt(log, k, Len(log)) \in 0..Len(log)
    BY <2>1, <2>2, ShownIs, NewestIs
  <2>4. i \in 1..MaxLog
    BY <2>1, <2>2, <2>3, FrontEndAssumption
  <2>5. put' \in [Clients -> {<<>>} \cup (Keys \X (1..MaxLog))]
    BY <2>1, <2>4 DEF TypeOK
  <2> QED
    BY <1>5, <2>5 DEF PutGet, TypeOK, stream
<1> QED
  BY <1>1, <1>2, <1>3, <1>4, <1>5
-----------------------------------------------------------------------------
(* Lists.                                                                   *)

\* The rows of a key up to m are none of them deleted, nor later than r.
Settled(k, r, m) == \A j \in 1..m : log[j].key = k => ~ log[j].delete /\ j <= r

\* What a list finds of the rows up to m behind a: of some keys the newest row,
\* and it is behind a; and of all that no tombstone hides.
LEMMA ListIs ==
    ASSUME TypeOK, NEW m \in 0..Len(log), NEW a \in 0..m, NEW shown \in Lists(a, m)
    PROVE  /\ shown \in SUBSET (1..m)
           /\ \A i \in shown : i > a /\ log[i].key \in Keys /\ i = NewestAt(log, log[i].key, m)
           /\ \A k \in Keys : Settled(k, m, m) /\ NewestAt(log, k, m) > a
                                => NewestAt(log, k, m) \in shown
<1>1. log \in Seq(Rows) /\ m \in Nat /\ Len(log) \in Nat
  BY DEF TypeOK
<1>2. PICK f \in [Keys -> 0..MaxLog] :
         (\A k \in Keys : f[k] \in Shown(log, k, a, m)) /\ shown = {f[k] : k \in Keys} \ {0}
  BY DEF Lists
<1>3. ASSUME NEW k \in Keys, f[k] # 0
      PROVE  f[k] \in 1..m /\ f[k] > a /\ log[f[k]].key = k /\ f[k] = NewestAt(log, k, m)
  <2>1. f[k] \in Shown(log, k, a, m)
    BY <1>2
  <2>2. f[k] \in {0, NewestAt(log, k, m)} /\ f[k] > a
    BY <1>1, <1>3, <2>1, ShownIs
  <2>3. f[k] = NewestAt(log, k, m)
    BY <1>3, <2>2
  <2>4. NewestAt(log, k, m) \in 0..m /\ log[NewestAt(log, k, m)].key = k
    BY <1>1, <1>3, <2>3, NewestIs
  <2> QED
    BY <1>3, <2>2, <2>3, <2>4
<1>4. ASSUME NEW i \in shown
      PROVE  i \in 1..m /\ i > a /\ log[i].key \in Keys /\ i = NewestAt(log, log[i].key, m)
  <2>1. PICK k \in Keys : i = f[k] /\ f[k] # 0
    BY <1>2
  <2> QED
    BY <1>3, <2>1
<1>5. ASSUME NEW k \in Keys, Settled(k, m, m), NewestAt(log, k, m) > a
      PROVE  NewestAt(log, k, m) \in shown
  <2>1. f[k] \in Shown(log, k, a, m)
    BY <1>2
  <2>2. \A j \in 1..m : log[j].key = k => ~ log[j].delete
    BY <1>5 DEF Settled
  <2>3. f[k] = NewestAt(log, k, m)
    BY <1>1, <1>5, <2>1, <2>2, ShownIs
  <2>4. NewestAt(log, k, m) # 0
    BY <1>5
  <2> QED
    BY <1>2, <2>3, <2>4
<1> QED
  BY <1>4, <1>5

\* The largest row of a page that is not empty, and the row that the next page
\* goes on from.
LEMMA LastIs ==
    ASSUME TypeOK, NEW m \in 0..Len(log), NEW r \in 0..m, NEW P \in SUBSET (1..m), P # {},
           \A i \in P : i = NewestAt(log, log[i].key, m)
    PROVE  /\ Max(P) \in P
           /\ NewestAt(log, log[Max(P)].key, r) \in 0..r
           /\ NewestAt(log, log[Max(P)].key, r) <= Max(P)
<1>1. m \in Nat /\ r \in Nat
  OBVIOUS
<1>2. Max(P) \in P
  <2>1. P \in SUBSET Nat /\ \A x \in P : x <= m
    OBVIOUS
  <2> QED
    BY <1>1, <2>1, MaxIs
<1> DEFINE k == log[Max(P)].key
           n == NewestAt(log, k, r)
<1>3. n \in 0..r /\ (n # 0 => log[n].key = k)
  BY <1>1, NewestIs
<1>4. Max(P) = NewestAt(log, k, m) /\ Max(P) \in 1..m
  BY <1>2
<1>5. CASE n # 0
  <2>1. n \in 1..m /\ log[n].key = k
    BY <1>1, <1>3, <1>5
  <2>2. n <= NewestAt(log, k, m)
    BY <1>1, <2>1, NewestIs
  <2> QED
    BY <1>2, <1>3, <1>4, <2>2
<1>6. CASE n = 0
  <2>1. n <= Max(P)
    BY <1>4, <1>6
  <2> QED
    BY <1>2, <1>3, <2>1
<1> QED
  BY <1>5, <1>6

\* Of a key that is settled the newest row up to m is the one of revision r.
LEMMA SettledIs ==
    ASSUME TypeOK, NEW m \in 0..Len(log), NEW r \in 0..m, NEW k \in Keys, Settled(k, r, m), NEW i
    PROVE  /\ Settled(k, m, m)
           /\ Current(log, k, r, i) <=> i # 0 /\ i = NewestAt(log, k, m)
<1> DEFINE n == NewestAt(log, k, r)
           p == NewestAt(log, k, m)
<1>1. m \in Nat /\ r \in Nat
  OBVIOUS
<1>2. /\ n \in 0..r /\ (n # 0 => log[n].key = k)
      /\ \A j \in 1..r : log[j].key = k => j <= n
  BY <1>1, NewestIs
<1>3. /\ p \in 0..m /\ (p # 0 => log[p].key = k)
      /\ \A j \in 1..m : log[j].key = k => j <= p
  BY <1>1, NewestIs
<1> HIDE DEF n, p
<1>4. \A j \in 1..m : log[j].key = k => ~ log[j].delete /\ j <= r
  BY DEF Settled
<1>5. p # 0 => p \in 1..r
  BY <1>1, <1>3, <1>4
<1>6. n # 0 => n \in 1..m
  BY <1>1, <1>2
<1>7. n = p
  BY <1>1, <1>2, <1>3, <1>5, <1>6
<1>8. p # 0 => ~ log[p].delete
  BY <1>3, <1>4
<1>9. Settled(k, m, m)
  BY <1>1, <1>4 DEF Settled
<1> QED
  BY <1>7, <1>8, <1>9 DEF Current, n, p

\* kvs has, of the rows of key k that the store had at revision r, those up to b,
\* and no others of k.
Exact(k, r, kvs, b) ==
    /\ \A i \in kvs : log[i].key = k => Current(log, k, r, i)
    /\ \A i : Current(log, k, r, i) /\ i <= b => i \in kvs

\* Where the next page begins.
GoesOn(page, r) == IF page.more THEN NewestAt(log, log[Max(page.kvs)].key, r) ELSE r

\* A page behind a, added to rows that are exact up to a, makes them exact up to
\* where the next page begins.
LEMMA PageMerges ==
    ASSUME TypeOK, NEW m \in 0..Len(log), NEW r \in 0..m, NEW a \in 0..m, NEW k \in Keys,
           Settled(k, r, m), NEW kvs, Exact(k, r, kvs, a),
           NEW shown \in Lists(a, m), NEW page, IsPage(page, shown)
    PROVE  Exact(k, r, {i \in kvs : \A j \in page.kvs : log[i].key # log[j].key} \cup page.kvs,
                 GoesOn(page, r))
<1> DEFINE K == {i \in kvs : \A j \in page.kvs : log[i].key # log[j].key} \cup page.kvs
<1>1. /\ shown \in SUBSET (1..m)
      /\ \A i \in shown : i > a /\ log[i].key \in Keys /\ i = NewestAt(log, log[i].key, m)
      /\ Settled(k, m, m) /\ NewestAt(log, k, m) > a => NewestAt(log, k, m) \in shown
  BY ListIs
<1>2. Segment(page.kvs, shown) /\ page.kvs \subseteq shown
  BY DEF IsPage, Segment
<1>3. \A i : /\ Settled(k, m, m)
             /\ Current(log, k, r, i) <=> i # 0 /\ i = NewestAt(log, k, m)
  BY SettledIs
<1>4. ASSUME NEW i \in page.kvs, log[i].key = k PROVE Current(log, k, r, i)
  <2>1. i \in 1..m /\ i = NewestAt(log, k, m)
    BY <1>1, <1>2, <1>4
  <2> QED
    BY <1>3, <2>1
<1>5. ASSUME NEW i \in K, log[i].key = k PROVE Current(log, k, r, i)
  BY <1>4, <1>5 DEF Exact
<1>6. ASSUME NEW i, Current(log, k, r, i), i <= GoesOn(page, r) PROVE i \in K
  <2>1. i = NewestAt(log, k, m) /\ i \in 1..m /\ log[i].key = k
    <3>1. i # 0 /\ i = NewestAt(log, k, m)
      BY <1>3, <1>6
    <3>2. m \in Nat
      OBVIOUS
    <3> QED
      BY <3>1, <3>2, NewestIs
  <2>2. CASE i <= a
    <3>1. i \in kvs
      BY <1>6, <2>2 DEF Exact
    <3>2. ASSUME NEW j \in page.kvs, log[i].key = log[j].key PROVE i = j
      BY <2>1, <3>2, <1>1, <1>2
    <3> QED
      BY <3>1, <3>2
  <2>3. CASE ~ (i <= a)
    <3>1. i \in shown
      BY <1>1, <1>3, <2>1, <2>3
    <3>2. CASE ~ page.more
      BY <3>1, <3>2 DEF IsPage
    <3>3. CASE page.more
      <4>1. page.kvs # {} /\ page.kvs \in SUBSET (1..m)
        BY <1>1, <1>2, <3>3 DEF IsPage
      <4>2. \A j \in page.kvs : j = NewestAt(log, log[j].key, m)
        BY <1>1, <1>2
      <4>3. /\ Max(page.kvs) \in page.kvs
            /\ NewestAt(log, log[Max(page.kvs)].key, r) \in 0..r
            /\ NewestAt(log, log[Max(page.kvs)].key, r) <= Max(page.kvs)
        BY <4>1, <4>2, LastIs
      <4>4. i <= NewestAt(log, log[Max(page.kvs)].key, r)
        BY <1>6, <3>3 DEF GoesOn
      <4>5. Max(page.kvs) \in 1..m
        BY <4>1, <4>3
      <4>6. i <= Max(page.kvs)
        BY <2>1, <4>3, <4>4, <4>5
      <4>7. i = Max(page.kvs) \/ i < Max(page.kvs)
        BY <2>1, <4>5, <4>6
      <4> QED
        BY <1>2, <3>1, <4>3, <4>7 DEF Segment
    <3> QED
      BY <3>2, <3>3
  <2> QED
    BY <2>2, <2>3
<1> QED
  BY <1>5, <1>6 DEF Exact
-----------------------------------------------------------------------------
(* The cache.                                                               *)

\* The cache is of a revision that the log has; its watch has been started; it
\* has no watch while it lists, and nothing when its stream is gone.
CacheFollows ==
    /\ view.rev <= Len(log) /\ view.kvs \subseteq 1..Len(log)
    /\ IF view.pc = "watch"
       THEN view.id \in Ids /\ go[view.id] # "none"
       ELSE view.id = 0
    /\ conn # "up" => view = Listing
    /\ view.pc \in {"list", "rows", "relist"} => view.kvs = {}

\* Where its list has got to.
UpTo == IF view.pc = "more" THEN view.after ELSE view.rev

\* Of the keys that it is sure of it has what the store had at its revision, as
\* far as its list has got, and no row that is deleted can disturb the rest.
CacheExact ==
    view.pc \in {"more", "listed", "watch"} =>
        /\ UpTo <= view.rev
        /\ \A k \in Keys \ view.unsure :
             /\ Exact(k, view.rev, view.kvs, UpTo)
             /\ view.pc = "more" => Settled(k, view.rev, view.rev)

IndInv == TypeOK /\ CacheFollows /\ CacheExact

\* What the cache is after a page.
LEMMA PageTaken ==
    ASSUME IndInv, NEW m \in 0..Len(log), NEW r \in 0..m, NEW a \in 0..m, NEW U \in SUBSET Keys,
           NEW shown \in Lists(a, m), TakePage(list(shown), r, U), view.pc # "watch", conn = "up",
           \A k \in Keys \ U : Settled(k, r, m) /\ Exact(k, r, view.kvs, a),
           UNCHANGED <<log, put, append, conn, serve, watches, done, stuck, go>>
    PROVE  IndInv'
<1> DEFINE page == list(shown)
           kvs == {i \in view.kvs : \A j \in page.kvs : log[i].key # log[j].key} \cup page.kvs
           after == IF page.more THEN NewestAt(log, log[Max(page.kvs)].key, r) ELSE 0
           pc == IF page.more THEN "more" ELSE "listed"
<1>1. TypeOK /\ CacheFollows /\ log \in Seq(Rows) /\ m \in Nat /\ Len(log) \in 1..MaxLog /\ MaxLog \in Nat
  BY FrontEndAssumption DEF IndInv, TypeOK
<1>2. /\ shown \in SUBSET (1..m)
      /\ \A i \in shown : i > a /\ log[i].key \in Keys /\ i = NewestAt(log, log[i].key, m)
  BY <1>1, ListIs
<1>3. IsPage(page, shown)
  BY <1>1, <1>2, PageIs
<1>4. view' = [view EXCEPT !.rev = r, !.unsure = U, !.kvs = kvs, !.pc = pc, !.after = after]
  BY DEF TakePage
<1> HIDE DEF page
<1>5. page.kvs \subseteq shown /\ page.kvs \in SUBSET (1..m) /\ page.more \in BOOLEAN
  BY <1>2, <1>3 DEF IsPage, Segment
<1>6. page.more => after \in 0..r
  <2>1. page.more => page.kvs # {}
    BY <1>3 DEF IsPage
  <2>2. \A i \in page.kvs : i = NewestAt(log, log[i].key, m)
    BY <1>2, <1>5
  <2> QED
    BY <1>1, <1>5, <2>1, <2>2, LastIs
<1>7. after \in 0..MaxLog /\ r \in 0..MaxLog /\ pc \in {"more", "listed"} /\ (pc = "more" <=> page.more)
  BY <1>1, <1>5, <1>6
<1>8. kvs \in SUBSET (1..MaxLog) /\ kvs \subseteq 1..Len(log)
  <2>1. view.kvs \subseteq 1..Len(log)
    BY <1>1 DEF CacheFollows
  <2> QED
    BY <1>1, <1>5, <2>1
<1>9. \A k \in Keys \ U : Exact(k, r, kvs, GoesOn(page, r))
  BY <1>1, <1>3, PageMerges
<1>10. page.more => GoesOn(page, r) = after
  BY DEF GoesOn
<1>10a. ~ page.more => GoesOn(page, r) = r
  BY DEF GoesOn
<1> HIDE DEF kvs, after, pc
<1>11. /\ view' \in Views /\ view'.rev = r /\ view'.unsure = U /\ view'.kvs = kvs
       /\ view'.pc = pc /\ view'.after = after /\ view'.id = view.id
  BY <1>1, <1>4, <1>7, <1>8 DEF TypeOK, Views
<1>12. TypeOK'
  BY <1>1, <1>11 DEF TypeOK
<1>13. CacheFollows'
  BY <1>1, <1>7, <1>8, <1>11 DEF CacheFollows
<1>14. UpTo' = GoesOn(page, r) /\ UpTo' <= view'.rev
  BY <1>1, <1>6, <1>7, <1>10, <1>10a, <1>11 DEF UpTo
<1>15. ASSUME NEW k \in Keys \ U PROVE Settled(k, r, r)
  <2>1. Settled(k, r, m)
    OBVIOUS
  <2> QED
    BY <1>1, <2>1 DEF Settled
<1>16. CacheExact'
  BY <1>9, <1>11, <1>14, <1>15 DEF CacheExact, Exact, Settled, Current, NewestAt
<1> QED
  BY <1>12, <1>13, <1>16 DEF IndInv

\* Range: the revision of the first page and its rows, the list after an empty
\* one, the pages that follow.
LEMMA RangeKeeps ==
    ASSUME IndInv, RangeFirst \/ RangeRows \/ Relist \/ RangeMore
    PROVE  IndInv'
<1>1. TypeOK /\ CacheFollows /\ CacheExact
  BY DEF IndInv
<1>2. /\ Len(log) \in 1..MaxLog /\ MaxLog \in Nat /\ view.rev \in 0..Len(log) /\ view \in Views
      /\ Len(log) \in 0..Len(log) /\ 0 \in 0..Len(log) /\ 0 \in Nat
  BY <1>1, FrontEndAssumption DEF TypeOK, CacheFollows, Views
<1>3. ASSUME NEW r \in 0..Len(log), NEW k \in Keys \ Unsure(r, Len(log)), view.kvs = {}
      PROVE  Settled(k, r, Len(log)) /\ Exact(k, r, view.kvs, 0)
  <2>1. Settled(k, r, Len(log))
    BY <1>2 DEF Unsure, Settled
  <2>2. ASSUME NEW i, Current(log, k, r, i) PROVE ~ (i <= 0)
    <3>1. NewestAt(log, k, r) \in 0..r /\ r \in Nat
      BY NewestIs
    <3> QED
      BY <2>2, <3>1 DEF Current
  <2> QED
    BY <1>3, <2>1, <2>2 DEF Exact
<1>4. CASE RangeFirst
  <2>1. /\ view' \in Views /\ view'.pc = "rows" /\ view'.rev = Len(log) /\ view'.kvs = view.kvs
        /\ view'.id = view.id
    <3>1. view' = [view EXCEPT !.pc = "rows", !.rev = Len(log)]
      BY <1>4 DEF RangeFirst
    <3>2. Len(log) \in 0..MaxLog
      BY <1>2
    <3> QED
      BY <1>2, <3>1, <3>2 DEF Views
  <2>2. UNCHANGED <<log, put, append, conn, serve, watches, done, stuck, go>>
        /\ view.pc = "list" /\ conn = "up"
    BY <1>4 DEF RangeFirst
  <2>3. TypeOK' /\ CacheFollows' /\ CacheExact'
    BY <1>1, <1>2, <2>1, <2>2 DEF TypeOK, CacheFollows, CacheExact
  <2> QED
    BY <2>3 DEF IndInv
<1>5. CASE RangeRows
  <2>1. PICK shown \in Lists(0, Len(log)) :
          IF shown = {} THEN view' = [view EXCEPT !.pc = "relist"]
          ELSE TakePage(list(shown), view.rev, Unsure(view.rev, Len(log)))
    BY <1>5 DEF RangeRows
  <2>2. /\ UNCHANGED <<log, put, append, conn, serve, watches, done, stuck, go>>
        /\ view.pc = "rows" /\ conn = "up" /\ view.kvs = {}
    BY <1>1, <1>5 DEF RangeRows, CacheFollows
  <2>3. CASE shown = {}
    <3>1. /\ view' \in Views /\ view'.pc = "relist" /\ view'.rev = view.rev
          /\ view'.kvs = view.kvs /\ view'.id = view.id
      BY <1>2, <2>1, <2>3 DEF Views
    <3>2. TypeOK' /\ CacheFollows' /\ CacheExact'
      BY <1>1, <1>2, <2>2, <3>1 DEF TypeOK, CacheFollows, CacheExact
    <3> QED
      BY <3>2 DEF IndInv
  <2>4. CASE shown # {}
    <3>1. Unsure(view.rev, Len(log)) \in SUBSET Keys
      BY DEF Unsure
    <3> QED
      BY <1>2, <1>3, <2>1, <2>2, <2>4, <3>1, PageTaken
  <2> QED
    BY <2>3, <2>4
<1>6. CASE Relist
  <2>1. PICK shown \in Lists(0, Len(log)) :
          TakePage(list(shown), Len(log), Unsure(Len(log), Len(log)))
    BY <1>6 DEF Relist
  <2>2. /\ UNCHANGED <<log, put, append, conn, serve, watches, done, stuck, go>>
        /\ view.pc = "relist" /\ conn = "up" /\ view.kvs = {}
    BY <1>1, <1>6 DEF Relist, CacheFollows
  <2>3. Unsure(Len(log), Len(log)) \in SUBSET Keys
    BY DEF Unsure
  <2> QED
    BY <1>2, <1>3, <2>1, <2>2, <2>3, PageTaken
<1>7. CASE RangeMore
  <2>1. PICK shown \in Lists(view.after, view.rev) : TakePage(list(shown), view.rev, view.unsure)
    BY <1>7 DEF RangeMore
  <2>2. /\ UNCHANGED <<log, put, append, conn, serve, watches, done, stuck, go>>
        /\ view.pc = "more" /\ conn = "up"
    BY <1>7 DEF RangeMore
  <2>3. UpTo = view.after /\ view.after \in 0..view.rev /\ view.unsure \in SUBSET Keys
    BY <1>1, <1>2, <2>2 DEF UpTo, CacheExact, Views
  <2>4. \A k \in Keys \ view.unsure :
          Settled(k, view.rev, view.rev) /\ Exact(k, view.rev, view.kvs, view.after)
    BY <1>1, <2>2, <2>3 DEF CacheExact
  <2>5. view.rev \in 0..view.rev
    BY <1>2
  <2> QED
    BY <1>2, <2>1, <2>2, <2>3, <2>4, <2>5, PageTaken
<1> QED
  BY <1>4, <1>5, <1>6, <1>7
\* A caller's step: it may add a row, and leaves the stream alone.
LEMMA WritesKeep ==
    ASSUME IndInv, NEW c \in Clients,
           \/ AppendRow(c) \/ PutUpdate(c)
           \/ \E k \in Keys :
                \/ Create(c, k) \/ PutGet(c, k)
                \/ \E r \in 1..MaxLog : Update(c, k, r) \/ Delete(c, k, r)
    PROVE  IndInv'
<1>1. TypeOK /\ CacheFollows /\ CacheExact /\ TypeOK'
  BY CallerTypes DEF IndInv
<1>2. UNCHANGED stream
  BY DEF AppendRow, PutUpdate, Create, PutGet, Update, Delete, Perform, stream
<1>3. log \in Seq(Rows) /\ Len(log) \in Nat /\ view.rev \in 0..Len(log) /\ view.kvs \subseteq 1..Len(log)
  BY <1>1 DEF TypeOK, Views, CacheFollows
<1>4. CASE log' = log
  <2>1. CacheFollows' /\ CacheExact'
    BY <1>1, <1>2, <1>4
       DEF CacheFollows, CacheExact, UpTo, Exact, Settled, Current, NewestAt, stream, Listing
  <2> QED
    BY <1>1, <2>1 DEF IndInv
<1>5. ASSUME NEW e \in Rows, log' = Append(log, e) PROVE IndInv'
  <2>1. Len(log') = Len(log) + 1 /\ \A i \in 1..Len(log) : log'[i] = log[i]
    BY <1>3, <1>5
  <2>2. CacheFollows'
    BY <1>1, <1>2, <1>3, <2>1 DEF CacheFollows, stream, Listing
  <2>3. \A k : NewestAt(log', k, view.rev) = NewestAt(log, k, view.rev)
    BY <1>3, <1>5, NewestStays
  <2>4. ASSUME NEW k, NEW i PROVE Current(log', k, view.rev, i) <=> Current(log, k, view.rev, i)
    <3>1. NewestAt(log, k, view.rev) \in 0..view.rev /\ view.rev \in Nat
      BY <1>3, NewestIs
    <3>2. i # 0 /\ i = NewestAt(log, k, view.rev) => log'[i] = log[i]
      BY <1>3, <2>1, <3>1
    <3> QED
      BY <2>3, <3>2 DEF Current
  <2>5. CacheExact'
    <3> SUFFICES ASSUME view.pc \in {"more", "listed", "watch"}
                 PROVE  /\ UpTo <= view.rev
                        /\ \A k \in Keys \ view.unsure :
                             /\ Exact(k, view.rev, view.kvs, UpTo)'
                             /\ view.pc = "more" => Settled(k, view.rev, view.rev)'
      BY <1>2 DEF CacheExact, UpTo, stream
    <3>1. UpTo <= view.rev /\ UNCHANGED <<UpTo, view>>
      BY <1>1, <1>2 DEF CacheExact, UpTo, stream
    <3>2. ASSUME NEW k \in Keys \ view.unsure PROVE Exact(k, view.rev, view.kvs, UpTo)'
      BY <1>1, <1>3, <2>1, <2>4, <3>1 DEF CacheExact, Exact
    <3>3. ASSUME NEW k \in Keys \ view.unsure, view.pc = "more" PROVE Settled(k, view.rev, view.rev)'
      BY <1>1, <1>3, <2>1, <3>1, <3>3 DEF CacheExact, Settled
    <3> QED
      BY <3>1, <3>2, <3>3
  <2> QED
    BY <1>1, <2>2, <2>5 DEF IndInv
<1>6. log' = log \/ \E e \in Rows : log' = Append(log, e)
  <2>1. CASE AppendRow(c)
    <3>1. append[c] # <<>> /\ append[c] \in {<<>>} \cup {<<e>> : e \in Rows}
      BY <1>1, <2>1 DEF TypeOK, AppendRow
    <3>2. PICK e \in Rows : append[c] = <<e>>
      BY <3>1
    <3>3. log \o <<e>> = Append(log, e)
      BY <1>3
    <3> QED
      BY <2>1, <3>2, <3>3 DEF AppendRow
  <2>2. CASE ~ AppendRow(c)
    BY <2>2 DEF PutUpdate, Create, PutGet, Update, Delete, Perform
  <2> QED
    BY <2>1, <2>2
<1> QED
  BY <1>4, <1>5, <1>6

\* watcher.Start: the new watch begins where the list ended.
LEMMA StartKeeps ==
    ASSUME IndInv, Start
    PROVE  IndInv'
<1>1. TypeOK /\ CacheFollows /\ CacheExact
  BY DEF IndInv
<1>2. PICK i \in Ids :
         /\ view' = [view EXCEPT !.pc = "watch", !.id = i]
         /\ watches' = watches \cup {i}
         /\ go' = [go EXCEPT ![i] = "created"]
  BY DEF Start
<1>3. view.pc = "listed" /\ conn = "up" /\ UNCHANGED <<log, put, append, conn, serve, done, stuck>>
  BY DEF Start
<1>4. i \in 0..MaxWatch
  BY FrontEndAssumption DEF Ids
<1>5. /\ view' \in Views /\ view'.pc = "watch" /\ view'.id = i /\ view'.rev = view.rev
      /\ view'.kvs = view.kvs /\ view'.unsure = view.unsure
      /\ go'[i] = "created"
      /\ go' \in Goroutines
  BY <1>1, <1>2, <1>4 DEF TypeOK, Views, Goroutines
<1>6. TypeOK'
  BY <1>1, <1>2, <1>3, <1>5 DEF TypeOK, Goroutines
<1>7. CacheFollows'
  BY <1>1, <1>3, <1>5 DEF CacheFollows
<1>8. CacheExact'
  BY <1>1, <1>3, <1>5 DEF CacheExact, UpTo, Exact, Settled, Current, NewestAt
<1> QED
  BY <1>6, <1>7, <1>8 DEF IndInv

\* The cache is exact as long as neither it nor the log changes.
LEMMA ExactStays == ASSUME CacheExact, UNCHANGED <<log, view>> PROVE CacheExact'
BY DEF CacheExact, UpTo, Exact, Settled, Current, NewestAt

\* A step that leaves the cache as it is.
LEMMA AsideKeeps ==
    ASSUME IndInv, UNCHANGED <<log, view, conn>>, TypeOK',
           \A i \in Ids : go[i] # "none" => go'[i] # "none"
    PROVE  IndInv'
<1>1. CacheFollows'
  BY DEF IndInv, CacheFollows, Listing
<1>2. CacheExact'
  BY ExactStays DEF IndInv
<1> QED
  BY <1>1, <1>2 DEF IndInv

\* A step that empties the cache.
LEMMA EmptyKeeps ==
    ASSUME IndInv, UNCHANGED log, TypeOK', view' = Listing
    PROVE  IndInv'
<1>1. view'.pc = "list" /\ view'.rev = 0 /\ view'.id = 0 /\ view'.kvs = {}
  BY DEF Listing
<1>2. CacheFollows'
  BY <1>1 DEF CacheFollows, IndInv, TypeOK
<1>3. CacheExact'
  BY <1>1 DEF CacheExact
<1> QED
  BY <1>2, <1>3 DEF IndInv

\* The goroutine's steps but for events.
LEMMA GoKeeps ==
    ASSUME IndInv, NEW i \in Ids, SendCreated(i) \/ LoopEnds(i) \/ SendCanceled(i)
    PROVE  IndInv'
<1>1. TypeOK /\ go \in Goroutines
  BY DEF IndInv, TypeOK, Goroutines
<1>2. CASE SendCreated(i)
  <2>1. watches' \subseteq Ids /\ done' \subseteq Ids /\ stuck' \subseteq Ids
    BY <1>1, <1>2 DEF TypeOK, SendCreated, CancelLocked
  <2>2. UNCHANGED <<log, put, append, view, conn, serve>> /\ go[i] = "created"
    BY <1>2 DEF SendCreated
  <2>3. go' = [go EXCEPT ![i] = "loop"] \/ go' = [go EXCEPT ![i] = "failed"]
    BY <1>2 DEF SendCreated
  <2>4. /\ go' \in Goroutines
        /\ \A j \in Ids : go[j] # "none" => go'[j] # "none"
    BY <1>1, <2>2, <2>3 DEF Goroutines
  <2>5. TypeOK'
    BY <1>1, <2>1, <2>2, <2>4 DEF TypeOK, Goroutines
  <2> QED
    BY <2>2, <2>4, <2>5, AsideKeeps
<1>3. CASE LoopEnds(i)
  <2>1. watches' \subseteq Ids /\ done' \subseteq Ids /\ stuck' = stuck
    BY <1>1, <1>3 DEF TypeOK, LoopEnds, CancelLocked
  <2>2. UNCHANGED <<log, put, append, view, conn, serve>> /\ go' = [go EXCEPT ![i] = "ending"]
    BY <1>3 DEF LoopEnds
  <2>3. /\ go' \in Goroutines
        /\ \A j \in Ids : go[j] # "none" => go'[j] # "none"
    BY <1>1, <2>2 DEF Goroutines
  <2>4. TypeOK'
    BY <1>1, <2>1, <2>2, <2>3 DEF TypeOK, Goroutines
  <2> QED
    BY <2>2, <2>3, <2>4, AsideKeeps
<1>4. CASE SendCanceled(i)
  <2>1. view' = view \/ view' = Listing
    BY <1>4 DEF SendCanceled
  <2>2. /\ UNCHANGED <<log, put, append, conn, serve, watches, done, stuck>>
        /\ go' = [go EXCEPT ![i] = "ended"]
    BY <1>4 DEF SendCanceled
  <2>3. /\ go' \in Goroutines
        /\ \A j \in Ids : go[j] # "none" => go'[j] # "none"
    BY <1>1, <2>2 DEF Goroutines
  <2>4. TypeOK'
    BY <1>1, <2>1, <2>2, <2>3, ListingType DEF TypeOK, Goroutines
  <2> QED
    BY <2>1, <2>2, <2>3, <2>4, AsideKeeps, EmptyKeeps
<1> QED
  BY <1>2, <1>3, <1>4

\* What the cache holds after a batch in which n is the last, and what it is not
\* sure of.
Applied(batch) ==
    {i \in view.kvs : \A j \in batch : log[j].key # log[i].key}
      \cup {i \in batch : /\ log[i].key \in Keys /\ ~ log[i].delete
                          /\ \A j \in batch : log[j].key = log[i].key => j <= i}

UnsureAfter(batch, n) ==
    {k \in Keys : LET i == NewestAt(log, k, n)
                  IN IF i > view.rev THEN i \notin batch ELSE k \in view.unsure}

\* A batch takes rows that are exact at one revision to the later one, if the
\* newest row of the key is not passed over.
LEMMA BatchIsExact ==
    ASSUME TypeOK, view.rev \in 0..Len(log), NEW n \in 0..Len(log), view.rev < n,
           NEW batch \in SUBSET ((view.rev + 1)..n), NEW k \in Keys \ UnsureAfter(batch, n),
           k \notin view.unsure => Exact(k, view.rev, view.kvs, view.rev)
    PROVE  Exact(k, n, Applied(batch), n)
<1> DEFINE p == NewestAt(log, k, n)
<1>1. n \in Nat /\ view.rev \in Nat /\ \A j \in batch : j \in 1..n /\ j > view.rev
  OBVIOUS
<1>2. /\ p \in 0..n /\ (p # 0 => log[p].key = k)
      /\ \A j \in 1..n : log[j].key = k => j <= p
  BY <1>1, NewestIs
<1>3. IF p > view.rev THEN p \in batch ELSE k \notin view.unsure
  BY DEF UnsureAfter
<1>4. \A i : Current(log, k, n, i) <=> i # 0 /\ i = p /\ ~ log[i].delete
  BY DEF Current
<1> HIDE DEF p
<1>5. CASE p > view.rev
  <2>1. p \in batch /\ log[p].key = k /\ p # 0
    BY <1>1, <1>2, <1>3, <1>5
  <2>2. ASSUME NEW i \in Applied(batch), log[i].key = k PROVE Current(log, k, n, i)
    <3>1. i \in batch /\ ~ log[i].delete /\ \A j \in batch : log[j].key = k => j <= i
      BY <2>1, <2>2 DEF Applied
    <3>2. i = p
      BY <1>1, <1>2, <2>1, <2>2, <3>1
    <3> QED
      BY <1>4, <2>1, <3>1, <3>2
  <2>3. ASSUME NEW i, Current(log, k, n, i) PROVE i \in Applied(batch)
    <3>1. i = p /\ ~ log[i].delete
      BY <1>4, <2>3
    <3>2. \A j \in batch : log[j].key = k => j <= p
      BY <1>1, <1>2
    <3> QED
      BY <2>1, <3>1, <3>2 DEF Applied
  <2> QED
    BY <2>2, <2>3 DEF Exact
<1>6. CASE ~ (p > view.rev)
  <2>1. \A j \in batch : log[j].key # k
    BY <1>1, <1>2, <1>6
  <2>2. Exact(k, view.rev, view.kvs, view.rev)
    BY <1>3, <1>6
  <2>3. NewestAt(log, k, view.rev) = p
    <3>1. /\ NewestAt(log, k, view.rev) \in 0..view.rev
          /\ NewestAt(log, k, view.rev) # 0 => log[NewestAt(log, k, view.rev)].key = k
          /\ \A j \in 1..view.rev : log[j].key = k => j <= NewestAt(log, k, view.rev)
      BY <1>1, NewestIs
    <3> DEFINE q == NewestAt(log, k, view.rev)
    <3> HIDE DEF q
    <3>2. q \in 0..view.rev /\ (q # 0 => log[q].key = k) /\ \A j \in 1..view.rev : log[j].key = k => j <= q
      BY <3>1 DEF q
    <3>3. q <= p
      BY <1>1, <1>2, <3>2
    <3>4. p <= q
      BY <1>1, <1>2, <1>6, <3>2
    <3>5. q = p
      BY <1>1, <1>2, <3>2, <3>3, <3>4
    <3> QED
      BY <3>5 DEF q
  <2>4. \A i : Current(log, k, view.rev, i) <=> Current(log, k, n, i)
    BY <1>4, <2>3 DEF Current
  <2>5. ASSUME NEW i \in Applied(batch), log[i].key = k PROVE Current(log, k, n, i)
    BY <2>1, <2>2, <2>4, <2>5 DEF Applied, Exact
  <2>6. ASSUME NEW i, Current(log, k, n, i) PROVE i \in Applied(batch)
    <3>1. i = p /\ i # 0
      BY <1>4, <2>6
    <3>2. i \in view.kvs /\ log[i].key = k
      BY <1>1, <1>2, <1>6, <2>2, <2>4, <2>6, <3>1 DEF Exact
    <3> QED
      BY <2>1, <3>2 DEF Applied
  <2> QED
    BY <2>5, <2>6 DEF Exact
<1> QED
  BY <1>5, <1>6

\* A batch of events.
LEMMA EventsKeep ==
    ASSUME IndInv, NEW i \in Ids, SendEvents(i)
    PROVE  IndInv'
<1>1. TypeOK /\ CacheFollows /\ CacheExact
  BY DEF IndInv
<1>2. /\ Len(log) \in 1..MaxLog /\ MaxLog \in Nat /\ log \in Seq(Rows)
      /\ view.rev \in 0..Len(log) /\ view \in Views
  BY <1>1, FrontEndAssumption DEF TypeOK, CacheFollows, Views
<1>3. /\ UNCHANGED <<log, put, append, conn, serve, stuck, go>> /\ watches' \subseteq Ids
      /\ done' \subseteq Ids /\ go[i] = "loop"
  BY <1>1 DEF SendEvents, CancelLocked, TypeOK
<1>4. CASE conn # "broken"
  <2>1. PICK n \in (view.rev + 1)..Len(log) : \E batch \in SUBSET ((view.rev + 1)..n) : Apply(batch, n)
    BY <1>4 DEF SendEvents
  <2>2. PICK batch \in SUBSET ((view.rev + 1)..n) : Apply(batch, n)
    BY <2>1
  <2>3. view.id = i /\ view.pc = "watch" /\ conn = "up"
    BY <1>1, <1>4, FrontEndAssumption DEF SendEvents, CacheFollows, Ids, Listing
  <2>4. n \in 0..MaxLog /\ n \in 0..Len(log) /\ n \in Nat /\ view.rev < n
    BY <1>2, <2>1
  <2>5. view' = [view EXCEPT !.rev = n, !.kvs = Applied(batch), !.unsure = UnsureAfter(batch, n)]
    BY <2>2 DEF Apply, Applied, UnsureAfter
  <2>6. Applied(batch) \subseteq 1..Len(log) /\ Applied(batch) \in SUBSET (1..MaxLog)
    <3>1. view.kvs \subseteq 1..Len(log) /\ batch \subseteq 1..Len(log)
      BY <1>1, <1>2, <2>4 DEF CacheFollows
    <3>2. Applied(batch) \subseteq 1..Len(log)
      BY <3>1 DEF Applied
    <3> QED
      BY <1>2, <3>2
  <2>7. UnsureAfter(batch, n) \in SUBSET Keys
    BY DEF UnsureAfter
  <2>8. /\ view' \in Views /\ view'.rev = n /\ view'.kvs = Applied(batch) /\ view'.pc = "watch"
        /\ view'.id = i /\ view'.unsure = UnsureAfter(batch, n)
    BY <1>2, <2>3, <2>4, <2>5, <2>6, <2>7 DEF Views
  <2>9. TypeOK'
    BY <1>1, <1>3, <2>8 DEF TypeOK
  <2>10. CacheFollows'
    BY <1>3, <2>3, <2>4, <2>6, <2>8 DEF CacheFollows
  <2>11. ASSUME NEW k \in Keys \ UnsureAfter(batch, n) PROVE Exact(k, n, Applied(batch), n)
    <3>1. k \notin view.unsure => Exact(k, view.rev, view.kvs, view.rev)
      BY <1>1, <2>3 DEF CacheExact, UpTo
    <3> QED
      BY <1>1, <1>2, <2>4, <3>1, BatchIsExact
  <2>12. CacheExact'
    <3>1. UpTo' = n /\ view'.rev = n /\ view'.pc = "watch" /\ n <= n
      BY <2>4, <2>8 DEF UpTo
    <3>2. ASSUME NEW k \in Keys \ view'.unsure PROVE Exact(k, view.rev, view.kvs, UpTo)'
      <4>1. Exact(k, n, Applied(batch), n)
        BY <2>8, <2>11
      <4>2. log' = log
        BY <1>3
      <4> QED
        BY <2>8, <3>1, <4>1, <4>2 DEF Exact, Current, NewestAt
    <3> QED
      BY <3>1, <3>2 DEF CacheExact
  <2> QED
    BY <2>9, <2>10, <2>12 DEF IndInv
<1>5. CASE conn = "broken"
  <2>1. UNCHANGED view
    BY <1>5 DEF SendEvents
  <2>2. TypeOK'
    BY <1>1, <1>3, <2>1 DEF TypeOK
  <2> QED
    BY <1>3, <2>1, <2>2, AsideKeeps
<1> QED
  BY <1>4, <1>5

\* The loop of the stream, and the client that goes.
LEMMA ServeKeeps ==
    ASSUME IndInv, \/ CancelRequest \/ CancelAnswered \/ Close \/ CloseReturns
                   \/ \E how \in {"eof", "broken"} : Disconnect(how)
    PROVE  IndInv'
<1>1. TypeOK /\ CacheFollows
  BY DEF IndInv
<1>2. CASE CancelRequest
  <2>1. watches' \subseteq Ids /\ done' \subseteq Ids
    BY <1>1, <1>2 DEF TypeOK, CacheFollows, CancelRequest, CancelLocked
  <2>2. /\ UNCHANGED <<log, put, append, conn, stuck, go>> /\ view' = Listing /\ serve' = "cancel"
    BY <1>2 DEF CancelRequest
  <2>3. TypeOK'
    BY <1>1, <2>1, <2>2, ListingType DEF TypeOK
  <2> QED
    BY <2>2, <2>3, EmptyKeeps
<1>3. CASE CancelAnswered
  <2>1. TypeOK'
    BY <1>1, <1>3 DEF TypeOK, CancelAnswered
  <2> QED
    BY <1>3, <2>1, AsideKeeps DEF CancelAnswered
<1>4. CASE Close
  <2>1. TypeOK'
    BY <1>1, <1>4 DEF TypeOK, Close
  <2> QED
    BY <1>4, <2>1, AsideKeeps DEF Close
<1>5. CASE CloseReturns
  <2>1. TypeOK'
    BY <1>1, <1>5 DEF TypeOK, CloseReturns
  <2> QED
    BY <1>5, <2>1, AsideKeeps DEF CloseReturns
<1>6. ASSUME NEW how \in {"eof", "broken"}, Disconnect(how) PROVE IndInv'
  <2>1. TypeOK'
    BY <1>1, <1>6, ListingType DEF TypeOK, Disconnect
  <2> QED
    BY <1>6, <2>1, EmptyKeeps DEF Disconnect
<1> QED
  BY <1>2, <1>3, <1>4, <1>5, <1>6
-----------------------------------------------------------------------------
(* Theorems.                                                                *)

\* It holds at the start.
LEMMA InitIndInv == Init => IndInv
<1> SUFFICES ASSUME Init PROVE IndInv
  OBVIOUS
<1>1. view = Listing /\ conn = "up"
  BY DEF Init
<1>2. log \in Seq(Rows) /\ Len(log) = 1
  <2> DEFINE e == Row(CompactKey, FALSE)
  <2>1. log = <<e>> /\ e \in Rows
    BY DEF Init, Row, Rows
  <2> HIDE DEF e
  <2> QED
    BY <2>1
<1>3. TypeOK
  <2>1. go \in Goroutines
    BY FrontEndAssumption DEF Init, Goroutines
  <2>2. /\ put \in [Clients -> {<<>>} \cup (Keys \X (1..MaxLog))]
        /\ append \in [Clients -> {<<>>} \cup {<<e>> : e \in Rows}]
    BY DEF Init
  <2>3. Len(log) \in 1..MaxLog
    BY <1>2, FrontEndAssumption
  <2> QED
    BY <1>1, <1>2, <2>1, <2>2, <2>3, ListingType DEF Init, TypeOK, Goroutines
<1>4. view.pc = "list" /\ view.rev = 0 /\ view.id = 0 /\ view.kvs = {}
  BY <1>1 DEF Listing
<1> QED
  BY <1>1, <1>2, <1>3, <1>4 DEF IndInv, CacheFollows, CacheExact

\* Every step keeps it.
LEMMA NextIndInv == IndInv /\ [Next]_vars => IndInv'
<1> SUFFICES ASSUME IndInv, [Next]_vars PROVE IndInv'
  OBVIOUS
<1>1. CASE UNCHANGED vars
  <2>1. UNCHANGED <<log, put, append, view, conn, serve, watches, done, stuck, go>>
    BY <1>1 DEF vars, stream
  <2>2. TypeOK'
    BY <2>1 DEF IndInv, TypeOK
  <2> QED
    BY <2>1, <2>2, AsideKeeps
<1>2. ASSUME NEW c \in Clients,
             \/ AppendRow(c) \/ PutUpdate(c)
             \/ \E k \in Keys :
                  \/ Create(c, k) \/ PutGet(c, k)
                  \/ \E r \in 1..MaxLog : Update(c, k, r) \/ Delete(c, k, r)
      PROVE  IndInv'
  BY <1>2, WritesKeep
<1>3. CASE RangeFirst \/ RangeRows \/ Relist \/ RangeMore
  BY <1>3, RangeKeeps
<1>4. CASE Start
  BY <1>4, StartKeeps
<1>5. ASSUME NEW i \in Ids, Goroutine(i) \/ LoopEnds(i) PROVE IndInv'
  BY <1>5, GoKeeps, EventsKeep DEF Goroutine, LoopEndsCancelled
<1>6. CASE \/ CancelRequest \/ CancelAnswered \/ Close \/ CloseReturns
           \/ \E how \in {"eof", "broken"} : Disconnect(how)
  BY <1>6, ServeKeeps
<1> QED
  BY <1>1, <1>2, <1>3, <1>4, <1>5, <1>6 DEF Next

\* It always holds.
LEMMA AlwaysIndInv == Spec => []IndInv
BY InitIndInv, NextIndInv, PTL DEF Spec

\* The types of the model's state hold in every behaviour, whatever the bounds.
THEOREM TypeCorrect == Spec => []TypeOK
<1>1. IndInv => TypeOK
  BY DEF IndInv
<1> QED
  BY <1>1, AlwaysIndInv, PTL

\* Listing by pages of any size from a backend whose lists may show a key wrongly,
\* watching from there on, with writes between the reads, over any number of
\* watches that end and are followed by another: of every key but those that the
\* list or the watch may have got wrong, the cache has what the store had.
THEOREM CacheIsThePast == Spec => []CacheIsPastState
<1>1. ASSUME IndInv PROVE CacheIsPastState
  <2> SUFFICES ASSUME view.pc \in {"listed", "watch"}, NEW k \in Keys \ view.unsure, NEW i
               PROVE  i \in view.kvs /\ log[i].key = k
                        <=> i \in LiveAt(log, view.rev) /\ log[i].key = k
    BY DEF CacheIsPastState
  <2>1. log \in Seq(Rows) /\ view.rev \in 0..Len(log) /\ view.rev \in Nat
    BY <1>1 DEF IndInv, TypeOK, Views, CacheFollows
  <2>2. Exact(k, view.rev, view.kvs, view.rev)
    BY <1>1 DEF IndInv, CacheExact, UpTo
  <2>3. (i \in LiveAt(log, view.rev) /\ log[i].key = k) <=> Current(log, k, view.rev, i)
    BY <2>1, CurrentIs
  <2>4. ASSUME Current(log, k, view.rev, i) PROVE i \in view.kvs /\ log[i].key = k
    <3>1. /\ NewestAt(log, k, view.rev) \in 0..view.rev
          /\ NewestAt(log, k, view.rev) # 0 => log[NewestAt(log, k, view.rev)].key = k
      BY <2>1, NewestIs
    <3>2. i <= view.rev /\ log[i].key = k
      BY <2>1, <2>4, <3>1 DEF Current
    <3> QED
      BY <2>2, <2>4, <3>2 DEF Exact
  <2>5. i \in view.kvs /\ log[i].key = k => Current(log, k, view.rev, i)
    BY <2>2 DEF Exact
  <2> QED
    BY <2>3, <2>4, <2>5
<1> QED
  BY <1>1, AlwaysIndInv, PTL

\* What Close cancels, and what is cancelled already, are all that still run.
MapCovers == \A i \in Ids : go[i] \in {"created", "loop"} => i \in watches \cup done

\* A step that starts no goroutine, forgets no watch without cancelling it, and
\* does not begin to close.
LEMMA CoverKept ==
    ASSUME MapCovers, CloseCancels,
           \A i \in Ids : go'[i] \in {"created", "loop"} => go[i] \in {"created", "loop"},
           watches \cup done \subseteq (watches \cup done)', done \subseteq done',
           serve' \in {"closing", "closed"} => serve \in {"closing", "closed"}
    PROVE  MapCovers' /\ CloseCancels'
BY DEF MapCovers, CloseCancels

\* Every step keeps both.
LEMMA CoverNext ==
    ASSUME TypeOK, MapCovers, CloseCancels, [Next]_vars
    PROVE  MapCovers' /\ CloseCancels'
<1>1. go \in Goroutines
  BY DEF TypeOK, Goroutines
<1>2. CASE UNCHANGED <<serve, watches, done, go>>
  BY <1>2, CoverKept
<1>3. CASE Start
  <2>1. PICK i \in Ids : /\ watches' = watches \cup {i}
                         /\ go' = [go EXCEPT ![i] = "created"]
    BY <1>3 DEF Start
  <2>2. serve = "recv" /\ serve' = serve /\ done' = done
    BY <1>3 DEF Start
  <2> QED
    BY <1>1, <2>1, <2>2 DEF MapCovers, CloseCancels, Goroutines
<1>4. ASSUME NEW i \in Ids, Goroutine(i) \/ LoopEnds(i) PROVE MapCovers' /\ CloseCancels'
  <2>1. serve' = serve
    BY <1>4 DEF Goroutine, SendCreated, SendEvents, LoopEndsCancelled, LoopEnds, SendCanceled
  <2>2. UNCHANGED <<watches, done>> \/ CancelLocked(i)
    BY <1>4 DEF Goroutine, SendCreated, SendEvents, LoopEndsCancelled, LoopEnds, SendCanceled
  <2>3. \A j \in Ids : go'[j] \in {"created", "loop"} => go[j] \in {"created", "loop"}
    <3>1. CASE SendCreated(i)
      <4>1. go' = [go EXCEPT ![i] = "loop"] \/ go' = [go EXCEPT ![i] = "failed"]
        BY <3>1 DEF SendCreated
      <4>2. go[i] = "created"
        BY <3>1 DEF SendCreated
      <4> QED
        BY <1>1, <4>1, <4>2 DEF Goroutines
    <3>2. CASE SendEvents(i)
      BY <3>2 DEF SendEvents
    <3>3. CASE LoopEnds(i) \/ SendCanceled(i)
      <4>1. \E pc \in {"ending", "ended"} : go' = [go EXCEPT ![i] = pc]
        BY <3>3 DEF LoopEnds, SendCanceled
      <4> QED
        BY <1>1, <4>1 DEF Goroutines
    <3> QED
      BY <1>4, <3>1, <3>2, <3>3 DEF Goroutine, LoopEndsCancelled
  <2> QED
    BY <2>1, <2>2, <2>3, CoverKept DEF CancelLocked
<1>5. CASE CancelRequest
  <2>1. UNCHANGED go /\ CancelLocked(view.id) /\ serve' = "cancel"
    BY <1>5 DEF CancelRequest
  <2> QED
    BY <2>1, CoverKept DEF CancelLocked
<1>6. CASE CancelAnswered
  <2>1. UNCHANGED <<watches, done, go>> /\ serve' = "recv"
    BY <1>6 DEF CancelAnswered
  <2> QED
    BY <2>1, CoverKept
<1>7. ASSUME NEW how \in {"eof", "broken"}, Disconnect(how) PROVE MapCovers' /\ CloseCancels'
  <2>1. UNCHANGED <<serve, watches, go>> /\ done \subseteq done'
    BY <1>7 DEF Disconnect, TypeOK
  <2> QED
    BY <2>1, CoverKept
<1>8. CASE Close
  <2>1. UNCHANGED <<watches, go>> /\ done' = done \cup watches
    BY <1>8 DEF Close
  <2> QED
    BY <2>1 DEF MapCovers, CloseCancels
<1>9. CASE CloseReturns
  <2>1. UNCHANGED <<watches, done, go>> /\ \A i \in Ids : go[i] \in {"none", "ended"}
    BY <1>9 DEF CloseReturns
  <2> QED
    BY <2>1 DEF MapCovers, CloseCancels
<1>10. ASSUME NEW c \in Clients,
              \/ AppendRow(c) \/ PutUpdate(c)
              \/ \E k \in Keys :
                   \/ Create(c, k) \/ PutGet(c, k)
                   \/ \E r \in 1..MaxLog : Update(c, k, r) \/ Delete(c, k, r)
       PROVE  MapCovers' /\ CloseCancels'
  BY <1>2, <1>10 DEF AppendRow, PutUpdate, Create, PutGet, Update, Delete, Perform, stream
<1>11. CASE RangeFirst \/ RangeRows \/ Relist \/ RangeMore
  BY <1>2, <1>11 DEF RangeFirst, RangeRows, Relist, RangeMore
<1>12. CASE UNCHANGED vars
  BY <1>2, <1>12 DEF vars, stream
<1> QED
  BY <1>3, <1>4, <1>5, <1>6, <1>7, <1>8, <1>9, <1>10, <1>11, <1>12 DEF Next

\* When Close waits, every goroutine that may still list or range is cancelled,
\* after whatever cancels of the client, failed Sends and watches that the backend
\* ended: CancelLocked takes a watch out of the map only once it is cancelled.
THEOREM ClosesCancel == Spec => []CloseCancels
<1>1. Init => MapCovers /\ CloseCancels
  BY DEF Init, MapCovers, CloseCancels
<1>2. TypeOK /\ MapCovers /\ CloseCancels /\ [Next]_vars => MapCovers' /\ CloseCancels'
  BY CoverNext
<1> QED
  BY <1>1, <1>2, TypeCorrect, PTL DEF Spec
-----------------------------------------------------------------------------
(* Transactions against etcd's.                                             *)

\* What TxnIsEtcd says of one answer to a transaction on key k.
Agrees(L, k, t, a, e) ==
    IF a.ok = "error" \/ isCompact(t) THEN a.rows = <<>>
    ELSE IF isDelete(t) /\ t.rev = 0 THEN Mod(L \o a.rows, k) = 0 /\ a.ok = "yes"
    ELSE \/ a.rows = e.rows /\ (a.ok = e.ok \/ (isDelete(t) /\ Mod(L, k) = 0 /\ a.ok = "yes"))
         \/ /\ isUpdate(t) /\ ~ NeverDeleted(L, k)
            /\ a.ok = "yes" => NewestAt(L, k, Len(L)) = t.rev
            /\ a.ok = "no" => a.rows = <<>>

\* After a tombstone the key is absent.
LEMMA DeletedIsAbsent ==
    ASSUME NEW L \in Seq(Rows), NEW k \in Keys \cup {CompactKey}
    PROVE  Mod(L \o <<Row(k, TRUE)>>, k) = 0
<1> DEFINE e == Row(k, TRUE)
           M == L \o <<e>>
           n == NewestAt(M, k, Len(M))
<1>1. e.key = k /\ e.delete = TRUE /\ e \in Rows
  BY DEF Row, Rows
<1> HIDE DEF e
<1>2. Len(M) = Len(L) + 1 /\ Len(M) \in Nat /\ M[Len(M)] = e /\ Len(M) \in 1..Len(M)
  BY <1>1
<1> HIDE DEF M
<1>3. n \in 0..Len(M) /\ \A j \in 1..Len(M) : M[j].key = k => j <= n
  BY <1>2, NewestIs
<1>4. n = Len(M)
  BY <1>1, <1>2, <1>3
<1>5. Mod(M, k) = 0
  BY <1>1, <1>2, <1>4 DEF Mod
<1> QED
  BY <1>5 DEF M, e

\* The parts of an answer.
LEMMA AnswerIs ==
    ASSUME NEW rows, NEW ok
    PROVE  Answer(rows, ok).rows = rows /\ Answer(rows, ok).ok = ok
BY DEF Answer

\* The parts of a transaction on key k: every operation is on k.
LEMMA TxnIs ==
    ASSUME NEW k, NEW t \in TxnsOf(k)
    PROVE  /\ t.key = k /\ t.rev \in 0..MaxLog /\ t.equal \in BOOLEAN
           /\ \A j \in 1..Len(t.success) : t.success[j].key = k
           /\ isUpdate(t) => t.success[1].plain
<1>1. /\ t.key = k /\ t.rev \in 0..MaxLog /\ t.equal \in BOOLEAN
      /\ t.success \in UNION {[1..n -> Ops(k)] : n \in 0..2}
      /\ isUpdate(t) => t.success[1].plain
  BY DEF TxnsOf
<1>2. PICK n \in 0..2 : t.success \in [1..n -> Ops(k)]
  BY <1>1
<1>3. Len(t.success) = n
  BY <1>2
<1>4. \A op \in Ops(k) : op.key = k
  BY DEF Ops, Op
<1>5. \A j \in 1..Len(t.success) : t.success[j].key = k
  BY <1>2, <1>3, <1>4
<1> QED
  BY <1>1, <1>5

\* etcd's operation on a key.
LEMMA EtcdOpIs ==
    ASSUME NEW L, NEW op
    PROVE  /\ op.op = "range" => EtcdOp(L, op) = <<>>
           /\ op.op = "put" => EtcdOp(L, op) = <<Row(op.key, FALSE)>>
           /\ op.op = "delete" =>
                EtcdOp(L, op) = IF Mod(L, op.key) # 0 THEN <<Row(op.key, TRUE)>> ELSE <<>>
BY DEF EtcdOp

\* etcd's operations: none, one, or one after a range.
LEMMA EtcdOpsIs ==
    ASSUME NEW L \in Seq(Rows), NEW ops
    PROVE  /\ Len(ops) = 0 => EtcdOps(L, ops) = <<>>
           /\ Len(ops) = 1 => EtcdOps(L, ops) = EtcdOp(L, ops[1])
           /\ Len(ops) = 2 /\ ops[1].op = "range" /\ ops[2].op = "delete" =>
                EtcdOps(L, ops) = EtcdOp(L, ops[2])
<1>1. Len(ops) = 0 => EtcdOps(L, ops) = <<>>
  BY DEF EtcdOps
<1>2. Len(ops) = 1 => EtcdOps(L, ops) = EtcdOp(L, ops[1])
  BY DEF EtcdOps
<1>3. ASSUME Len(ops) = 2, ops[1].op = "range", ops[2].op = "delete"
      PROVE  EtcdOps(L, ops) = EtcdOp(L, ops[2])
  <2>1. EtcdOp(L, ops[1]) = <<>>
    BY <1>3, EtcdOpIs
  <2>2. L \o <<>> = L
    OBVIOUS
  <2>3. EtcdOps(L, ops) = <<>> \o EtcdOp(L, ops[2])
    BY <1>3, <2>1, <2>2 DEF EtcdOps
  <2>4. EtcdOp(L, ops[2]) = <<Row(ops[2].key, TRUE)>> \/ EtcdOp(L, ops[2]) = <<>>
    BY <1>3, EtcdOpIs
  <2>5. \A e : <<>> \o <<e>> = <<e>>
    OBVIOUS
  <2>6. <<>> \o <<>> = <<>>
    OBVIOUS
  <2> QED
    BY <2>3, <2>4, <2>5, <2>6
<1> QED
  BY <1>1, <1>2, <1>3

\* etcd's comparison of a ModRevision.
LEMMA EtcdIs ==
    ASSUME NEW L, NEW t, t.target = "MOD", t.equal = TRUE
    PROVE  /\ Mod(L, t.key) = t.rev => Etcd(L, t) = Answer(EtcdOps(L, t.success), "yes")
           /\ Mod(L, t.key) # t.rev => Etcd(L, t) = Answer(EtcdOps(L, t.failure), "no")
BY DEF Etcd

\* What etcd makes of one operation of success, and of one range or nothing on
\* failure.
LEMMA EtcdOne ==
    ASSUME NEW L \in Seq(Rows), NEW t, t.target = "MOD", t.equal = TRUE, Len(t.success) = 1,
           Len(t.failure) = 0 \/ (Len(t.failure) = 1 /\ t.failure[1].op = "range")
    PROVE  Etcd(L, t) = IF Mod(L, t.key) = t.rev THEN Answer(EtcdOp(L, t.success[1]), "yes")
                        ELSE Answer(<<>>, "no")
<1>1. EtcdOps(L, t.failure) = <<>>
  <2>1. CASE Len(t.failure) = 0
    BY <2>1, EtcdOpsIs
  <2>2. CASE Len(t.failure) = 1 /\ t.failure[1].op = "range"
    <3>1. EtcdOps(L, t.failure) = EtcdOp(L, t.failure[1])
      BY <2>2, EtcdOpsIs
    <3> QED
      BY <2>2, <3>1, EtcdOpIs
  <2> QED
    BY <2>1, <2>2
<1>2. EtcdOps(L, t.success) = EtcdOp(L, t.success[1])
  BY EtcdOpsIs
<1>3. CASE Mod(L, t.key) = t.rev
  <2>1. Etcd(L, t) = Answer(EtcdOps(L, t.success), "yes")
    BY <1>3, EtcdIs
  <2> QED
    BY <1>2, <1>3, <2>1
<1>4. CASE Mod(L, t.key) # t.rev
  <2>1. Etcd(L, t) = Answer(EtcdOps(L, t.failure), "no")
    BY <1>4, EtcdIs
  <2> QED
    BY <1>1, <1>4, <2>1
<1> QED
  BY <1>3, <1>4

\* A create, or what update makes of revision 0.
LEMMA CreateAgrees ==
    ASSUME NEW L \in Seq(Rows), NEW k \in Keys \cup {CompactKey}, NEW t \in TxnsOf(k), isCreate(t),
           NEW a \in Txn(L, t)
    PROVE  Agrees(L, k, t, a, Etcd(L, t))
<1>1. t.key = k /\ \A j \in 1..Len(t.success) : t.success[j].key = k
  BY TxnIs
<1>2. /\ t.target = "MOD" /\ t.equal = TRUE /\ t.rev = 0
      /\ Len(t.success) = 1 /\ t.success[1].op = "put" /\ Len(t.failure) = 0
  BY TxnIs DEF isCreate, ModEqual, Are
<1>3. ~ isDelete(t) /\ ~ isCompact(t)
  BY <1>2 DEF isDelete, isCompact, ModEqual, Are
<1>4. t.success[1].key = k
  BY <1>1, <1>2
<1>5. a = create(L, t)
  BY DEF Txn
<1>6. Etcd(L, t) = IF Mod(L, k) = 0 THEN Answer(<<Row(k, FALSE)>>, "yes") ELSE Answer(<<>>, "no")
  <2>1. EtcdOp(L, t.success[1]) = <<Row(k, FALSE)>>
    BY <1>2, <1>4, EtcdOpIs
  <2> QED
    BY <1>1, <1>2, <2>1, EtcdOne
<1>7. a \in {Answer(<<>>, "error"), Etcd(L, t)}
  BY <1>4, <1>5, <1>6 DEF create, BackendCreate, Answer
<1>8. Etcd(L, t).ok \in {"yes", "no"}
  BY <1>6, AnswerIs
<1> QED
  BY <1>3, <1>7, <1>8, AnswerIs DEF Agrees

\* A delete, compared or not.
LEMMA DeleteAgrees ==
    ASSUME NEW L \in Seq(Rows), NEW k \in Keys \cup {CompactKey}, NEW t \in TxnsOf(k), isDelete(t),
           NEW a \in Txn(L, t)
    PROVE  Agrees(L, k, t, a, Etcd(L, t))
<1> DEFINE m == Mod(L, k)
           gone == Answer(IF m # 0 THEN <<Row(k, TRUE)>> ELSE <<>>, "yes")
<1>1. t.key = k /\ \A j \in 1..Len(t.success) : t.success[j].key = k
  BY TxnIs
<1>2. ~ isCreate(t) /\ ~ isCompact(t) /\ a = delete(L, t)
  <2>1. ~ isCreate(t) /\ ~ isCompact(t)
    BY DEF isDelete, isCreate, isCompact, ModEqual, Are
  <2> QED
    BY <2>1 DEF Txn
<1>3. Mod(L \o gone.rows, k) = 0 /\ gone.ok = "yes"
  <2>1. Mod(L \o <<Row(k, TRUE)>>, k) = 0
    BY DeletedIsAbsent
  <2>2. L \o <<>> = L
    OBVIOUS
  <2>3. gone.rows = IF m # 0 THEN <<Row(k, TRUE)>> ELSE <<>>
    BY AnswerIs
  <2> QED
    BY <2>1, <2>2, <2>3, AnswerIs
<1>4. CASE t.target = "NONE"
  <2>1. Len(t.success) = 2 /\ t.success[1].op = "range" /\ t.success[2].op = "delete"
    BY <1>4 DEF isDelete, ModEqual, Are
  <2>2. t.success[2].key = k
    BY <1>1, <2>1
  <2>3. Etcd(L, t) = gone
    <3>1. Etcd(L, t) = Answer(EtcdOps(L, t.success), "yes")
      BY <1>4 DEF Etcd
    <3> QED
      BY <2>1, <2>2, <3>1, EtcdOpsIs, EtcdOpIs
  <2>4. a = gone
    BY <1>2, <1>4, <2>1, <2>2 DEF delete, BackendDelete
  <2> QED
    BY <1>2, <1>3, <2>3, <2>4 DEF Agrees
<1>5. CASE t.target # "NONE"
  <2>1. /\ t.target = "MOD" /\ t.equal = TRUE /\ Len(t.success) = 1 /\ t.success[1].op = "delete"
        /\ Len(t.failure) = 1 /\ t.failure[1].op = "range"
    BY <1>5, TxnIs DEF isDelete, ModEqual, Are
  <2>2. t.success[1].key = k
    BY <1>1, <2>1
  <2>3. a = BackendDelete(L, k, t.rev)
    BY <1>2, <1>5, <2>1, <2>2 DEF delete
  <2>4. Etcd(L, t) = IF m = t.rev THEN gone ELSE Answer(<<>>, "no")
    <3>1. EtcdOp(L, t.success[1]) = IF m # 0 THEN <<Row(k, TRUE)>> ELSE <<>>
      BY <2>1, <2>2, EtcdOpIs
    <3> QED
      BY <1>1, <2>1, <3>1, EtcdOne
  <2>5. CASE t.rev = 0
    <3>1. a = gone
      BY <2>3, <2>5 DEF BackendDelete
    <3> QED
      BY <1>2, <1>3, <2>5, <3>1 DEF Agrees
  <2>6. CASE t.rev # 0 /\ m = 0
    <3>1. a = Answer(<<>>, "yes") /\ Etcd(L, t) = Answer(<<>>, "no")
      BY <2>3, <2>4, <2>6 DEF BackendDelete
    <3> QED
      BY <1>2, <2>6, <3>1, AnswerIs DEF Agrees
  <2>7. CASE t.rev # 0 /\ m # 0
    <3>1. a = Etcd(L, t)
      BY <2>3, <2>4, <2>7 DEF BackendDelete
    <3>2. a.ok \in {"yes", "no"}
      BY <2>4, <3>1, AnswerIs
    <3> QED
      BY <1>2, <2>7, <3>1, <3>2 DEF Agrees
  <2> QED
    BY <2>5, <2>6, <2>7
<1> QED
  BY <1>4, <1>5

\* An update: its read may miss a key that was deleted before.
LEMMA UpdateAgrees ==
    ASSUME NEW L \in Seq(Rows), NEW k \in Keys \cup {CompactKey}, NEW t \in TxnsOf(k), isUpdate(t),
           NEW a \in Txn(L, t)
    PROVE  Agrees(L, k, t, a, Etcd(L, t))
<1> DEFINE m == Mod(L, k)
           n == NewestAt(L, k, Len(L))
<1>1. t.key = k /\ t.rev \in 0..MaxLog /\ \A j \in 1..Len(t.success) : t.success[j].key = k
  BY TxnIs
<1>2. /\ t.target = "MOD" /\ t.equal = TRUE /\ Len(t.success) = 1 /\ t.success[1].op = "put"
      /\ Len(t.failure) = 1 /\ t.failure[1].op = "range"
  BY TxnIs DEF isUpdate, ModEqual, Are
<1>3. t.success[1].key = k
  BY <1>1, <1>2
<1>4. ~ isCreate(t) /\ ~ isDelete(t) /\ ~ isCompact(t)
  BY <1>2 DEF isCreate, isDelete, isCompact, ModEqual, Are
<1>5. a \in update(L, t)
  BY <1>4 DEF Txn
<1>6. Etcd(L, t) = IF m = t.rev THEN Answer(<<Row(k, FALSE)>>, "yes") ELSE Answer(<<>>, "no")
  <2>1. EtcdOp(L, t.success[1]) = <<Row(k, FALSE)>>
    BY <1>2, <1>3, EtcdOpIs
  <2> QED
    BY <1>1, <1>2, <2>1, EtcdOne
<1>6a. Etcd(L, t).ok \in {"yes", "no"}
  BY <1>6, AnswerIs
<1>7. CASE t.rev = 0
  <2>1. a \in {Answer(<<>>, "error"), Etcd(L, t)}
    BY <1>1, <1>5, <1>6, <1>7 DEF update, BackendCreate, Answer
  <2> QED
    BY <1>4, <1>6a, <2>1, AnswerIs DEF Agrees
<1>8. CASE t.rev # 0
  <2>1. PICK i \in Shown(L, k, 0, Len(L)) :
          a = IF i # t.rev THEN Answer(<<>>, "no") ELSE Answer(<<Row(k, FALSE)>>, "yes")
    BY <1>1, <1>5, <1>8 DEF update, BackendUpdate
  <2>2. Len(L) \in 0..Len(L) /\ 0 \in 0..Len(L) /\ Len(L) \in Nat
    OBVIOUS
  <2>3. i \in {0, n} /\ (NeverDeleted(L, k) /\ n > 0 => i = n)
    BY <2>1, <2>2, ShownIs DEF NeverDeleted
  <2>4. n \in 0..Len(L) /\ (n # 0 => L[n].key = k)
    BY <2>2, NewestIs
  <2>5. i = t.rev => n = t.rev
    BY <1>8, <2>3
  <2>6. CASE NeverDeleted(L, k)
    <3>1. i = n
      BY <2>2, <2>3, <2>4, <2>6
    <3>2. m = n
      BY <2>2, <2>4, <2>6 DEF Mod, NeverDeleted
    <3>3. a = Etcd(L, t)
      BY <1>6, <2>1, <3>1, <3>2
    <3> QED
      BY <1>4, <1>6a, <1>8, <3>3, AnswerIs DEF Agrees
  <2>7. CASE ~ NeverDeleted(L, k)
    <3>1. a.ok = "yes" => n = t.rev
      BY <2>1, <2>5, AnswerIs
    <3>2. a.ok = "no" => a.rows = <<>>
      BY <2>1, AnswerIs
    <3>3. a.ok \in {"yes", "no"}
      BY <2>1, AnswerIs
    <3> QED
      BY <1>4, <2>7, <3>1, <3>2, <3>3 DEF Agrees
  <2> QED
    BY <2>6, <2>7
<1> QED
  BY <1>7, <1>8

\* Whatever is recognised of the transactions on one key is carried out as etcd's
\* API says, but for the deviations in the property, from every log and for every
\* revision compared with.
THEOREM TxnsAreEtcds == Spec => []TxnIsEtcd
<1>1. TypeOK => TxnIsEtcd
  <2> SUFFICES ASSUME TypeOK, NEW k \in Keys \cup {CompactKey}, NEW t \in TxnsOf(k),
                      NEW a \in Txn(log, t)
               PROVE  Agrees(log, k, t, a, Etcd(log, t))
    BY DEF TxnIsEtcd, Agrees
  <2>1. log \in Seq(Rows)
    BY DEF TypeOK
  <2>2. CASE ~ isCreate(t) /\ ~ isDelete(t) /\ ~ isUpdate(t)
    <3>1. a.rows = <<>> /\ (isCompact(t) \/ a.ok = "error")
      BY <2>2, AnswerIs DEF Txn
    <3> QED
      BY <3>1 DEF Agrees
  <2> QED
    BY <2>1, <2>2, CreateAgrees, DeleteAgrees, UpdateAgrees
<1> QED
  BY <1>1, TypeCorrect, PTL

=============================================================================
