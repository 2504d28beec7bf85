------------------------- MODULE WatchPipelineProofs -------------------------
(***************************************************************************)
(* Proofs about the poll loop, the broadcaster and the join of a list to    *)
(* the stream, for every number of appends in progress, watchers and ids, *)
(* every capacity of the channels and every size of a batch.                *)
(***************************************************************************)
EXTENDS WatchPipeline, TLAPS, FiniteSetTheorems, SequenceTheorems, WellFoundedInduction

-----------------------------------------------------------------------------
(* Numbers, and sets in ascending order.                                      *)

\* A set of numbers that is not empty has a least one.
LEMMA NatMin == ASSUME NEW T \in SUBSET Nat, T # {} PROVE \E x \in T : \A y \in T : x <= y
<1> DEFINE R == {ss \in Nat \X Nat : ss[1] < ss[2]}
<1>1. IsWellFoundedOn(R, Nat)
  BY NatLessThanWellFounded DEF OpToRel
<1>2. \A x, y \in Nat : <<y, x>> \in R <=> y < x
  OBVIOUS
<1>3. ASSUME NEW Q, IsWellFoundedOn(Q, Nat), \A x, y \in Nat : <<y, x>> \in Q <=> y < x
      PROVE  \E x \in T : \A y \in T : x <= y
  <2>1. PICK x \in T : \A y \in T : ~ (<<y, x>> \in Q)
    BY <1>3, WFMin
  <2>2. ASSUME NEW y \in T PROVE x <= y
    <3>1. ~ (<<y, x>> \in Q) /\ x \in Nat /\ y \in Nat
      BY <2>1
    <3>2. ~ (y < x)
      BY <1>3, <3>1
    <3> QED
      BY <3>1, <3>2
  <2> QED
    BY <2>2
<1> HIDE DEF R
<1> QED
  BY <1>1, <1>2, <1>3

\* s lists the set S in ascending order.
Lists(s, S) ==
    /\ s \in [1..Cardinality(S) -> S]
    /\ \A i, j \in 1..Cardinality(S) : i < j => s[i] < s[j]

\* Every finite set of numbers can be listed so: no smallest size is without.
LEMMA ListExists ==
    ASSUME NEW b \in Nat, NEW S \in SUBSET (0..b)
    PROVE  \E s : Lists(s, S)
<1> DEFINE Bad == {n \in Nat : \E T \in SUBSET (0..b) : Cardinality(T) = n /\ ~ \E s : Lists(s, T)}
<1>1. \A T \in SUBSET (0..b) : IsFiniteSet(T) /\ Cardinality(T) \in Nat
  <2>1. IsFiniteSet(0..b)
    BY FS_Interval
  <2> QED
    BY <2>1, FS_Subset, FS_CardinalityType
<1>2. ASSUME Bad # {} PROVE FALSE
  <2>1. Bad \in SUBSET Nat
    OBVIOUS
  <2>2. PICK n \in Bad : \A m \in Bad : n <= m
    BY <1>2, <2>1, NatMin
  <2>3. PICK T \in SUBSET (0..b) : Cardinality(T) = n /\ ~ \E s : Lists(s, T)
    BY <2>2
  <2>4. CASE T = {}
    <3>1. Cardinality(T) = 0
      BY <2>4, FS_EmptySet
    <3>2. [i \in 1..0 |-> 0] \in [1..0 -> T]
      OBVIOUS
    <3>3. Lists([i \in 1..0 |-> 0], T)
      BY <3>1, <3>2 DEF Lists
    <3> QED
      BY <3>3, <2>3
  <2>5. CASE T # {}
    <3>1. T \in SUBSET Nat
      OBVIOUS
    <3>2. PICK x \in T : \A y \in T : x <= y
      BY <2>5, <3>1, NatMin
    <3> DEFINE U == T \ {x}
               m == Cardinality(U)
    <3>3. m = n - 1 /\ m \in Nat /\ n \in Nat
      BY <1>1, <2>3, FS_RemoveElement
    <3>4. m \notin Bad
      BY <2>2, <3>3
    <3>5. PICK s : Lists(s, U)
      BY <3>3, <3>4
    <3>6. s \in [1..m -> U] /\ \A i, j \in 1..m : i < j => s[i] < s[j]
      BY <3>5 DEF Lists
    <3>7. \A y \in U : x < y
      BY <3>1, <3>2
    <3> HIDE DEF m, U
    <3> DEFINE r == [i \in 1..n |-> IF i = 1 THEN x ELSE s[i - 1]]
    <3>8. \A i \in 1..n : i # 1 => i - 1 \in 1..m
      BY <3>3
    <3>9. \A i \in 1..n : i # 1 => s[i - 1] \in U
      BY <3>6, <3>8
    <3>10. r \in [1..n -> T]
      BY <3>9 DEF U
    <3>11. ASSUME NEW i \in 1..n, NEW j \in 1..n, i < j PROVE r[i] < r[j]
      <4>1. j # 1 /\ r[j] = s[j - 1] /\ j - 1 \in 1..m
        BY <3>3, <3>8, <3>11
      <4>2. CASE i = 1
        BY <4>1, <4>2, <3>7, <3>9
      <4>3. CASE i # 1
        <5>1. r[i] = s[i - 1] /\ i - 1 \in 1..m /\ i - 1 < j - 1
          BY <3>3, <3>8, <3>11, <4>3
        <5> QED
          BY <4>1, <5>1, <3>6
      <4> QED
        BY <4>2, <4>3
    <3>12. Lists(r, T)
      BY <2>3, <3>10, <3>11 DEF Lists
    <3> QED
      BY <2>3, <3>12
  <2> QED
    BY <2>4, <2>5
<1> QED
  BY <1>1, <1>2

\* Ascending returns such a list, and it names all of the set.
LEMMA AscendingIs ==
    ASSUME NEW S \in SUBSET Ids
    PROVE  /\ Ascending(S) \in Seq(S)
           /\ \A i, j \in 1..Len(Ascending(S)) : i < j => Ascending(S)[i] < Ascending(S)[j]
           /\ \A x \in S : \E i \in 1..Len(Ascending(S)) : Ascending(S)[i] = x
<1> DEFINE n == Cardinality(S)
           a == Ascending(S)
<1>1. MaxId \in Nat /\ S \in SUBSET (0..MaxId)
  BY WatchAssumption DEF Ids, PollStart
<1>2. IsFiniteSet(S) /\ n \in Nat
  <2>1. IsFiniteSet(0..MaxId)
    BY <1>1, FS_Interval
  <2> QED
    BY <1>1, <2>1, FS_Subset, FS_CardinalityType
<1>3. Lists(a, S)
  <2>1. \E s : Lists(s, S)
    BY <1>1, ListExists
  <2> QED
    BY <2>1 DEF Lists, Ascending
<1>4. a \in [1..n -> S] /\ \A i, j \in 1..n : i < j => a[i] < a[j]
  BY <1>3 DEF Lists
<1> HIDE DEF a
<1>5. a \in Seq(S) /\ Len(a) = n
  BY <1>2, <1>4
<1>6. ASSUME NEW x \in S, \A i \in 1..n : a[i] # x PROVE FALSE
  <2>1. a \in [1..n -> S \ {x}]
    BY <1>4, <1>6
  <2>2. IsFiniteSet(S \ {x}) /\ Cardinality(S \ {x}) = n - 1
    BY <1>2, FS_RemoveElement
  <2>3. IsFiniteSet(1..n) /\ Cardinality(1..n) = n
    BY <1>2, FS_Interval
  <2>4. PICK i, j \in 1..n : i # j /\ a[i] = a[j]
    <3>1. Cardinality(S \ {x}) < Cardinality(1..n)
      BY <1>2, <2>2, <2>3
    <3>2. ASSUME NEW A, NEW B, NEW f \in [A -> B], IsFiniteSet(A), IsFiniteSet(B),
                 Cardinality(B) < Cardinality(A)
          PROVE  \E i, j \in A : i # j /\ f[i] = f[j]
      BY <3>2, FS_PigeonHole, Zenon
    <3> QED
      BY <2>1, <2>2, <2>3, <3>1, <3>2, ZenonT(40)
  <2>5. a[i] \in Nat /\ a[j] \in Nat /\ (i < j \/ j < i)
    <3>1. a[i] \in S /\ a[j] \in S /\ i \in Nat /\ j \in Nat
      BY <1>2, <1>4
    <3>2. a[i] \in Nat /\ a[j] \in Nat
      <4>1. \A y \in S : y \in Nat
        BY <1>1
      <4> QED
        BY <3>1, <4>1
    <3>3. i # j
      BY <2>4
    <3> QED
      BY <3>1, <3>2, <3>3
  <2> QED
    BY <1>4, <2>4, <2>5
<1> QED
  BY <1>4, <1>5, <1>6 DEF a

-----------------------------------------------------------------------------
(* The inductive invariant.                                                 *)

\* A round of poll: its events are still to come and differ in id, and every
\* revision between last and rev is one to send or is done with.
InRound == pollPc \in {"scan", "fill", "send"}

Round ==
    /\ ~ InRound => batch = {} /\ sequential = {} /\ ~ saveLast
    /\ pollPc \in {"fill", "send"} => batch = {}
    /\ InRound => /\ last <= rev /\ rev <= MaxId
                  /\ saveLast \/ rev = last
                  /\ \A e \in batch : e.id > rev
                  /\ \A e, f \in batch : e.id = f.id => e = f
                  /\ \A i \in sequential : last < i /\ i <= rev
                  /\ \A i \in Ids : last < i /\ i <= rev => i \in sequential \/ fate[i] # "none"

\* What is sent or about to be is a row: Fill only overwrites ids poll is not
\* past.
SentAreRows ==
    /\ \A e \in batch : ~ e.gap => rows[e.id] = "row"
    /\ \A i \in sequential : rows[i] = "row"
    /\ \A i \in Ids : fate[i] = "sent" => rows[i] = "row" /\ i <= last
    /\ \A i \in input : fate[i] = "sent"

\* A watch has a channel in ascending order, after what was sent on and before
\* what the broadcaster holds; all of it was sent by poll.
Ordered(r, f, held) ==
    /\ \A k \in 1..Len(r.queue) : \A x \in r.queue[k] :
         f[x] = "sent" /\ \A y \in held : x < y
    /\ \A k, l \in 1..Len(r.queue) : k < l => \A x \in r.queue[k], y \in r.queue[l] : x < y
    /\ \A k \in 1..Len(r.streamed) :
         /\ f[r.streamed[k]] = "sent"
         /\ \A y \in held : r.streamed[k] < y
         /\ \A l \in 1..Len(r.queue) : \A y \in r.queue[l] : r.streamed[k] < y
    /\ \A k, l \in 1..Len(r.streamed) : k < l => r.streamed[k] < r.streamed[l]

\* The id has a row, or is about to have one.
Arrives(i) == rows[i] = "row" \/ i \in reserved

\* Where the stream takes over from the list: no row up to lastRevision can
\* appear that was not in the list nor in flight then.
Joined(r) ==
    /\ r.from <= maxid /\ r.max <= maxid /\ r.lastRevision <= maxid
    /\ r.status = "stream" /\ ~ r.ending =>
         \A i \in Ids : r.from < i /\ i <= r.lastRevision /\ Arrives(i)
                           => i \in r.listed \cup r.inflight

\* i is in Told, of a watch.
Tells(r, held, i) ==
    \/ i \in r.listed
    \/ \E k \in 1..Len(r.streamed) : i = r.streamed[k]
    \/ \E k \in 1..Len(r.queue) : i \in r.queue[k]
    \/ i \in held

Missed(r) ==
    (r.status = "stream" /\ r.subscribed /\ ~ r.ending) =>
        \A i \in Ids : (fate[i] = "sent" /\ i > r.from) => Tells(r, input, i) \/ i \in r.inflight

WatchesRight == \A w \in Watchers : Ordered(watch[w], fate, input) /\ Joined(watch[w]) /\ Missed(watch[w])

IndInv ==
    /\ TypeOK
    /\ Round
    /\ EveryRevisionAccounted
    /\ SentAreRows
    /\ WatchesRight

-----------------------------------------------------------------------------
(* Appends and polls that neither send nor stream.                          *)

\* The numbers among the constants.
LEMMA Numbers ==
    /\ MaxId \in Nat /\ MaxId >= 1 /\ PollStart = 1
    /\ \A i \in Ids : i \in Nat /\ i >= 2 /\ i <= MaxId
    /\ \A i \in Nat : i >= 2 /\ i <= MaxId => i \in Ids
BY WatchAssumption DEF Ids, PollStart

\* The notify channel keeps its type.
LEMMA NotifyType ==
    ASSUME TypeOK, NEW r \in Revisions, Notify(r)
    PROVE  notify' \in Seq(Revisions) /\ Len(notify') <= NotifyCap
<1>1. notify \in Seq(Revisions) /\ Len(notify) <= NotifyCap /\ NotifyCap \in Nat
  BY WatchAssumption DEF TypeOK
<1>2. CASE Len(notify) < NotifyCap
  <2>1. notify' = Append(notify, r)
    BY <1>2 DEF Notify
  <2> QED
    BY <1>1, <1>2, <2>1
<1>3. CASE ~ (Len(notify) < NotifyCap)
  BY <1>1, <1>3 DEF Notify
<1> QED
  BY <1>2, <1>3

\* What a step that leaves the watches alone may do to the rest: the watches
\* stay right if poll is not set back and sends nothing, and rows come only to
\* ids that were reserved or are new.
LEMMA WatchesAlone ==
    ASSUME IndInv, watch' = watch, input' = input, maxid' \in Nat, maxid <= maxid',
           \A i \in Ids : fate'[i] = "sent" <=> fate[i] = "sent",
           \A i \in Ids : Arrives(i)' => Arrives(i) \/ i > maxid
    PROVE  WatchesRight'
<1>1. TypeOK /\ WatchesRight /\ maxid \in Nat
  BY Numbers DEF IndInv, TypeOK
<1> SUFFICES ASSUME NEW w \in Watchers
             PROVE  Ordered(watch[w], fate, input)' /\ Joined(watch[w])' /\ Missed(watch[w])'
  BY DEF WatchesRight
<1> DEFINE r == watch[w]
<1>2. Ordered(r, fate, input) /\ Joined(r) /\ Missed(r)
  BY <1>1 DEF WatchesRight
<1>3. /\ r \in Watches /\ r.queue \in Seq(SUBSET Ids) /\ r.streamed \in Seq(Ids)
      /\ r.from \in Nat /\ r.max \in Nat /\ r.lastRevision \in Nat
  BY <1>1, Numbers DEF TypeOK, Watches, Revisions
<1>4. Ordered(r, fate, input)'
  <2>1. \A k \in 1..Len(r.queue) : r.queue[k] \in SUBSET Ids
    BY <1>3
  <2>2. \A k \in 1..Len(r.streamed) : r.streamed[k] \in Ids
    BY <1>3
  <2> QED
    BY <1>2, <2>1, <2>2 DEF Ordered
<1>5. Joined(r)'
  <2>1. r.from <= maxid' /\ r.max <= maxid' /\ r.lastRevision <= maxid'
    BY <1>1, <1>2, <1>3 DEF Joined
  <2>2. ASSUME r.status = "stream", ~ r.ending, NEW i \in Ids, r.from < i,
               i <= r.lastRevision, Arrives(i)'
        PROVE  i \in r.listed \cup r.inflight
    <3>1. ~ (i > maxid)
      BY <1>1, <1>2, <1>3, <2>2, Numbers DEF Joined
    <3> QED
      BY <3>1, <2>2, <1>2 DEF Joined
  <2> QED
    BY <2>1, <2>2 DEF Joined
<1>6. Missed(r)'
  BY <1>2 DEF Missed, Tells
<1> QED
  BY <1>4, <1>5, <1>6

\* Append: the id is reserved.
LEMMA ReserveKeeps ==
    ASSUME IndInv, AppendReserve
    PROVE  IndInv'
<1>1. TypeOK /\ Round /\ EveryRevisionAccounted /\ SentAreRows /\ maxid \in Nat /\ maxid >= 1
  BY Numbers DEF IndInv, TypeOK
<1>2. /\ maxid < MaxId /\ maxid' = maxid + 1
      /\ reserved' = reserved \cup {maxid + 1}
      /\ UNCHANGED <<rows, answered, notify, input, watch>>
      /\ UNCHANGED <<pollPc, last, skip, expired, batch, rev, sequential, saveLast,
                     waitForMore, fate>>
  BY DEF AppendReserve, poll, loop
<1>3. maxid + 1 \in Ids /\ maxid' \in PollStart..MaxId
  BY <1>1, <1>2, Numbers
<1>4. TypeOK'
  BY <1>1, <1>2, <1>3 DEF TypeOK
<1>5. \A i \in Ids : Arrives(i)' => Arrives(i) \/ i > maxid
  BY <1>1, <1>2 DEF Arrives, TypeOK
<1>6. WatchesRight'
  BY <1>1, <1>2, <1>5, WatchesAlone
<1>7. Round' /\ EveryRevisionAccounted' /\ SentAreRows'
  BY <1>1, <1>2 DEF Round, InRound, EveryRevisionAccounted, SentAreRows
<1> QED
  BY <1>4, <1>6, <1>7 DEF IndInv

\* The row is written, or the write is lost.
LEMMA WriteKeeps ==
    ASSUME IndInv, NEW i \in Ids, AppendWrite(i)
    PROVE  IndInv'
<1>1. TypeOK /\ Round /\ EveryRevisionAccounted /\ SentAreRows /\ maxid \in Nat
  BY Numbers DEF IndInv, TypeOK
<1>2. /\ i \in reserved /\ reserved' = reserved \ {i} /\ answered' = answered \cup {i}
      /\ UNCHANGED <<maxid, notify, input, watch>>
      /\ UNCHANGED <<pollPc, last, skip, expired, batch, rev, sequential, saveLast,
                     waitForMore, fate>>
      /\ rows' = [rows EXCEPT ![i] = "row"] \/ rows' = rows
  BY DEF AppendWrite, poll, loop
<1>3. rows' \in [Ids -> {"none", "row", "gap"}]
  BY <1>1, <1>2 DEF TypeOK
<1>4. TypeOK'
  BY <1>1, <1>2, <1>3 DEF TypeOK
<1>5. \A j \in Ids : rows[j] = "row" => rows'[j] = "row"
  BY <1>1, <1>2 DEF TypeOK
<1>6. \A j \in Ids : Arrives(j)' => Arrives(j)
  BY <1>1, <1>2 DEF Arrives, TypeOK
<1>7. WatchesRight'
  BY <1>1, <1>2, <1>6, WatchesAlone
<1>8. Round' /\ EveryRevisionAccounted'
  BY <1>1, <1>2 DEF Round, InRound, EveryRevisionAccounted
<1>9. SentAreRows'
  BY <1>1, <1>2, <1>5 DEF SentAreRows, TypeOK, Events
<1> QED
  BY <1>4, <1>7, <1>8, <1>9 DEF IndInv

\* The answer comes, with or without a notification.
LEMMA ReturnKeeps ==
    ASSUME IndInv, NEW i \in Ids, AppendReturn(i)
    PROVE  IndInv'
<1>1. TypeOK /\ Round /\ EveryRevisionAccounted /\ SentAreRows /\ maxid \in Nat
  BY Numbers DEF IndInv, TypeOK
<1>2. /\ Notify(i) \/ notify' = notify
      /\ answered' = answered \ {i}
      /\ UNCHANGED <<maxid, rows, reserved, input, watch>>
      /\ UNCHANGED <<pollPc, last, skip, expired, batch, rev, sequential, saveLast,
                     waitForMore, fate>>
  BY DEF AppendReturn, poll, loop
<1>3. i \in Revisions
  BY Numbers DEF Revisions
<1>4. notify' \in Seq(Revisions) /\ Len(notify') <= NotifyCap
  <2>1. CASE Notify(i)
    BY <1>1, <1>3, <2>1, NotifyType
  <2>2. CASE notify' = notify
    BY <1>1, <2>2 DEF TypeOK
  <2> QED
    BY <1>2, <2>1, <2>2
<1>5. TypeOK'
  BY <1>1, <1>2, <1>4 DEF TypeOK
<1>6. \A j \in Ids : Arrives(j)' => Arrives(j)
  BY <1>1, <1>2 DEF Arrives, TypeOK
<1>7. WatchesRight'
  BY <1>1, <1>2, <1>6, WatchesAlone
<1>8. Round' /\ EveryRevisionAccounted' /\ SentAreRows'
  BY <1>1, <1>2 DEF Round, InRound, EveryRevisionAccounted, SentAreRows
<1> QED
  BY <1>5, <1>7, <1>8 DEF IndInv

-----------------------------------------------------------------------------
(* The poll loop.                                                           *)

\* SQLLog.List, and the second that passes: nothing but a notification and the
\* clock.
LEMMA ClockKeeps ==
    ASSUME IndInv, List \/ Expire
    PROVE  IndInv'
<1>1. /\ UNCHANGED <<maxid, rows, reserved, answered, pollPc, last, skip, batch, rev, sequential,
                     saveLast, waitForMore, fate, input, watch>>
      /\ expired' \in BOOLEAN
      /\ notify' \in Seq(Revisions) /\ Len(notify') <= NotifyCap
  <2>1. CASE List
    <3>1. PICK r \in {0, maxid} : Notify(r)
      BY <2>1 DEF List
    <3>2. r \in Revisions
      BY Numbers DEF IndInv, TypeOK, Revisions
    <3>3. TypeOK
      BY DEF IndInv
    <3> QED
      BY <2>1, <3>1, <3>2, <3>3, NotifyType DEF List, db, poll, loop, TypeOK
  <2>2. CASE Expire
    BY <2>2 DEF Expire, db, loop, IndInv, TypeOK
  <2> QED
    BY <2>1, <2>2
<1>2. TypeOK'
  BY <1>1 DEF IndInv, TypeOK
<1>3. EveryRevisionAccounted' /\ SentAreRows' /\ Round'
  BY <1>1 DEF IndInv, EveryRevisionAccounted, SentAreRows, Round, InRound
<1>4. maxid \in Nat /\ \A i \in Ids : Arrives(i)' => Arrives(i)
  BY <1>1, Numbers DEF IndInv, TypeOK, Arrives
<1>5. WatchesRight'
  BY <1>1, <1>4, WatchesAlone
<1> QED
  BY <1>2, <1>3, <1>5 DEF IndInv

\* A step of poll that leaves the watches, what was sent and the inserts alone.
LEMMA PollAlone ==
    ASSUME IndInv, UNCHANGED <<maxid, reserved, input, watch>>,
           \A i \in Ids : fate'[i] = "sent" <=> fate[i] = "sent",
           \A i \in Ids : rows'[i] = "row" => rows[i] = "row",
           TypeOK', Round', EveryRevisionAccounted', SentAreRows'
    PROVE  IndInv'
<1>1. maxid \in Nat /\ \A i \in Ids : Arrives(i)' => Arrives(i)
  BY Numbers DEF IndInv, TypeOK, Arrives
<1>2. WatchesRight'
  BY <1>1, WatchesAlone
<1> QED
  BY <1>2 DEF IndInv

\* The select of the loop, a read that fails, the first subscription.
LEMMA IdleKeeps ==
    ASSUME IndInv, PollNotified \/ PollTick \/ PollReadFails \/ StartTtl
    PROVE  IndInv'
<1>1. /\ UNCHANGED <<maxid, rows, reserved, answered, last, skip, expired, batch, rev, sequential,
                     saveLast, fate, input, watch>>
      /\ pollPc \in {"off", "wait", "read"} /\ pollPc' \in {"wait", "read"}
      /\ waitForMore' \in BOOLEAN
      /\ notify' \in Seq(Revisions) /\ Len(notify') <= NotifyCap
  <2>1. CASE PollNotified
    <3>1. notify \in Seq(Revisions) /\ notify # <<>> /\ notify' = Tail(notify)
          /\ Len(notify) <= NotifyCap /\ NotifyCap \in Nat
      BY <2>1, WatchAssumption DEF PollNotified, IndInv, TypeOK
    <3>2. notify' \in Seq(Revisions) /\ Len(notify') <= NotifyCap
      BY <3>1
    <3> QED
      BY <2>1, <3>2 DEF PollNotified, db, loop, IndInv, TypeOK
  <2>2. CASE PollTick
    BY <2>2 DEF PollTick, db, loop, IndInv, TypeOK
  <2>3. CASE PollReadFails
    BY <2>3 DEF PollReadFails, db, loop, IndInv, TypeOK
  <2>4. CASE StartTtl
    BY <2>4 DEF StartTtl, db, loop, IndInv, TypeOK
  <2> QED
    BY <2>1, <2>2, <2>3, <2>4
<1>2. TypeOK'
  BY <1>1 DEF IndInv, TypeOK
<1>3. Round'
  BY <1>1 DEF IndInv, Round, InRound
<1>4. EveryRevisionAccounted' /\ SentAreRows'
  BY <1>1 DEF IndInv, EveryRevisionAccounted, SentAreRows
<1> QED
  BY <1>1, <1>2, <1>3, <1>4, PollAlone

\* The read: the events of a round are rows after last.
LEMMA ReadKeeps ==
    ASSUME IndInv, PollRead
    PROVE  IndInv'
<1> DEFINE later == {i \in Ids : i > last /\ rows[i] # "none"}
           first == {i \in later : Cardinality({j \in later : j < i}) < BatchSize}
<1>1. /\ pollPc = "read"
      /\ UNCHANGED <<maxid, rows, reserved, answered, notify, last, skip, expired, fate, input, watch>>
  BY DEF PollRead, db
<1>2. TypeOK /\ Round /\ EveryRevisionAccounted /\ SentAreRows
  BY DEF IndInv
<1>3. CASE first = {}
  <2>1. pollPc' = "wait" /\ waitForMore' = TRUE /\ UNCHANGED <<batch, rev, sequential, saveLast>>
    BY <1>3 DEF PollRead, loop
  <2>2. TypeOK'
    BY <1>1, <1>2, <2>1 DEF TypeOK
  <2>3. Round' /\ EveryRevisionAccounted' /\ SentAreRows'
    BY <1>1, <1>2, <2>1 DEF Round, InRound, EveryRevisionAccounted, SentAreRows
  <2> QED
    BY <1>1, <2>2, <2>3, PollAlone
<1>4. CASE first # {}
  <2>1. /\ pollPc' = "scan"
        /\ batch' = {[id |-> i, gap |-> rows[i] = "gap"] : i \in first}
        /\ waitForMore' = (Cardinality(first) < MoreAt)
        /\ rev' = last /\ sequential' = {} /\ saveLast' = FALSE
    BY <1>4 DEF PollRead
  <2>2. first \subseteq later /\ later \subseteq Ids
    OBVIOUS
  <2>3. waitForMore' \in BOOLEAN
    BY <2>1
  <2> HIDE DEF first
  <2>4. \A e \in batch' : /\ e.id \in Ids /\ e.id > last /\ rows[e.id] # "none"
                          /\ e.gap = (rows[e.id] = "gap") /\ e = [id |-> e.id, gap |-> e.gap]
    BY <2>1, <2>2
  <2>5. batch' \in SUBSET Events
    <3> SUFFICES ASSUME NEW i \in first PROVE [id |-> i, gap |-> rows[i] = "gap"] \in Events
      BY <2>1
    <3>1. i \in Ids /\ (rows[i] = "gap") \in BOOLEAN
      BY <2>2
    <3> QED
      BY <3>1 DEF Events
  <2>6. last \in 1..MaxId /\ last \in Nat /\ last \in Revisions
    BY <1>2, Numbers DEF TypeOK, Revisions
  <2>7. TypeOK'
    BY <1>1, <1>2, <2>1, <2>3, <2>5, <2>6 DEF TypeOK
  <2>8. Round'
    <3>1. \A e, f \in batch' : e.id = f.id => e = f
      BY <2>4
    <3>2. \A i \in Ids : ~ (last < i /\ i <= last)
      BY <2>6, Numbers
    <3>3. last <= last /\ last <= MaxId
      BY <2>6, Numbers
    <3> QED
      BY <1>1, <2>1, <2>4, <3>1, <3>2, <3>3 DEF Round, InRound
  <2>9. EveryRevisionAccounted'
    BY <1>1, <1>2 DEF EveryRevisionAccounted
  <2>10. SentAreRows'
    <3>1. \A e \in batch' : ~ e.gap => rows[e.id] = "row"
      BY <1>2, <2>4 DEF TypeOK
    <3> QED
      BY <1>1, <1>2, <2>1, <3>1 DEF SentAreRows
  <2> QED
    BY <1>1, <2>7, <2>8, <2>9, <2>10, PollAlone
<1> QED
  BY <1>3, <1>4

\* An event is taken: what was missing before it is skipped, and it is the new
\* rev.
LEMMA EventKeeps ==
    ASSUME IndInv, NEW e \in batch, PollEvent(e)
    PROVE  IndInv'
<1>1. /\ pollPc = "scan"
      /\ \A f \in batch : e.id <= f.id
      /\ batch' = batch \ {e} /\ rev' = e.id /\ saveLast' = TRUE
      /\ sequential' = IF e.gap THEN sequential ELSE sequential \cup {e.id}
      /\ fate' = [i \in Ids |-> IF canSkipRevision /\ i \in next..(e.id - 1) THEN "skipped"
                                ELSE IF i = e.id /\ e.gap THEN "filled"
                                ELSE fate[i]]
      /\ e.id = next \/ canSkipRevision
      /\ UNCHANGED <<maxid, rows, reserved, answered, notify, pollPc, last, skip, expired,
                     waitForMore, input, watch>>
  BY DEF PollEvent, Take, db
<1>2. TypeOK /\ Round /\ EveryRevisionAccounted /\ SentAreRows
  BY DEF IndInv
<1>3. /\ e \in Events /\ e.id \in Ids /\ e.gap \in BOOLEAN
      /\ \A f \in batch : f.id \in Ids
      /\ last \in Nat /\ rev \in Nat /\ e.id \in Nat /\ e.id <= MaxId /\ e.id >= 2
  BY <1>2, Numbers DEF TypeOK, Events, Revisions
<1>4. /\ last <= rev /\ rev < e.id
      /\ \A f \in batch : f.id > rev
      /\ \A f, g \in batch : f.id = g.id => f = g
      /\ \A i \in sequential : last < i /\ i <= rev
      /\ \A i \in Ids : last < i /\ i <= rev => i \in sequential \/ fate[i] # "none"
  BY <1>1, <1>2, <1>3 DEF Round, InRound
<1>5. \A i \in Ids : fate'[i] = IF canSkipRevision /\ rev < i /\ i < e.id THEN "skipped"
                                ELSE IF i = e.id /\ e.gap THEN "filled"
                                ELSE fate[i]
  BY <1>1, <1>3, Numbers DEF next
<1>6. TypeOK'
  <2>1. fate' \in [Ids -> {"none", "sent", "filled", "skipped"}]
    BY <1>1, <1>2 DEF TypeOK
  <2>2. sequential' \in SUBSET Ids /\ batch' \in SUBSET Events
    BY <1>1, <1>2, <1>3 DEF TypeOK
  <2>3. rev' \in Revisions
    BY <1>1, <1>3, Numbers DEF Revisions
  <2> QED
    BY <1>1, <1>2, <2>1, <2>2, <2>3 DEF TypeOK
<1>7. \A i \in Ids : i <= last => fate'[i] = fate[i]
  BY <1>3, <1>4, <1>5, Numbers
<1>8. EveryRevisionAccounted'
  BY <1>1, <1>2, <1>7 DEF EveryRevisionAccounted
<1>9. Round'
  <2>1. \A f \in batch' : f.id > e.id
    <3>1. ASSUME NEW f \in batch' PROVE f.id > e.id
      <4>1. f \in batch /\ f # e /\ e.id <= f.id /\ f.id # e.id /\ f.id \in Nat
        BY <1>1, <1>3, <1>4, Numbers
      <4> QED
        BY <1>3, <4>1
    <3> QED
      BY <3>1
  <2>2. \A i \in sequential' : last < i /\ i <= e.id
    <3> TAKE i \in sequential'
    <3>1. CASE i = e.id
      BY <1>3, <1>4, <3>1
    <3>2. CASE i \in sequential
      <4>1. i \in Nat /\ last < i /\ i <= rev
        BY <1>2, <1>4, <3>2, Numbers DEF TypeOK
      <4> QED
        BY <1>3, <1>4, <4>1
    <3> QED
      BY <1>1, <3>1, <3>2
  <2>3. ASSUME NEW i \in Ids, last < i, i <= e.id PROVE i \in sequential' \/ fate'[i] # "none"
    <3>1. i \in Nat
      BY Numbers
    <3>2. CASE i = e.id
      BY <1>1, <1>3, <1>5, <3>2
    <3>3. CASE i # e.id /\ rev < i
      <4>1. i < e.id
        BY <1>3, <2>3, <3>1, <3>3
      <4>2. canSkipRevision
        <5>1. e.id # rev + 1
          BY <1>3, <3>1, <3>3, <4>1
        <5> QED
          BY <1>1, <5>1 DEF next
      <4>3. fate'[i] = "skipped"
        BY <1>5, <3>3, <4>1, <4>2
      <4> QED
        BY <4>3
    <3>4. CASE i # e.id /\ i <= rev
      <4>1. fate'[i] = fate[i]
        BY <1>3, <1>5, <3>1, <3>4
      <4>2. i \in sequential \/ fate[i] # "none"
        BY <1>4, <2>3, <3>4
      <4> QED
        BY <1>1, <4>1, <4>2
    <3> QED
      BY <1>3, <3>1, <3>2, <3>3, <3>4
  <2>4. last <= e.id /\ e.id <= MaxId
    BY <1>3, <1>4
  <2>5. \A f, g \in batch' : f.id = g.id => f = g
    BY <1>1, <1>4
  <2> QED
    BY <1>1, <2>1, <2>2, <2>3, <2>4, <2>5 DEF Round, InRound
<1>10. \A i \in Ids : fate'[i] = "sent" <=> fate[i] = "sent"
  <2> SUFFICES ASSUME NEW i \in Ids PROVE fate'[i] = "sent" <=> fate[i] = "sent"
    OBVIOUS
  <2>1. fate[i] = "sent" => i <= last
    BY <1>2 DEF SentAreRows
  <2> QED
    BY <1>5, <1>7, <2>1
<1>11. SentAreRows'
  <2>1. \A i \in sequential' : rows[i] = "row"
    BY <1>1, <1>2, <1>3 DEF SentAreRows
  <2>2. \A f \in batch' : ~ f.gap => rows[f.id] = "row"
    BY <1>1, <1>2 DEF SentAreRows
  <2>3. \A i \in input : i \in Ids
    BY <1>2 DEF TypeOK
  <2> QED
    BY <1>1, <1>2, <1>10, <2>1, <2>2, <2>3 DEF SentAreRows
<1> QED
  BY <1>1, <1>6, <1>8, <1>9, <1>10, <1>11, PollAlone

\* A gap: it is remembered or filled, and the loop is left.
LEMMA GapKeeps ==
    ASSUME IndInv, NEW e \in batch, PollGap(e)
    PROVE  IndInv'
<1>1. /\ pollPc = "scan" /\ batch' = {} /\ pollPc' \in {"send", "fill"}
      /\ \/ skip' = next /\ expired' = FALSE /\ Notify(next)
         \/ UNCHANGED <<skip, expired, notify>>
      /\ UNCHANGED <<maxid, rows, reserved, answered, last, rev, sequential, saveLast,
                     waitForMore, fate, input, watch>>
  BY DEF PollGap, db
<1>2. TypeOK /\ Round /\ EveryRevisionAccounted /\ SentAreRows
  BY DEF IndInv
<1>3. next \in Revisions
  <2>1. rev \in Nat /\ rev <= MaxId
    BY <1>1, <1>2, Numbers DEF TypeOK, Round, InRound, Revisions
  <2> QED
    BY <2>1, Numbers DEF next, Revisions
<1>4. notify' \in Seq(Revisions) /\ Len(notify') <= NotifyCap
  <2>1. CASE Notify(next)
    BY <1>2, <1>3, <2>1, NotifyType
  <2>2. CASE notify' = notify
    BY <1>2, <2>2 DEF TypeOK
  <2> QED
    BY <1>1, <2>1, <2>2
<1>5. skip' \in Revisions /\ expired' \in BOOLEAN
  BY <1>1, <1>2, <1>3 DEF TypeOK
<1>6. TypeOK'
  BY <1>1, <1>2, <1>4, <1>5 DEF TypeOK
<1>7. Round'
  BY <1>1, <1>2 DEF Round, InRound
<1>8. EveryRevisionAccounted' /\ SentAreRows'
  BY <1>1, <1>2 DEF EveryRevisionAccounted, SentAreRows
<1> QED
  BY <1>1, <1>6, <1>7, <1>8, PollAlone

\* Fill: an id after rev, so nothing that was sent or will be.
LEMMA FillKeeps ==
    ASSUME IndInv, PollFill \/ PollFillFails
    PROVE  IndInv'
<1>1. /\ pollPc = "fill" /\ pollPc' = "send"
      /\ \/ rows' = [rows EXCEPT ![next] = "gap"] /\ Notify(next)
         \/ UNCHANGED <<rows, notify>>
      /\ UNCHANGED <<maxid, reserved, answered, last, skip, expired, batch, rev, sequential, saveLast,
                     waitForMore, fate, input, watch>>
  BY DEF PollFill, PollFillFails, loop, db
<1>2. TypeOK /\ Round /\ EveryRevisionAccounted /\ SentAreRows
  BY DEF IndInv
<1>3. rev \in Nat /\ rev <= MaxId /\ last \in Nat /\ last <= rev /\ next = rev + 1 /\ batch = {}
  BY <1>1, <1>2, Numbers DEF TypeOK, Round, InRound, Revisions, next
<1>4. next \in Revisions
  BY <1>3, Numbers DEF Revisions
<1>5. notify' \in Seq(Revisions) /\ Len(notify') <= NotifyCap
  <2>1. CASE Notify(next)
    BY <1>2, <1>4, <2>1, NotifyType
  <2>2. CASE notify' = notify
    BY <1>2, <2>2 DEF TypeOK
  <2> QED
    BY <1>1, <2>1, <2>2
<1>6. rows' \in [Ids -> {"none", "row", "gap"}]
  BY <1>1, <1>2 DEF TypeOK
<1>7. TypeOK'
  BY <1>1, <1>2, <1>5, <1>6 DEF TypeOK
<1>8. Round'
  BY <1>1, <1>2 DEF Round, InRound
<1>9. EveryRevisionAccounted'
  BY <1>1, <1>2 DEF EveryRevisionAccounted
<1>10. /\ \A i \in Ids : i <= rev => rows'[i] = rows[i]
       /\ \A i \in Ids : rows'[i] = "row" => rows[i] = "row"
  <2>1. \A i \in Ids : i <= rev => i # next
    BY <1>3, Numbers
  <2> QED
    BY <1>1, <1>2, <2>1 DEF TypeOK
<1>11. SentAreRows'
  <2>1. \A i \in sequential : i \in Ids /\ i <= rev
    BY <1>1, <1>2 DEF Round, InRound, TypeOK
  <2>2. \A i \in Ids : i <= last => i <= rev
    BY <1>3, Numbers
  <2> QED
    BY <1>1, <1>2, <1>3, <1>10, <2>1, <2>2 DEF SentAreRows
<1> QED
  BY <1>1, <1>7, <1>8, <1>9, <1>10, <1>11, PollAlone

\* The end of a round: last moves to rev, and the events go to the broadcaster,
\* which holds none; they come after everything sent before.
LEMMA SendKeeps ==
    ASSUME IndInv, PollSend
    PROVE  IndInv'
<1>1. /\ pollPc = "send" \/ (pollPc = "scan" /\ batch = {})
      /\ IF saveLast /\ sequential # {} THEN input = {} /\ input' = sequential ELSE input' = input
      /\ last' = IF saveLast THEN rev ELSE last
      /\ fate' = [i \in Ids |-> IF saveLast /\ i \in sequential THEN "sent" ELSE fate[i]]
      /\ pollPc' \in {"wait", "read"}
      /\ batch' = {} /\ rev' = 0 /\ sequential' = {} /\ saveLast' = FALSE
      /\ UNCHANGED <<maxid, rows, reserved, answered, notify, skip, expired, waitForMore, watch>>
  BY DEF PollSend, SaveLast, OutOfScope, db
<1>2. TypeOK /\ Round /\ EveryRevisionAccounted /\ SentAreRows /\ WatchesRight
  BY DEF IndInv
<1>3. /\ last <= rev /\ rev <= MaxId /\ (saveLast \/ rev = last)
      /\ \A i \in sequential : last < i /\ i <= rev
      /\ \A i \in Ids : last < i /\ i <= rev => i \in sequential \/ fate[i] # "none"
  BY <1>1, <1>2 DEF Round, InRound
<1>4. last \in Nat /\ last >= 1 /\ rev \in Nat /\ sequential \subseteq Ids /\ input \subseteq Ids
  BY <1>2, Numbers DEF TypeOK, Revisions
<1>5. last' = rev
  BY <1>1, <1>3
<1>6. \A i \in Ids : fate'[i] = IF saveLast /\ i \in sequential THEN "sent" ELSE fate[i]
  BY <1>1
<1>7. ~ saveLast => sequential = {}
  <2> SUFFICES ASSUME ~ saveLast, NEW i \in sequential PROVE FALSE
    OBVIOUS
  <2>1. last < i /\ i <= last /\ i \in Nat
    BY <1>3, <1>4, Numbers
  <2> QED
    BY <1>4, <2>1
<1>8. input' \subseteq Ids /\ (input' = sequential \/ (input' = input /\ sequential = {}))
  BY <1>1, <1>4, <1>7
<1>9. TypeOK'
  <2>1. fate' \in [Ids -> {"none", "sent", "filled", "skipped"}]
    BY <1>1, <1>2 DEF TypeOK
  <2>2. last' \in PollStart..MaxId /\ rev' \in Revisions
    BY <1>1, <1>3, <1>4, <1>5, Numbers DEF Revisions
  <2> QED
    BY <1>1, <1>2, <1>8, <2>1, <2>2 DEF TypeOK
<1>10. Round'
  BY <1>1, <1>2 DEF Round, InRound
<1>11. EveryRevisionAccounted'
  <2> SUFFICES ASSUME NEW i \in Ids, i <= rev PROVE fate'[i] # "none"
    BY <1>5 DEF EveryRevisionAccounted
  <2>1. CASE i <= last
    BY <1>2, <1>6, <2>1 DEF EveryRevisionAccounted
  <2>2. CASE ~ (i <= last)
    <3>1. last < i
      BY <1>4, <2>2, Numbers
    <3>2. i \in sequential \/ fate[i] # "none"
      BY <1>3, <3>1
    <3> QED
      BY <1>6, <1>7, <3>2
  <2> QED
    BY <2>1, <2>2
<1>12. SentAreRows'
  <2>1. ASSUME NEW i \in Ids, fate'[i] = "sent" PROVE rows[i] = "row" /\ i <= rev
    <3>1. CASE i \in sequential
      BY <1>2, <1>3, <3>1 DEF SentAreRows
    <3>2. CASE i \notin sequential
      <4>1. rows[i] = "row" /\ i <= last
        BY <1>2, <1>6, <2>1, <3>2 DEF SentAreRows
      <4> QED
        BY <1>3, <1>4, <4>1, Numbers
    <3> QED
      BY <3>1, <3>2
  <2>2. \A i \in input' : fate'[i] = "sent"
    BY <1>2, <1>4, <1>6, <1>7, <1>8 DEF SentAreRows
  <2> QED
    BY <1>1, <1>5, <2>1, <2>2 DEF SentAreRows
<1>13. WatchesRight'
  <2> SUFFICES ASSUME NEW w \in Watchers
               PROVE  Ordered(watch[w], fate, input)' /\ Joined(watch[w])' /\ Missed(watch[w])'
    BY DEF WatchesRight
  <2> DEFINE r == watch[w]
  <2>1. Ordered(r, fate, input) /\ Joined(r) /\ Missed(r)
    BY <1>2 DEF WatchesRight
  <2>2. /\ r \in Watches /\ r.queue \in Seq(SUBSET Ids) /\ r.streamed \in Seq(Ids)
    BY <1>2 DEF TypeOK, Watches
  <2>3. /\ \A k \in 1..Len(r.queue) : r.queue[k] \in SUBSET Ids
        /\ \A k \in 1..Len(r.streamed) : r.streamed[k] \in Ids
    BY <2>2
  <2>4. \A x \in Ids : fate[x] = "sent" => fate'[x] = "sent" /\ \A y \in sequential : x < y
    <3> SUFFICES ASSUME NEW x \in Ids, fate[x] = "sent", NEW y \in sequential
                 PROVE  x < y
      BY <1>6
    <3>1. x \in Nat /\ y \in Nat /\ x <= last /\ last < y
      BY <1>2, <1>3, <1>4, Numbers DEF SentAreRows
    <3> QED
      BY <1>4, <3>1
  <2>5. Ordered(r, fate, input)'
    <3>1. ASSUME NEW k \in 1..Len(r.queue), NEW x \in r.queue[k]
          PROVE  fate'[x] = "sent" /\ \A y \in input' : x < y
      BY <1>8, <2>1, <2>3, <2>4 DEF Ordered
    <3>2. ASSUME NEW k \in 1..Len(r.streamed)
          PROVE  fate'[r.streamed[k]] = "sent" /\ \A y \in input' : r.streamed[k] < y
      BY <1>8, <2>1, <2>3, <2>4 DEF Ordered
    <3> QED
      BY <1>1, <2>1, <3>1, <3>2 DEF Ordered
  <2>6. Joined(r)'
    BY <1>1, <2>1 DEF Joined, Arrives
  <2>7. Missed(r)'
    <3> SUFFICES ASSUME r.status = "stream", r.subscribed, ~ r.ending,
                        NEW i \in Ids, fate'[i] = "sent", i > r.from
                 PROVE  Tells(r, input, i)' \/ i \in r.inflight
      BY <1>1 DEF Missed
    <3>1. CASE i \in sequential
      <4>1. i \in input'
        BY <1>8, <3>1
      <4> QED
        BY <4>1 DEF Tells
    <3>2. CASE i \notin sequential
      <4>1. Tells(r, input, i) \/ i \in r.inflight
        BY <1>6, <2>1, <3>2 DEF Missed
      <4>2. i \in input => i \in input'
        BY <1>1, <1>8
      <4>3. r' = r
        BY <1>1
      <4> HIDE DEF r
      <4>4. Tells(r, input, i) => Tells(r, input', i)
        BY <4>2 DEF Tells
      <4> QED
        BY <4>1, <4>3, <4>4
    <3> QED
      BY <3>1, <3>2
  <2> QED
    BY <1>1, <2>5, <2>6, <2>7
<1> QED
  BY <1>9, <1>10, <1>11, <1>12, <1>13 DEF IndInv

-----------------------------------------------------------------------------
(* The broadcaster and the watches.                                         *)

\* The watch r becomes o when it is offered the item.
Offered(r, o, item) ==
    /\ o.status = r.status /\ o.subscribed = r.subscribed /\ o.from = r.from
    /\ o.max = r.max /\ o.lastRevision = r.lastRevision /\ o.listed = r.listed
    /\ o.inflight = r.inflight /\ o.streamed = r.streamed
    /\ \/ o.queue = Append(r.queue, item) /\ o.ending = r.ending
       \/ o.queue = r.queue /\ o.ending = TRUE

\* The item is offered to a subscriber: it is at the end of its channel, or the
\* subscriber is on its way out.
LEMMA OfferIs ==
    ASSUME TypeOK, NEW w \in Watchers, NEW item \in SUBSET Ids
    PROVE  Offer(w, item) \in Watches /\ Offered(watch[w], Offer(w, item), item)
<1> DEFINE r == watch[w]
<1>1. r \in Watches /\ r.queue \in Seq(SUBSET Ids)
  BY DEF TypeOK, Watches
<1>2. Append(r.queue, item) \in Seq(SUBSET Ids)
  BY <1>1
<1>3. CASE Len(r.queue) < SubCap
  <2>1. Offer(w, item) = [r EXCEPT !.queue = Append(r.queue, item)]
    BY <1>3 DEF Offer
  <2> HIDE DEF r
  <2> QED
    BY <1>1, <1>2, <2>1 DEF Watches, Offered, r
<1>4. CASE ~ (Len(r.queue) < SubCap)
  <2>1. Offer(w, item) = [r EXCEPT !.ending = TRUE]
    BY <1>4 DEF Offer
  <2> QED
    BY <1>1, <2>1 DEF Watches, Offered
<1> QED
  BY <1>3, <1>4

\* The channel gets what the broadcaster held.
LEMMA AppendOrdered ==
    ASSUME NEW r, NEW o, NEW f, NEW held \in SUBSET Ids, Ordered(r, f, held),
           r.queue \in Seq(SUBSET Ids), o.streamed = r.streamed,
           o.queue = Append(r.queue, held), \A x \in held : f[x] = "sent"
    PROVE  Ordered(o, f, {})
<1> DEFINE q == r.queue
           p == o.queue
           s == r.streamed
<1>1. /\ Len(p) = Len(q) + 1 /\ Len(q) \in Nat
      /\ \A k \in 1..Len(q) : p[k] = q[k]
      /\ p[Len(q) + 1] = held
  OBVIOUS
<1>2. /\ \A k \in 1..Len(q) : \A x \in q[k] : f[x] = "sent" /\ \A y \in held : x < y
      /\ \A k, l \in 1..Len(q) : k < l => \A x \in q[k], y \in q[l] : x < y
      /\ \A k \in 1..Len(s) : /\ f[s[k]] = "sent"
                              /\ \A y \in held : s[k] < y
                              /\ \A l \in 1..Len(q) : \A y \in q[l] : s[k] < y
      /\ \A k, l \in 1..Len(s) : k < l => s[k] < s[l]
  BY DEF Ordered
<1>3. \A k \in 1..Len(p) : k \in 1..Len(q) \/ k = Len(q) + 1
  BY <1>1
<1> HIDE DEF p, q, s
<1>4. \A k \in 1..Len(p) : \A x \in p[k] : f[x] = "sent"
  BY <1>1, <1>2, <1>3
<1>5. ASSUME NEW k \in 1..Len(p), NEW l \in 1..Len(p), k < l, NEW x \in p[k], NEW y \in p[l]
      PROVE  x < y
  <2>1. k \in 1..Len(q) /\ p[k] = q[k]
    BY <1>1, <1>5
  <2>2. CASE l = Len(q) + 1
    BY <1>1, <1>2, <2>1, <2>2
  <2>3. CASE l \in 1..Len(q)
    <3>1. p[l] = q[l]
      BY <1>1, <2>3
    <3> QED
      BY <1>2, <1>5, <2>1, <2>3, <3>1
  <2> QED
    BY <1>3, <2>2, <2>3
<1>6. ASSUME NEW k \in 1..Len(s), NEW l \in 1..Len(p), NEW y \in p[l]
      PROVE  s[k] < y
  BY <1>1, <1>2, <1>3
<1>7. o.streamed = s /\ o.queue = p
  BY DEF s, p
<1> QED
  BY <1>2, <1>4, <1>5, <1>6, <1>7 DEF Ordered

\* It is told of the same as before.
LEMMA AppendTold ==
    ASSUME NEW r, NEW o, NEW held \in SUBSET Ids, r.queue \in Seq(SUBSET Ids),
           o.listed = r.listed, o.streamed = r.streamed, o.queue = Append(r.queue, held),
           NEW i, Tells(r, held, i)
    PROVE  Tells(o, {}, i)
<1> DEFINE q == r.queue
           p == o.queue
<1>1. /\ Len(p) = Len(q) + 1 /\ Len(q) \in Nat
      /\ \A k \in 1..Len(q) : p[k] = q[k]
      /\ p[Len(q) + 1] = held
  OBVIOUS
<1>2. \/ i \in r.listed \/ \E k \in 1..Len(r.streamed) : i = r.streamed[k]
      \/ \E k \in 1..Len(q) : i \in q[k]
      \/ i \in held
  BY DEF Tells
<1> HIDE DEF p, q
<1>3. (\E k \in 1..Len(q) : i \in q[k]) \/ i \in held => \E k \in 1..Len(p) : i \in p[k]
  <2>1. Len(q) + 1 \in 1..Len(p) /\ \A k \in 1..Len(q) : k \in 1..Len(p)
    BY <1>1
  <2> QED
    BY <1>1, <2>1
<1>4. \/ i \in o.listed \/ \E k \in 1..Len(o.streamed) : i = o.streamed[k]
      \/ \E k \in 1..Len(p) : i \in p[k]
  BY <1>2, <1>3
<1> QED
  BY <1>4 DEF Tells, p

\* stream hands the item to all subscribers.
LEMMA StreamKeeps ==
    ASSUME IndInv, Stream
    PROVE  IndInv'
<1>1. /\ input' = {}
      /\ watch' = [w \in Watchers |-> IF watch[w].subscribed THEN Offer(w, input) ELSE watch[w]]
      /\ UNCHANGED <<maxid, rows, reserved, answered, notify, pollPc, last, skip, expired, batch, rev,
                     sequential, saveLast, waitForMore, fate>>
  BY DEF Stream, db, poll, loop
<1>2. TypeOK /\ Round /\ EveryRevisionAccounted /\ SentAreRows /\ WatchesRight
  BY DEF IndInv
<1>3. input \in SUBSET Ids /\ \A x \in input : fate[x] = "sent"
  BY <1>2 DEF TypeOK, SentAreRows
<1>4. TypeOK'
  <2>1. \A w \in Watchers : watch'[w] \in Watches
    <3> TAKE w \in Watchers
    <3>1. watch[w] \in Watches
      BY <1>2 DEF TypeOK
    <3>2. Offer(w, input) \in Watches
      BY <1>2, <1>3, OfferIs
    <3> QED
      BY <1>1, <3>1, <3>2
  <2>2. watch' \in [Watchers -> Watches]
    BY <1>1, <2>1
  <2> QED
    BY <1>1, <1>2, <2>2 DEF TypeOK
<1>5. Round' /\ EveryRevisionAccounted' /\ SentAreRows'
  BY <1>1, <1>2 DEF Round, InRound, EveryRevisionAccounted, SentAreRows
<1>6. WatchesRight'
  <2> SUFFICES ASSUME NEW w \in Watchers
               PROVE  (Ordered(watch[w], fate, input) /\ Joined(watch[w]) /\ Missed(watch[w]))'
    BY DEF WatchesRight
  <2>1. Ordered(watch[w], fate, input) /\ Joined(watch[w]) /\ Missed(watch[w])
    BY <1>2 DEF WatchesRight
  <2>2. watch[w] \in Watches /\ watch[w].queue \in Seq(SUBSET Ids)
    BY <1>2 DEF TypeOK, Watches
  <2>3. CASE ~ watch[w].subscribed
    <3>1. watch'[w] = watch[w]
      BY <1>1, <2>3
    <3>2. Ordered(watch[w], fate, input)'
      BY <1>1, <2>1, <3>1, SMTT(40) DEF Ordered
    <3>3. Joined(watch[w])'
      BY <1>1, <2>1, <3>1 DEF Joined, Arrives
    <3>4. Missed(watch[w])'
      BY <2>3, <3>1 DEF Missed
    <3> QED
      BY <3>2, <3>3, <3>4
  <2>4. ASSUME watch[w].subscribed, NEW r, r = watch[w], NEW o, o = watch'[w]
        PROVE  (Ordered(watch[w], fate, input) /\ Joined(watch[w]) /\ Missed(watch[w]))'
    <3>1. /\ o.status = r.status /\ o.subscribed = r.subscribed /\ o.from = r.from
          /\ o.max = r.max /\ o.lastRevision = r.lastRevision /\ o.listed = r.listed
          /\ o.inflight = r.inflight /\ o.streamed = r.streamed
          /\ \/ o.queue = Append(r.queue, input) /\ o.ending = r.ending
             \/ o.queue = r.queue /\ o.ending = TRUE
      <4>1. o = Offer(w, input)
        BY <1>1, <2>4
      <4>2. Offered(r, o, input)
        BY <1>2, <1>3, <2>4, <4>1, OfferIs
      <4> QED
        BY <4>2 DEF Offered
    <3>2. Ordered(r, fate, input) /\ Joined(r) /\ Missed(r) /\ r.queue \in Seq(SUBSET Ids)
      BY <2>1, <2>2, <2>4
    <3>3. Joined(watch[w])'
      BY <1>1, <2>4, <3>1, <3>2 DEF Joined, Arrives
    <3>4. CASE o.queue = r.queue /\ o.ending = TRUE
      <4>1. Ordered(o, fate, {})
        BY <3>1, <3>2, <3>4 DEF Ordered
      <4>2. Missed(watch[w])'
        BY <2>4, <3>4 DEF Missed
      <4> QED
        BY <1>1, <2>4, <3>3, <4>1, <4>2
    <3>5. CASE o.queue = Append(r.queue, input) /\ o.ending = r.ending
      <4>1. Ordered(o, fate, {})
        BY <1>3, <3>1, <3>2, <3>5, AppendOrdered
      <4>2. ASSUME o.status = "stream", o.subscribed, ~ o.ending,
                   NEW i \in Ids, fate[i] = "sent", i > o.from
            PROVE  Tells(o, {}, i) \/ i \in o.inflight
        <5>1. Tells(r, input, i) \/ i \in r.inflight
          BY <3>1, <3>2, <3>5, <4>2 DEF Missed
        <5> QED
          BY <1>3, <3>1, <3>2, <3>5, <5>1, AppendTold
      <4>3. Missed(watch[w])'
        BY <1>1, <2>4, <4>2 DEF Missed
      <4> QED
        BY <1>1, <2>4, <3>3, <4>1, <4>3
    <3> QED
      BY <3>1, <3>4, <3>5
  <2> QED
    BY <2>3, <2>4
<1> QED
  BY <1>4, <1>5, <1>6 DEF IndInv

\* A step of one watch, which leaves the others, the database and poll alone
\* (but may start poll).
LEMMA OneWatch ==
    ASSUME IndInv, NEW w \in Watchers, NEW o \in Watches, o = watch'[w],
           UNCHANGED <<maxid, rows, reserved, answered, notify, last, skip, expired, batch, rev,
                       sequential, saveLast, waitForMore, fate, input>>,
           pollPc' = pollPc \/ (pollPc = "off" /\ pollPc' = "wait"),
           watch' = [watch EXCEPT ![w] = o],
           Ordered(o, fate, input), Joined(o), Missed(o)
    PROVE  IndInv'
<1>1. TypeOK /\ Round /\ EveryRevisionAccounted /\ SentAreRows /\ WatchesRight
  BY DEF IndInv
<1>2. watch' \in [Watchers -> Watches]
  BY <1>1 DEF TypeOK
<1>3. TypeOK'
  BY <1>1, <1>2 DEF TypeOK
<1>4. Round' /\ EveryRevisionAccounted' /\ SentAreRows'
  BY <1>1 DEF Round, InRound, EveryRevisionAccounted, SentAreRows
<1>5. WatchesRight'
  <2> SUFFICES ASSUME NEW v \in Watchers
               PROVE  (Ordered(watch[v], fate, input) /\ Joined(watch[v]) /\ Missed(watch[v]))'
    BY DEF WatchesRight
  <2>1. ASSUME NEW r, r = watch'[v], Ordered(r, fate, input), Joined(r), Missed(r)
        PROVE  (Ordered(watch[v], fate, input) /\ Joined(watch[v]) /\ Missed(watch[v]))'
    BY <2>1 DEF Joined, Missed, Arrives
  <2>2. CASE v = w
    BY <2>1, <2>2
  <2>3. CASE v # w
    <3>1. watch'[v] = watch[v]
      BY <1>1, <2>3 DEF TypeOK
    <3> QED
      BY <1>1, <2>1, <3>1 DEF WatchesRight
  <2> QED
    BY <2>2, <2>3
<1> QED
  BY <1>3, <1>4, <1>5 DEF IndInv

\* The parts of a watch and what is known of it.
LEMMA WatchIs ==
    ASSUME IndInv, NEW w \in Watchers
    PROVE  /\ watch[w] \in Watches
           /\ Ordered(watch[w], fate, input) /\ Joined(watch[w]) /\ Missed(watch[w])
           /\ watch \in [Watchers -> Watches]
           /\ maxid \in Nat /\ maxid \in Revisions
<1>1. watch \in [Watchers -> Watches] /\ maxid \in Nat /\ maxid \in Revisions
  BY Numbers DEF IndInv, TypeOK, Revisions
<1> QED
  BY <1>1 DEF IndInv, WatchesRight

\* unsub: a watch that is not subscribed is owed nothing.
LEMMA UnsubKeeps ==
    ASSUME IndInv, NEW w \in Watchers, Unsub(w)
    PROVE  IndInv'
<1> DEFINE r == watch[w]
           o == [r EXCEPT !.subscribed = FALSE]
<1>1. /\ r \in Watches /\ Ordered(r, fate, input) /\ Joined(r) /\ watch \in [Watchers -> Watches]
  BY WatchIs
<1>2. o \in Watches /\ watch' = [watch EXCEPT ![w] = o] /\ o = watch'[w]
  BY <1>1 DEF Unsub, Watches
<1>3. /\ o.queue = r.queue /\ o.streamed = r.streamed /\ o.subscribed = FALSE
      /\ o.from = r.from /\ o.max = r.max /\ o.lastRevision = r.lastRevision
      /\ o.status = r.status /\ o.ending = r.ending
      /\ o.listed = r.listed /\ o.inflight = r.inflight
  BY <1>1 DEF Watches
<1> HIDE DEF o
<1>4. Ordered(o, fate, input) /\ Joined(o) /\ Missed(o)
  BY <1>1, <1>3 DEF Ordered, Joined, Missed
<1>5. UNCHANGED <<maxid, rows, reserved, answered, notify, pollPc, last, skip, expired, batch, rev,
                  sequential, saveLast, waitForMore, fate, input>>
  BY DEF Unsub, db, poll, loop
<1> QED
  BY <1>2, <1>4, <1>5, OneWatch

\* Watch subscribes, or fails to; the list is still to come.
LEMMA SubscribeKeeps ==
    ASSUME IndInv, NEW w \in Watchers, NEW revision \in PollStart..MaxId,
           Watch(w, revision) \/ WatchUnconnected(w, revision)
    PROVE  IndInv'
<1> DEFINE r == watch[w]
           a == [r EXCEPT !.status = "list", !.readChan = TRUE, !.subscribed = TRUE,
                          !.from = revision]
           b == [r EXCEPT !.status = "list", !.from = revision]
<1>1. /\ r \in Watches /\ Ordered(r, fate, input) /\ Joined(r) /\ watch \in [Watchers -> Watches]
  BY WatchIs
<1>2. revision \in Revisions /\ revision <= maxid
  BY Numbers DEF Watch, WatchUnconnected, Revisions
<1>3. PICK o \in {a, b} : watch' = [watch EXCEPT ![w] = o]
  <2>1. CASE Watch(w, revision)
    BY <1>1, <2>1 DEF Watch, Watches
  <2>2. CASE WatchUnconnected(w, revision)
    BY <1>1, <2>2 DEF WatchUnconnected, Watches
  <2> QED
    BY <2>1, <2>2
<1>4. o \in Watches
  <2>1. r \in Watches /\ revision \in Revisions
    BY <1>1, <1>2
  <2> HIDE DEF r
  <2>2. a \in Watches
    BY <2>1 DEF Watches
  <2>3. b \in Watches
    BY <2>1 DEF Watches
  <2> QED
    BY <2>2, <2>3
<1>5. o = watch'[w]
  BY <1>1, <1>3
<1>6. /\ o.queue = r.queue /\ o.streamed = r.streamed
      /\ o.from = revision /\ o.max = r.max /\ o.lastRevision = r.lastRevision
      /\ o.status = "list"
  BY <1>1 DEF Watches
<1> HIDE DEF a, b
<1>7. Ordered(o, fate, input) /\ Joined(o) /\ Missed(o)
  BY <1>1, <1>2, <1>6 DEF Ordered, Joined, Missed
<1>8. /\ UNCHANGED <<maxid, rows, reserved, answered, notify, last, skip, expired, batch, rev,
                     sequential, saveLast, waitForMore, fate, input>>
      /\ pollPc' = pollPc \/ (pollPc = "off" /\ pollPc' = "wait")
  BY DEF Watch, WatchUnconnected, db, poll, loop
<1> QED
  BY <1>3, <1>4, <1>5, <1>7, <1>8, OneWatch

\* The first half of the list.
LEMMA MaxIdKeeps ==
    ASSUME IndInv, NEW w \in Watchers, WatchMaxId(w)
    PROVE  IndInv'
<1> DEFINE r == watch[w]
           o == [r EXCEPT !.status = "read", !.max = maxid]
<1>1. /\ r \in Watches /\ Ordered(r, fate, input) /\ Joined(r) /\ watch \in [Watchers -> Watches]
      /\ maxid \in Nat /\ maxid \in Revisions
  BY WatchIs
<1>2. o \in Watches /\ watch' = [watch EXCEPT ![w] = o] /\ o = watch'[w]
  BY <1>1 DEF WatchMaxId, Watches
<1>3. /\ o.queue = r.queue /\ o.streamed = r.streamed
      /\ o.from = r.from /\ o.max = maxid /\ o.lastRevision = r.lastRevision
      /\ o.status = "read"
  BY <1>1 DEF Watches
<1> HIDE DEF o
<1>4. Ordered(o, fate, input) /\ Joined(o) /\ Missed(o)
  BY <1>1, <1>3 DEF Ordered, Joined, Missed
<1>5. UNCHANGED <<maxid, rows, reserved, answered, notify, pollPc, last, skip, expired, batch, rev,
                  sequential, saveLast, waitForMore, fate, input>>
  BY DEF WatchMaxId, db, poll, loop
<1> QED
  BY <1>2, <1>4, <1>5, OneWatch

\* The second half: all rows after from are listed, the others up to the MaxId
\* column that may still come are those in flight.
LEMMA RowsKeeps ==
    ASSUME IndInv, NEW w \in Watchers, WatchRows(w)
    PROVE  IndInv'
<1> DEFINE r == watch[w]
           kvs == {i \in Ids : i > r.from /\ rows[i] = "row"}
           low == IF kvs # {} THEN r.max ELSE r.from
           flight == reserved
           o == [r EXCEPT !.status = "stream", !.listed = kvs, !.lastRevision = low,
                          !.inflight = flight]
<1>1. /\ r \in Watches /\ Ordered(r, fate, input) /\ Joined(r) /\ watch \in [Watchers -> Watches]
      /\ maxid \in Nat /\ TypeOK /\ SentAreRows
  BY WatchIs DEF IndInv
<1>2. /\ kvs \in SUBSET Ids /\ low \in Revisions
      /\ low \in {r.max, r.from} /\ r.from \in Nat /\ r.max \in Nat
  BY <1>1, Numbers DEF Watches, Revisions
<1>3. flight \in SUBSET Ids
  BY <1>1 DEF TypeOK
<1>4. reserved \subseteq flight
  OBVIOUS
<1>5. \A i \in Ids : i > r.from /\ rows[i] = "row" => i \in kvs
  OBVIOUS
<1>6. watch' = [watch EXCEPT ![w] = o]
  BY <1>1 DEF WatchRows, Watches
<1> HIDE DEF kvs, low, flight
<1>7. o \in Watches
  BY <1>1, <1>2, <1>3 DEF Watches
<1>8. o = watch'[w]
  BY <1>1, <1>6
<1>9. /\ o.queue = r.queue /\ o.streamed = r.streamed
      /\ o.from = r.from /\ o.max = r.max /\ o.lastRevision = low
      /\ o.listed = kvs /\ o.inflight = flight
  BY <1>1 DEF Watches
<1> HIDE DEF o
<1>10. Ordered(o, fate, input)
  BY <1>1, <1>9 DEF Ordered
<1>11. Joined(o)
  <2>1. o.from <= maxid /\ o.max <= maxid /\ o.lastRevision <= maxid
    BY <1>1, <1>2, <1>9 DEF Joined
  <2>2. ASSUME NEW i \in Ids, o.from < i, Arrives(i) PROVE i \in o.listed \cup o.inflight
    <3>1. i > r.from
      BY <1>2, <1>9, <2>2, Numbers
    <3> QED
      BY <1>4, <1>5, <1>9, <2>2, <3>1 DEF Arrives
  <2> QED
    BY <2>1, <2>2 DEF Joined
<1>12. Missed(o)
  BY <1>1, <1>5, <1>9 DEF Missed, Tells, SentAreRows
<1>13. UNCHANGED <<maxid, rows, reserved, answered, notify, pollPc, last, skip, expired, batch, rev,
                   sequential, saveLast, waitForMore, fate, input>>
  BY DEF WatchRows, db, poll, loop
<1> QED
  BY <1>6, <1>7, <1>8, <1>10, <1>11, <1>12, <1>13, OneWatch

\* The list fails: the watch is on its way out.
LEMMA ListFailsKeeps ==
    ASSUME IndInv, NEW w \in Watchers, WatchListFails(w)
    PROVE  IndInv'
<1> DEFINE r == watch[w]
           o == [r EXCEPT !.status = "stream", !.ending = TRUE, !.lastRevision = r.from]
<1>1. /\ r \in Watches /\ Ordered(r, fate, input) /\ Joined(r) /\ watch \in [Watchers -> Watches]
  BY WatchIs
<1>2. o \in Watches /\ watch' = [watch EXCEPT ![w] = o] /\ o = watch'[w]
  BY <1>1 DEF WatchListFails, Watches
<1>3. /\ o.queue = r.queue /\ o.streamed = r.streamed
      /\ o.from = r.from /\ o.max = r.max /\ o.lastRevision = r.from
      /\ o.ending = TRUE
  BY <1>1 DEF Watches
<1> HIDE DEF o
<1>4. Ordered(o, fate, input) /\ Joined(o) /\ Missed(o)
  BY <1>1, <1>3 DEF Ordered, Joined, Missed
<1>5. UNCHANGED <<maxid, rows, reserved, answered, notify, pollPc, last, skip, expired, batch, rev,
                  sequential, saveLast, waitForMore, fate, input>>
  BY DEF WatchListFails, db, poll, loop
<1> QED
  BY <1>2, <1>4, <1>5, OneWatch

\* A watch that has been sent nothing, and has nothing in its channel, is in order.
LEMMA EmptyRight ==
    ASSUME IndInv, NEW o, o.queue = <<>>, o.streamed = <<>>, o.status # "stream",
           o.from = 0, o.max = 0, o.lastRevision = 0
    PROVE  Ordered(o, fate, input) /\ Joined(o) /\ Missed(o)
<1>1. Len(<<>>) = 0 /\ 1..0 = {} /\ maxid \in Nat
  BY Numbers DEF IndInv, TypeOK
<1> QED
  BY <1>1 DEF Ordered, Joined, Missed

\* The channel is closed.
LEMMA EndKeeps ==
    ASSUME IndInv, NEW w \in Watchers, WatchEnd(w)
    PROVE  IndInv'
<1> DEFINE o == Blank("closed")
<1>1. watch \in [Watchers -> Watches]
  BY WatchIs
<1>2. watch' = [watch EXCEPT ![w] = o] /\ o = watch'[w]
  BY <1>1 DEF WatchEnd
<1>2a. o \in Watches
  BY Numbers DEF Blank, Watches, Revisions
<1>3. /\ o.queue = <<>> /\ o.streamed = <<>> /\ o.from = 0 /\ o.max = 0 /\ o.lastRevision = 0
      /\ o.status = "closed"
  BY DEF Blank
<1> HIDE DEF o
<1>4. Ordered(o, fate, input) /\ Joined(o) /\ Missed(o)
  BY <1>3, EmptyRight
<1>5. UNCHANGED <<maxid, rows, reserved, answered, notify, pollPc, last, skip, expired, batch, rev,
                  sequential, saveLast, waitForMore, fate, input>>
  BY DEF WatchEnd, db, poll, loop
<1> QED
  BY <1>2, <1>2a, <1>4, <1>5, OneWatch

\* Events of the first item go behind what was sent on.
LEMMA NextOrdered ==
    ASSUME NEW r, NEW o, NEW f, NEW held, Ordered(r, f, held),
           r.queue \in Seq(SUBSET Ids), r.queue # <<>>, r.streamed \in Seq(Ids),
           NEW a \in Seq(Ids), \A k \in 1..Len(a) : a[k] \in Head(r.queue),
           \A k, l \in 1..Len(a) : k < l => a[k] < a[l],
           o.queue = Tail(r.queue), o.streamed = r.streamed \o a
    PROVE  Ordered(o, f, held)
<1> DEFINE q == r.queue
           p == o.queue
           s == r.streamed
           z == o.streamed
<1>1. /\ Len(q) \in Nat /\ Len(q) >= 1 /\ Len(p) = Len(q) - 1 /\ Head(q) = q[1]
      /\ \A k \in 1..Len(p) : p[k] = q[k + 1] /\ k + 1 \in 1..Len(q)
  OBVIOUS
<1>2. /\ Len(s) \in Nat /\ Len(a) \in Nat /\ Len(z) = Len(s) + Len(a)
      /\ \A k \in 1..Len(s) : z[k] = s[k]
      /\ \A k \in 1..Len(z) : k > Len(s) => z[k] = a[k - Len(s)] /\ k - Len(s) \in 1..Len(a)
  BY ConcatProperties
<1>3. /\ \A k \in 1..Len(q) : \A x \in q[k] : f[x] = "sent" /\ \A y \in held : x < y
      /\ \A k, l \in 1..Len(q) : k < l => \A x \in q[k], y \in q[l] : x < y
      /\ \A k \in 1..Len(s) : /\ f[s[k]] = "sent"
                              /\ \A y \in held : s[k] < y
                              /\ \A l \in 1..Len(q) : \A y \in q[l] : s[k] < y
      /\ \A k, l \in 1..Len(s) : k < l => s[k] < s[l]
  BY DEF Ordered
<1>4. \A k \in 1..Len(a) : a[k] \in q[1]
  BY <1>1
<1>4a. 1 \in 1..Len(q)
  BY <1>1
<1> HIDE DEF p, q, s, z
<1>5. \A k \in 1..Len(p) : \A x \in p[k] : f[x] = "sent" /\ \A y \in held : x < y
  BY <1>1, <1>3
<1>6. ASSUME NEW k \in 1..Len(p), NEW l \in 1..Len(p), k < l, NEW x \in p[k], NEW y \in p[l]
      PROVE  x < y
  <2>1. k + 1 \in 1..Len(q) /\ l + 1 \in 1..Len(q) /\ k + 1 < l + 1
    BY <1>1, <1>6
  <2>2. x \in q[k + 1] /\ y \in q[l + 1]
    BY <1>1, <1>6
  <2> QED
    BY <1>3, <2>1, <2>2
<1>7. ASSUME NEW k \in 1..Len(z)
      PROVE  \/ k \in 1..Len(s) /\ z[k] = s[k]
             \/ k > Len(s) /\ k - Len(s) \in 1..Len(a) /\ z[k] = a[k - Len(s)] /\ z[k] \in q[1]
  <2>1. CASE k > Len(s)
    BY <1>2, <1>4, <2>1
  <2>2. CASE ~ (k > Len(s))
    BY <1>2, <2>2
  <2> QED
    BY <2>1, <2>2
<1>8. ASSUME NEW k \in 1..Len(z)
      PROVE  /\ f[z[k]] = "sent" /\ \A y \in held : z[k] < y
             /\ \A l \in 1..Len(p) : \A y \in p[l] : z[k] < y
  <2>1. CASE k \in 1..Len(s) /\ z[k] = s[k]
    BY <1>1, <1>3, <2>1
  <2>2. CASE z[k] \in q[1]
    <3>1. f[z[k]] = "sent" /\ \A y \in held : z[k] < y
      BY <1>3, <1>4a, <2>2
    <3>2. ASSUME NEW l \in 1..Len(p), NEW y \in p[l] PROVE z[k] < y
      <4>1. l + 1 \in 1..Len(q) /\ 1 < l + 1 /\ y \in q[l + 1]
        BY <1>1, <3>2
      <4> QED
        BY <1>3, <1>4a, <2>2, <4>1
    <3> QED
      BY <3>1, <3>2
  <2> QED
    BY <1>7, <2>1, <2>2
<1>9. ASSUME NEW k \in 1..Len(z), NEW l \in 1..Len(z), k < l PROVE z[k] < z[l]
  <2>1. CASE k \in 1..Len(s) /\ z[k] = s[k]
    <3>1. CASE l \in 1..Len(s) /\ z[l] = s[l]
      BY <1>3, <1>9, <2>1, <3>1
    <3>2. CASE z[l] \in q[1]
      BY <1>3, <1>4a, <2>1, <3>2
    <3> QED
      BY <1>7, <3>1, <3>2
  <2>2. CASE k > Len(s) /\ k - Len(s) \in 1..Len(a) /\ z[k] = a[k - Len(s)]
    <3>1. l > Len(s) /\ l - Len(s) \in 1..Len(a) /\ z[l] = a[l - Len(s)]
      BY <1>2, <1>9, <2>2
    <3>2. k - Len(s) < l - Len(s)
      BY <1>2, <1>9
    <3> QED
      BY <2>2, <3>1, <3>2
  <2> QED
    BY <1>7, <2>1, <2>2
<1>10. o.queue = p /\ o.streamed = z
  BY DEF p, z
<1> QED
  BY <1>5, <1>6, <1>8, <1>9, <1>10 DEF Ordered

\* Nothing that was told is lost but what is not among the events.
LEMMA NextTells ==
    ASSUME NEW r, NEW o, NEW held, NEW i, Tells(r, held, i),
           r.queue \in Seq(SUBSET Ids), r.queue # <<>>, r.streamed \in Seq(Ids),
           NEW a \in Seq(Ids), o.listed = r.listed,
           o.queue = Tail(r.queue), o.streamed = r.streamed \o a,
           ~ Tells(o, held, i)
    PROVE  i \in Head(r.queue) /\ ~ \E k \in 1..Len(a) : a[k] = i
<1> DEFINE q == r.queue
           p == o.queue
           s == r.streamed
           z == o.streamed
<1>1. /\ Len(q) \in Nat /\ Len(q) >= 1 /\ Len(p) = Len(q) - 1 /\ Head(q) = q[1]
      /\ \A k \in 1..Len(p) : p[k] = q[k + 1] /\ k + 1 \in 1..Len(q)
  OBVIOUS
<1>2. /\ Len(s) \in Nat /\ Len(a) \in Nat /\ Len(z) = Len(s) + Len(a)
      /\ \A k \in 1..Len(s) : z[k] = s[k]
      /\ \A k \in 1..Len(a) : z[Len(s) + k] = a[k]
  BY ConcatProperties
<1>3. /\ ~ (i \in r.listed) /\ ~ (\E k \in 1..Len(z) : i = z[k])
      /\ ~ (\E k \in 1..Len(p) : i \in p[k]) /\ ~ (i \in held)
  BY DEF Tells
<1>4. \/ i \in r.listed
      \/ \E k \in 1..Len(s) : i = s[k]
      \/ \E k \in 1..Len(q) : i \in q[k]
      \/ i \in held
  BY DEF Tells
<1> HIDE DEF p, q, s, z
<1>5. ~ \E k \in 1..Len(s) : i = s[k]
  <2> SUFFICES ASSUME NEW k \in 1..Len(s), i = s[k] PROVE FALSE
    OBVIOUS
  <2>1. k \in 1..Len(z) /\ z[k] = i
    BY <1>2
  <2> QED
    BY <1>3, <2>1
<1>6. PICK k \in 1..Len(q) : i \in q[k]
  BY <1>3, <1>4, <1>5
<1>7. k = 1
  <2> SUFFICES ASSUME k # 1 PROVE FALSE
    OBVIOUS
  <2>1. k - 1 \in 1..Len(p) /\ (k - 1) + 1 = k
    BY <1>1
  <2>2. p[k - 1] = q[k]
    BY <1>1, <2>1
  <2> QED
    BY <1>3, <1>6, <2>1, <2>2
<1>8. ASSUME NEW l \in 1..Len(a), a[l] = i PROVE FALSE
  <2>1. Len(s) + l \in 1..Len(z) /\ z[Len(s) + l] = i
    BY <1>2, <1>8
  <2> QED
    BY <1>3, <2>1
<1> QED
  BY <1>1, <1>6, <1>7, <1>8 DEF q

\* An item of the channel goes to the client, less what the list covered.
LEMMA NextKeeps ==
    ASSUME IndInv, NEW w \in Watchers, WatchNext(w)
    PROVE  IndInv'
<1> DEFINE r == watch[w]
           events == {i \in Head(r.queue) : i > r.lastRevision}
           a == Ascending(events)
           o == [r EXCEPT !.queue = Tail(r.queue), !.streamed = r.streamed \o a]
<1>1. /\ r \in Watches /\ Ordered(r, fate, input) /\ Joined(r) /\ Missed(r)
      /\ watch \in [Watchers -> Watches] /\ SentAreRows
  BY WatchIs DEF IndInv
<1>2. r.queue \in Seq(SUBSET Ids) /\ r.queue # <<>> /\ r.streamed \in Seq(Ids) /\ r.status = "stream"
  BY <1>1 DEF Watches, WatchNext
<1>3. Head(r.queue) \in SUBSET Ids /\ Tail(r.queue) \in Seq(SUBSET Ids)
  BY <1>2
<1>4. events \in SUBSET Ids /\ events \subseteq Head(r.queue)
  BY <1>3
<1>5. watch' = [watch EXCEPT ![w] = o]
  BY <1>1 DEF WatchNext, Watches
<1>5a. \A i \in Head(r.queue) : i > r.lastRevision => i \in events
  OBVIOUS
<1> HIDE DEF events
<1>6. /\ a \in Seq(events)
      /\ \A i, j \in 1..Len(a) : i < j => a[i] < a[j]
      /\ \A x \in events : \E i \in 1..Len(a) : a[i] = x
  BY <1>4, AscendingIs
<1> HIDE DEF a
<1>7. a \in Seq(Ids) /\ \A k \in 1..Len(a) : a[k] \in Head(r.queue)
  BY <1>4, <1>6
<1>8. r.streamed \o a \in Seq(Ids)
  BY <1>2, <1>7, ConcatProperties
<1>9. o \in Watches
  BY <1>1, <1>3, <1>8 DEF Watches
<1>10. o = watch'[w]
  BY <1>1, <1>5
<1>11. /\ o.queue = Tail(r.queue) /\ o.streamed = r.streamed \o a
       /\ o.from = r.from /\ o.max = r.max /\ o.lastRevision = r.lastRevision
       /\ o.listed = r.listed /\ o.inflight = r.inflight
       /\ o.status = r.status /\ o.ending = r.ending /\ o.subscribed = r.subscribed
  BY <1>1 DEF Watches
<1> HIDE DEF o
<1>12. Joined(o)
  BY <1>1, <1>11 DEF Joined
<1>13. ASSUME NEW x, x = r PROVE Ordered(o, fate, input)
  <2>1. /\ Ordered(x, fate, input) /\ x.queue \in Seq(SUBSET Ids) /\ x.queue # <<>>
        /\ x.streamed \in Seq(Ids) /\ \A k \in 1..Len(a) : a[k] \in Head(x.queue)
        /\ o.queue = Tail(x.queue) /\ o.streamed = x.streamed \o a
    BY <1>1, <1>2, <1>7, <1>11, <1>13
  <2> QED
    BY <1>6, <1>7, <2>1, NextOrdered
<1>14. ASSUME NEW x, x = r, o.status = "stream", o.subscribed, ~ o.ending,
              NEW i \in Ids, fate[i] = "sent", i > o.from,
              ~ Tells(o, input, i)
       PROVE  i \in o.inflight
  <2>1. /\ x.queue \in Seq(SUBSET Ids) /\ x.queue # <<>> /\ x.streamed \in Seq(Ids)
        /\ o.queue = Tail(x.queue) /\ o.streamed = x.streamed \o a /\ o.listed = x.listed
        /\ o.inflight = x.inflight
    BY <1>2, <1>11, <1>14
  <2>2. Tells(x, input, i) \/ i \in x.inflight
    BY <1>1, <1>11, <1>14 DEF Missed
  <2>3. CASE i \in x.inflight
    BY <2>1, <2>3
  <2>4. CASE Tells(x, input, i)
    <3>1. i \in Head(x.queue) /\ ~ \E k \in 1..Len(a) : a[k] = i
      <4>1. a \in Seq(Ids) /\ ~ Tells(o, input, i)
        BY <1>7, <1>14
      <4> QED
        BY <2>1, <2>4, <4>1, NextTells
    <3>2. ~ (i > r.lastRevision)
      BY <1>5a, <1>6, <1>14, <3>1
    <3>3. r.lastRevision \in Nat /\ r.from \in Nat /\ i \in Nat
      BY <1>1, Numbers DEF Watches, Revisions
    <3>4. r.from < i /\ i <= r.lastRevision
      BY <1>11, <1>14, <3>2, <3>3
    <3>5. Arrives(i)
      BY <1>1, <1>14 DEF SentAreRows, Arrives
    <3>6. i \in r.listed \cup r.inflight
      BY <1>1, <1>2, <1>11, <1>14, <3>4, <3>5 DEF Joined
    <3>7. i \notin o.listed
      BY <1>14 DEF Tells
    <3> QED
      BY <1>11, <3>6, <3>7
  <2> QED
    BY <2>2, <2>3, <2>4
<1>15. Ordered(o, fate, input) /\ Missed(o)
  BY <1>13, <1>14 DEF Missed
<1>16. UNCHANGED <<maxid, rows, reserved, answered, notify, pollPc, last, skip, expired, batch, rev,
                   sequential, saveLast, waitForMore, fate, input>>
  BY DEF WatchNext, db, poll, loop
<1> QED
  BY <1>5, <1>9, <1>10, <1>12, <1>15, <1>16, OneWatch

-----------------------------------------------------------------------------
(* Theorems.                                                                *)

\* The invariant holds at the start.
LEMMA InitIndInv == Init => IndInv
<1> SUFFICES ASSUME Init PROVE IndInv
  OBVIOUS
<1>1. NewWatch \in Watches
  BY Numbers DEF NewWatch, Blank, Watches, Revisions
<1>2. TypeOK
  <2>1. watch \in [Watchers -> Watches]
    BY <1>1 DEF Init
  <2>2. reserved \in SUBSET Ids /\ answered \in SUBSET Ids
    BY DEF Init
  <2>3. /\ maxid \in PollStart..MaxId /\ last \in PollStart..MaxId /\ skip \in Revisions
        /\ rev \in Revisions
    BY Numbers DEF Init, Revisions
  <2>4. notify \in Seq(Revisions) /\ Len(notify) <= NotifyCap
    BY WatchAssumption DEF Init
  <2> QED
    BY <2>1, <2>2, <2>3, <2>4 DEF Init, TypeOK
<1>3. Round /\ SentAreRows
  BY DEF Init, Round, InRound, SentAreRows
<1>4. EveryRevisionAccounted
  <2>1. \A i \in Ids : ~ (i <= PollStart)
    BY Numbers
  <2> QED
    BY <2>1 DEF Init, EveryRevisionAccounted
<1>5. WatchesRight
  <2> SUFFICES ASSUME NEW w \in Watchers
               PROVE  Ordered(watch[w], fate, input) /\ Joined(watch[w]) /\ Missed(watch[w])
    BY DEF WatchesRight
  <2>1. watch[w] = NewWatch /\ maxid = 1
    BY Numbers DEF Init
  <2>2. /\ NewWatch.queue = <<>> /\ NewWatch.streamed = <<>> /\ NewWatch.status = "new"
        /\ NewWatch.from = 0 /\ NewWatch.max = 0 /\ NewWatch.lastRevision = 0
    BY DEF NewWatch, Blank
  <2>3. Len(<<>>) = 0 /\ 1..0 = {}
    OBVIOUS
  <2>4. Ordered(NewWatch, fate, input)
    BY <2>2, <2>3 DEF Ordered
  <2>5. Joined(NewWatch)
    BY <2>1, <2>2 DEF Joined
  <2>6. Missed(NewWatch)
    BY <2>2 DEF Missed
  <2> QED
    BY <2>1, <2>4, <2>5, <2>6
<1> QED
  BY <1>2, <1>3, <1>4, <1>5 DEF IndInv

\* And is kept by every step.
LEMMA NextIndInv == IndInv /\ [Next]_vars => IndInv'
<1> SUFFICES ASSUME IndInv, [Next]_vars PROVE IndInv'
  OBVIOUS
<1>1. CASE UNCHANGED vars
  <2>1. UNCHANGED <<maxid, rows, reserved, answered, notify, pollPc, last, skip, expired, batch, rev,
                    sequential, saveLast, waitForMore, fate, input, watch>>
    BY <1>1 DEF vars, db, poll, loop
  <2>2. TypeOK'
    BY <2>1 DEF IndInv, TypeOK
  <2>3. Round' /\ EveryRevisionAccounted' /\ SentAreRows'
    BY <2>1 DEF IndInv, Round, InRound, EveryRevisionAccounted, SentAreRows
  <2> QED
    BY <2>1, <2>2, <2>3, PollAlone
<1>2. ASSUME AppendReserve \/ \E i \in Ids : AppendWrite(i) \/ AppendReturn(i)
      PROVE  IndInv'
  BY <1>2, ReserveKeeps, WriteKeeps, ReturnKeeps
<1>3. CASE List \/ Expire
  BY <1>3, ClockKeeps
<1>4. CASE PollNotified \/ PollTick \/ PollReadFails \/ StartTtl
  BY <1>4, IdleKeeps
<1>5. CASE PollRead
  BY <1>5, ReadKeeps
<1>6. ASSUME NEW e \in batch, PollEvent(e) \/ PollGap(e) PROVE IndInv'
  BY <1>6, EventKeeps, GapKeeps
<1>7. CASE PollFill \/ PollFillFails
  BY <1>7, FillKeeps
<1>8. CASE PollSend
  BY <1>8, SendKeeps
<1>9. CASE Stream
  BY <1>9, StreamKeeps
<1>10. ASSUME NEW w \in Watchers,
              \/ Unsub(w) \/ WatchMaxId(w) \/ WatchRows(w) \/ WatchListFails(w)
              \/ WatchNext(w) \/ WatchEnd(w)
       PROVE  IndInv'
  BY <1>10, UnsubKeeps, MaxIdKeeps, RowsKeeps, ListFailsKeeps, NextKeeps, EndKeeps
<1>11. ASSUME NEW w \in Watchers, NEW r \in PollStart..MaxId,
              Watch(w, r) \/ WatchUnconnected(w, r)
       PROVE  IndInv'
  BY <1>11, SubscribeKeeps
<1> QED
  BY <1>1, <1>2, <1>3, <1>4, <1>5, <1>6, <1>7, <1>8, <1>9, <1>10, <1>11 DEF Next

\* So it holds throughout.
LEMMA AlwaysIndInv == Spec => []IndInv
BY InitIndInv, NextIndInv, PTL DEF Spec

\* The types of the model's state hold in every behaviour, whatever the bounds.
THEOREM TypeCorrect == Spec => []TypeOK
<1>1. IndInv => TypeOK
  BY DEF IndInv
<1> QED
  BY <1>1, AlwaysIndInv, PTL

\* poll moves past a revision only when it was sent, filled or given up: no row
\* is passed over, whichever order rows appear in and whatever Fill does.
THEOREM PollAccounts == Spec => []EveryRevisionAccounted
<1>1. IndInv => EveryRevisionAccounted
  BY DEF IndInv
<1> QED
  BY <1>1, AlwaysIndInv, PTL

\* What a watch streams comes after the revision of its list, when it listed
\* anything: before that it has streamed nothing.
Follows(r) ==
    /\ r.status \in {"new", "list", "read"} => r.streamed = <<>> /\ r.listed = {}
    /\ r.listed # {} => r.lastRevision = r.max
    /\ \A k \in 1..Len(r.streamed) : r.streamed[k] > r.lastRevision

Followed == \A w \in Watchers : Follows(watch[w])

\* A watch that has streamed nothing.
LEMMA FollowsNothing ==
    ASSUME NEW o, o.streamed = <<>>, o.listed # {} => o.lastRevision = o.max,
           o.status \in {"new", "list", "read"} => o.listed = {}
    PROVE  Follows(o)
<1>1. Len(<<>>) = 0 /\ 1..0 = {}
  OBVIOUS
<1> QED
  BY <1>1 DEF Follows

\* The watches that take no step stay as they are.
LEMMA FollowsOne ==
    ASSUME Followed, TypeOK, NEW w \in Watchers, NEW o, watch' = [watch EXCEPT ![w] = o], Follows(o)
    PROVE  Followed'
<1> SUFFICES ASSUME NEW v \in Watchers PROVE Follows(watch'[v])
  BY DEF Followed, Follows
<1>1. watch'[v] = o \/ watch'[v] = watch[v]
  BY DEF TypeOK
<1> QED
  BY <1>1 DEF Followed

\* An item of the stream: only events after lastRevision are sent on.
LEMMA FollowsNext ==
    ASSUME NEW r \in Watches, Follows(r), r.status = "stream", r.queue # <<>>,
           NEW o, o.status = r.status, o.listed = r.listed, o.max = r.max,
           o.lastRevision = r.lastRevision,
           o.streamed = r.streamed \o Ascending({i \in Head(r.queue) : i > r.lastRevision})
    PROVE  Follows(o)
<1> DEFINE events == {i \in Head(r.queue) : i > r.lastRevision}
           a == Ascending(events)
           s == r.streamed
           z == o.streamed
<1>1. events \in SUBSET Ids /\ \A i \in events : i > r.lastRevision
  BY DEF Watches
<1> HIDE DEF events
<1>2. a \in Seq(events)
  BY <1>1, AscendingIs
<1>3. a \in Seq(Ids) /\ \A k \in 1..Len(a) : a[k] > r.lastRevision
  BY <1>1, <1>2
<1>4. s \in Seq(Ids) /\ z = s \o a
  BY DEF Watches, events
<1> HIDE DEF a, s, z
<1>5. /\ Len(s) \in Nat /\ Len(a) \in Nat /\ Len(z) = Len(s) + Len(a)
      /\ \A k \in 1..Len(s) : z[k] = s[k]
      /\ \A k \in 1..Len(z) : k > Len(s) => z[k] = a[k - Len(s)] /\ k - Len(s) \in 1..Len(a)
  BY <1>3, <1>4, ConcatProperties
<1>6. \A k \in 1..Len(s) : s[k] > r.lastRevision
  BY DEF Follows, s
<1>7. ASSUME NEW k \in 1..Len(z) PROVE z[k] > r.lastRevision
  <2>1. CASE k > Len(s)
    BY <1>3, <1>5, <2>1
  <2>2. CASE ~ (k > Len(s))
    <3>1. k \in 1..Len(s)
      BY <1>5, <2>2
    <3> QED
      BY <1>5, <1>6, <3>1
  <2> QED
    BY <2>1, <2>2
<1>8. \A k \in 1..Len(o.streamed) : o.streamed[k] > o.lastRevision
  BY <1>7 DEF z
<1> QED
  BY <1>8 DEF Follows

\* No step streams anything the revision of the list covers.
LEMMA NextFollows == TypeOK /\ Followed /\ [Next]_vars => Followed'
<1> SUFFICES ASSUME TypeOK, Followed, [Next]_vars PROVE Followed'
  OBVIOUS
<1>1. CASE UNCHANGED watch
  BY <1>1 DEF Followed, Follows
<1>2. ASSUME Stream PROVE Followed'
  <2> SUFFICES ASSUME NEW w \in Watchers PROVE Follows(watch'[w])
    BY DEF Followed, Follows
  <2>1. watch[w] \in Watches /\ Follows(watch[w]) /\ input \in SUBSET Ids
    BY DEF Followed, TypeOK
  <2>2. watch'[w] = IF watch[w].subscribed THEN Offer(w, input) ELSE watch[w]
    BY <1>2 DEF Stream
  <2>3. CASE watch[w].subscribed
    <3>1. Offered(watch[w], watch'[w], input)
      BY <2>1, <2>2, <2>3, OfferIs
    <3> QED
      BY <2>1, <3>1 DEF Offered, Follows
  <2> QED
    BY <2>1, <2>2, <2>3
<1>3. ASSUME NEW w \in Watchers,
             \/ Unsub(w) \/ WatchMaxId(w) \/ WatchRows(w) \/ WatchListFails(w) \/ WatchNext(w)
             \/ WatchEnd(w)
             \/ \E r \in PollStart..MaxId : Watch(w, r) \/ WatchUnconnected(w, r)
      PROVE  Followed'
  <2> DEFINE r == watch[w]
             o == watch'[w]
  <2>1. r \in Watches /\ Follows(r) /\ watch \in [Watchers -> Watches]
    BY DEF Followed, TypeOK
  <2>2. watch' = [watch EXCEPT ![w] = o]
    BY <1>3, <2>1 DEF Unsub, WatchMaxId, WatchRows, WatchListFails, WatchNext, WatchEnd, Watch,
                      WatchUnconnected
  <2>3. CASE Unsub(w)
    <3>1. /\ o.status = r.status /\ o.listed = r.listed /\ o.max = r.max
          /\ o.lastRevision = r.lastRevision /\ o.streamed = r.streamed
      BY <2>1, <2>3 DEF Unsub, Watches
    <3>2. Follows(o)
      BY <2>1, <3>1 DEF Follows
    <3> QED
      BY <2>2, <3>2, FollowsOne
  <2>4. CASE WatchMaxId(w) \/ \E n \in PollStart..MaxId : Watch(w, n) \/ WatchUnconnected(w, n)
    <3>1. /\ r.status \in {"new", "list"} /\ o.listed = r.listed /\ o.streamed = r.streamed
      BY <2>1, <2>4 DEF WatchMaxId, Watch, WatchUnconnected, Watches
    <3>2. o.listed = {} /\ o.streamed = <<>>
      BY <2>1, <3>1 DEF Follows
    <3>3. Follows(o)
      BY <3>2, FollowsNothing
    <3> QED
      BY <2>2, <3>3, FollowsOne
  <2>5. CASE WatchRows(w)
    <3>1. /\ r.status = "read" /\ o.streamed = r.streamed /\ o.max = r.max /\ o.status = "stream"
          /\ o.listed # {} => o.lastRevision = r.max
      BY <2>1, <2>5 DEF WatchRows, Watches
    <3>2. o.streamed = <<>>
      BY <2>1, <3>1 DEF Follows
    <3>3. Follows(o)
      BY <3>1, <3>2, FollowsNothing
    <3> QED
      BY <2>2, <3>3, FollowsOne
  <2>6. CASE WatchListFails(w)
    <3>1. r.status \in {"list", "read"} /\ o.listed = r.listed /\ o.streamed = r.streamed
      BY <2>1, <2>6 DEF WatchListFails, Watches
    <3>2. o.listed = {} /\ o.streamed = <<>>
      BY <2>1, <3>1 DEF Follows
    <3>3. Follows(o)
      BY <3>2, FollowsNothing
    <3> QED
      BY <2>2, <3>3, FollowsOne
  <2>7. CASE WatchNext(w)
    <3>1. /\ r.status = "stream" /\ r.queue # <<>>
          /\ o.status = r.status /\ o.listed = r.listed /\ o.max = r.max
          /\ o.lastRevision = r.lastRevision
          /\ o.streamed = r.streamed \o Ascending({i \in Head(r.queue) : i > r.lastRevision})
      BY <2>1, <2>7 DEF WatchNext, Watches
    <3>2. Follows(o)
      BY <2>1, <3>1, FollowsNext
    <3> QED
      BY <2>2, <3>2, FollowsOne
  <2>8. CASE WatchEnd(w)
    <3>1. o.listed = {} /\ o.streamed = <<>>
      BY <2>1, <2>8 DEF WatchEnd, Blank
    <3>2. Follows(o)
      BY <3>1, FollowsNothing
    <3> QED
      BY <2>2, <3>2, FollowsOne
  <2> QED
    BY <1>3, <2>3, <2>4, <2>5, <2>6, <2>7, <2>8
<1>4. CASE AppendReserve \/ List \/ PollNotified \/ PollTick \/ PollRead \/ PollReadFails
           \/ PollFill \/ PollFillFails \/ PollSend \/ Expire \/ StartTtl
  BY <1>1, <1>4 DEF AppendReserve, List, PollNotified, PollTick, PollRead, PollReadFails, PollFill,
                    PollFillFails, PollSend, Expire, StartTtl
<1>5. ASSUME NEW i \in Ids, AppendWrite(i) \/ AppendReturn(i) PROVE Followed'
  BY <1>1, <1>5 DEF AppendWrite, AppendReturn
<1>6. ASSUME NEW e \in batch, PollEvent(e) \/ PollGap(e) PROVE Followed'
  BY <1>1, <1>6 DEF PollEvent, Take, PollGap
<1>7. CASE UNCHANGED vars
  BY <1>1, <1>7 DEF vars
<1> QED
  BY <1>2, <1>3, <1>4, <1>5, <1>6, <1>7 DEF Next

\* The list and then the stream of a watch come in ascending order and without
\* repeats, but for rows of the list that came after the list's revision.
THEOREM StreamsAscend == Spec => []StreamAscending
<1>1. Init => Followed
  <2>1. NewWatch.streamed = <<>> /\ NewWatch.listed = {}
    BY DEF NewWatch, Blank
  <2>2. Follows(NewWatch)
    BY <2>1, FollowsNothing
  <2> QED
    BY <2>2 DEF Init, Followed
<1>2. IndInv => TypeOK
  BY DEF IndInv
<1>3. IndInv /\ Followed => StreamAscending
  <2> SUFFICES ASSUME IndInv, Followed, NEW w \in Watchers, NEW j \in 1..Len(watch[w].streamed)
               PROVE  /\ \A i \in 1..(j - 1) : watch[w].streamed[i] < watch[w].streamed[j]
                      /\ \A i \in watch[w].listed : i <= watch[w].max => i < watch[w].streamed[j]
    BY DEF StreamAscending
  <2> DEFINE r == watch[w]
  <2>1. r \in Watches /\ Ordered(r, fate, input) /\ Follows(r)
    BY WatchIs DEF Followed
  <2>2. /\ r.streamed \in Seq(Ids) /\ r.listed \in SUBSET Ids
        /\ r.max \in Nat /\ r.lastRevision \in Nat
    BY <2>1, Numbers, SMTT(40) DEF Watches, Revisions
  <2>3. r.streamed[j] \in Nat /\ r.streamed[j] > r.lastRevision
    BY <2>1, <2>2, Numbers DEF Follows
  <2>4. \A i \in 1..(j - 1) : i \in 1..Len(r.streamed) /\ i < j
    BY <2>2
  <2>5. \A i \in 1..(j - 1) : r.streamed[i] < r.streamed[j]
    BY <2>1, <2>4 DEF Ordered
  <2>6. ASSUME NEW i \in r.listed, i <= r.max PROVE i < r.streamed[j]
    <3>1. r.lastRevision = r.max /\ i \in Nat
      BY <2>1, <2>2, Numbers DEF Follows
    <3> QED
      BY <2>2, <2>3, <2>6, <3>1
  <2> QED
    BY <2>5, <2>6
<1> QED
  BY <1>1, <1>2, <1>3, NextFollows, AlwaysIndInv, PTL DEF Spec

\* A watch joins its list to the stream without losing a row that poll sent,
\* but for those in flight while the list was read.
THEOREM WatchMissesOnlyInFlight == Spec => []MissedOnlyInFlight
<1>1. IndInv => MissedOnlyInFlight
  <2> SUFFICES ASSUME IndInv, NEW w \in Watchers,
                      watch[w].status = "stream", watch[w].subscribed, ~ watch[w].ending,
                      NEW i \in Ids, fate[i] = "sent", i > watch[w].from
               PROVE  i \in Told(w) \cup watch[w].inflight
    BY DEF MissedOnlyInFlight
  <2>1. Tells(watch[w], input, i) \/ i \in watch[w].inflight
    BY DEF IndInv, WatchesRight, Missed
  <2>2. CASE i \in watch[w].listed \/ i \in input
    BY <2>2 DEF Told
  <2>3. CASE \E k \in 1..Len(watch[w].streamed) : i = watch[w].streamed[k]
    BY <2>3 DEF Told
  <2>4. CASE \E k \in 1..Len(watch[w].queue) : i \in watch[w].queue[k]
    BY <2>4 DEF Told
  <2> QED
    BY <2>1, <2>2, <2>3, <2>4 DEF Tells
<1> QED
  BY <1>1, AlwaysIndInv, PTL
=============================================================================
