-------------------------- MODULE DdsDatabaseProofs --------------------------
(***************************************************************************)
(* Proofs about DdsDatabase, for every number of nodes, threads, ids and    *)
(* timestamps.                                                              *)
(***************************************************************************)
EXTENDS DdsDatabase, WellFoundedInduction, TLAPS

\* A non-empty set of naturals with an upper bound has a largest element: the
\* distances to the bound have a least one.
LEMMA MaxExists ==
    ASSUME NEW S, NEW b \in Nat, S \subseteq 0..b, S # {}
    PROVE  \E m \in S : \A k \in S : k <= m
<1> DEFINE D == {b - k : k \in S}
<1>1. D \subseteq Nat
  <2> SUFFICES ASSUME NEW k \in S PROVE b - k \in Nat
    OBVIOUS
  <2> QED
    OBVIOUS
<1>2. D # {}
  OBVIOUS
<1>3. PICK x \in D : \A y \in D : ~ (<<y, x>> \in OpToRel(<, Nat))
  BY <1>1, <1>2, NatLessThanWellFounded, WFMin
<1>4. \A y \in D : ~ (y < x)
  BY <1>1, <1>3 DEF OpToRel
<1>5. PICK m \in S : x = b - m
  OBVIOUS
<1>6. \A k \in S : k <= m
  <2> TAKE k \in S
  <2>1. ~ (b - k < b - m)
    BY <1>4, <1>5
  <2> QED
    BY <2>1
<1> QED
  BY <1>6

\* What the scan of the maxid samples returns.
LEMMA LargestIs ==
    ASSUME NEW S, S \subseteq Ids
    PROVE  /\ Largest(S) \in Ids
           /\ \A k \in S : k <= Largest(S)
           /\ Largest(S) = 0 \/ Largest(S) \in S
<1>1. \E m \in S \cup {0} : \A k \in S : k <= m
  <2>1. CASE S = {}
    BY <2>1
  <2>2. CASE S # {}
    BY <2>2, MaxExists, DdsAssumption DEF Ids
  <2> QED
    BY <2>1, <2>2
<1>2. Largest(S) \in S \cup {0} /\ \A k \in S : k <= Largest(S)
  BY <1>1 DEF Largest
<1>3. 0 \in Ids
  BY DdsAssumption DEF Ids
<1> QED
  BY <1>2, <1>3

\* query_maxid stays inside the ids of the model.
LEMMA QueryMaxid ==
    ASSUME TypeOK, NEW n \in Nodes
    PROVE  /\ query_maxid(n) \in Ids
           /\ \A k \in maxids[n] : k <= query_maxid(n)
<1>1. maxids[n] \subseteq Ids
  BY DEF TypeOK
<1> QED
  BY <1>1, LargestIs DEF query_maxid

\* A reader that receives a sample still holds one sample per key, and none
\* of them got older.
LEMMA ReceiveIs ==
    ASSUME NEW cells \in [Ids -> Cells], NEW s \in Samples
    PROVE  /\ Receive(cells, s) \in [Ids -> Cells]
           /\ \A i \in Ids : Receive(cells, s)[i].ts >= cells[i].ts
           /\ Receive(cells, s)[s.id].ts >= s.ts
           /\ \A i \in Ids : \/ Receive(cells, s)[i] = cells[i]
                             \/ /\ i = s.id
                                /\ Receive(cells, s)[i].ts = s.ts
                                /\ Receive(cells, s)[i].name = s.name
<1>1. s.id \in Ids /\ s.ts \in 1..MaxClock /\ s.name \in Contents
  BY DEF Samples
<1>2. [ts |-> s.ts, name |-> s.name] \in Cells
  BY <1>1, DdsAssumption DEF Cells
<1>3. \A i \in Ids : cells[i].ts \in 0..MaxClock
  BY DEF Cells
<1>4. Receive(cells, s) \in [Ids -> Cells]
  BY <1>1, <1>2 DEF Receive
<1>5. \A i \in Ids : i # s.id => Receive(cells, s)[i] = cells[i]
  BY DEF Receive
<1>6. Receive(cells, s)[s.id] =
          IF s.ts > cells[s.id].ts
          THEN [ts |-> s.ts, name |-> s.name] ELSE cells[s.id]
  BY <1>1 DEF Receive
<1> QED
  BY <1>1, <1>3, <1>4, <1>5, <1>6, DdsAssumption

\* A larger set of maxid samples has no smaller maximum.
LEMMA LargestMonotone ==
    ASSUME NEW S, NEW T, S \subseteq T, T \subseteq Ids
    PROVE  Largest(S) <= Largest(T)
<1>1. Largest(S) = 0 \/ Largest(S) \in S
  BY LargestIs
<1>2. Largest(T) \in Ids /\ \A k \in T : k <= Largest(T)
  BY LargestIs
<1>3. CASE Largest(S) = 0
  BY <1>2, <1>3, DdsAssumption DEF Ids
<1>4. CASE Largest(S) \in S
  BY <1>2, <1>4
<1> QED
  BY <1>1, <1>3, <1>4

\* What writer_->write(msg) does, with the sample it wrote named.
LEMMA WriteIs ==
    ASSUME TypeOK, NEW n \in Nodes, NEW i \in Ids, NEW c \in Contents,
           Write(n, i, c)
    PROVE  \E s \in Samples :
             /\ s.id = i /\ s.src = n /\ s.name = c
             /\ \A w \in written : w.ts # s.ts
             /\ clock' = [clock EXCEPT ![n] = s.ts]
             /\ written' = written \cup {s}
             /\ rows' = [rows EXCEPT ![n] = Receive(@, s)]
             /\ net' = net \cup {[dst |-> m, s |-> s] : m \in Receivers(n)}
<1>1. PICK ts \in (clock[n] + 1)..MaxClock :
        LET s == [id |-> i, ts |-> ts, src |-> n, name |-> c] IN
        /\ \A w \in written : w.ts # ts
        /\ clock' = [clock EXCEPT ![n] = ts]
        /\ written' = written \cup {s}
        /\ rows' = [rows EXCEPT ![n] = Receive(@, s)]
        /\ net' = net \cup {[dst |-> m, s |-> s] : m \in Receivers(n)}
  BY DEF Write
<1>2. ts \in 1..MaxClock
  BY DdsAssumption DEF TypeOK
<1> DEFINE s == [id |-> i, ts |-> ts, src |-> n, name |-> c]
<1>3. s \in Samples
  BY <1>2 DEF Samples
<1>4. s.id = i /\ s.src = n /\ s.name = c /\ s.ts = ts
  OBVIOUS
<1> HIDE DEF s
<1>5. /\ \A w \in written : w.ts # s.ts
      /\ clock' = [clock EXCEPT ![n] = s.ts]
      /\ written' = written \cup {s}
      /\ rows' = [rows EXCEPT ![n] = Receive(@, s)]
      /\ net' = net \cup {[dst |-> m, s |-> s] : m \in Receivers(n)}
  BY <1>1, <1>4 DEF s
<1> QED
  BY <1>3, <1>4, <1>5

-----------------------------------------------------------------------------
(* Type correctness.                                                        *)

\* Type correctness of every operation of the database and every delivery.
THEOREM TypeCorrect == Spec => []TypeOK
<1>1. Init => TypeOK
  <2> SUFFICES ASSUME Init PROVE TypeOK
    OBVIOUS
  <2>1. 0 \in Ids /\ 0 \in 0..MaxClock
    BY DdsAssumption DEF Ids
  <2>2. rows \in [Nodes -> [Ids -> Cells]]
    BY <2>1 DEF Init, Cells
  <2>3. handler \in [Nodes -> [Threads -> [pc: {"idle", "reserved"}, id: Ids]]]
    BY <2>1 DEF Init, Idle
  <2>4. lost \in BOOLEAN /\ issued \in [Ids -> 0..2]
    <3>1. lost \in BOOLEAN
      BY DEF Init
    <3>2. 0 \in 0..2
      OBVIOUS
    <3>3. issued \in [Ids -> 0..2]
      BY <3>2 DEF Init
    <3> QED
      BY <3>1, <3>3
  <2>5. clock \in [Nodes -> 0..MaxClock]
    BY <2>1 DEF Init
  <2> QED
    BY <2>2, <2>3, <2>4, <2>5 DEF Init, TypeOK
<1>2. TypeOK /\ [Next]_vars => TypeOK'
  <2> SUFFICES ASSUME TypeOK, [Next]_vars PROVE TypeOK'
    OBVIOUS
  <2>1. ASSUME NEW n \in Nodes, NEW i \in Ids, NEW c \in Contents, Write(n, i, c)
        PROVE  /\ clock' \in [Nodes -> 0..MaxClock]
               /\ written' \in SUBSET Samples
               /\ rows' \in [Nodes -> [Ids -> Cells]]
               /\ net' \in SUBSET [dst: Nodes, s: Samples]
    <3>1. PICK s \in Samples :
             /\ clock' = [clock EXCEPT ![n] = s.ts]
             /\ written' = written \cup {s}
             /\ rows' = [rows EXCEPT ![n] = Receive(@, s)]
             /\ net' = net \cup {[dst |-> m, s |-> s] : m \in Receivers(n)}
      BY <2>1, WriteIs
    <3>2. s.ts \in 0..MaxClock
      BY DdsAssumption DEF Samples
    <3>3. Receive(rows[n], s) \in [Ids -> Cells]
      BY ReceiveIs DEF TypeOK
    <3>4. Receivers(n) \subseteq Nodes
      BY DEF Receivers
    <3> QED
      BY <3>1, <3>2, <3>3, <3>4 DEF TypeOK
  <2>2. ASSUME NEW n \in Nodes, Start(n) PROVE TypeOK'
    BY <2>2 DEF Start, TypeOK
  <2>3. ASSUME NEW n \in Nodes, NEW t \in Threads, Reserve(n, t) PROVE TypeOK'
    <3>1. PICK i \in Ids :
            /\ query_maxid_and_replace(n, i)
            /\ handler' = [handler EXCEPT ![n][t] = [pc |-> "reserved", id |-> i]]
            /\ issued' = [issued EXCEPT ![i] = IF @ = 0 THEN 1 ELSE 2]
      BY <2>3 DEF Reserve
    <3>2. maxids' \in [Nodes -> SUBSET Ids]
      <4>1. \/ maxids' = [maxids EXCEPT ![n] = {} \cup {i}]
            \/ maxids' = [maxids EXCEPT ![n] = {}]
        BY <3>1 DEF query_maxid_and_replace, WriteMaxId, TakeOnly
      <4>2. {} \cup {i} \in SUBSET Ids /\ {} \in SUBSET Ids
        OBVIOUS
      <4> QED
        BY <4>1, <4>2 DEF TypeOK
    <3>3. maxidNet' \in SUBSET [src: Nodes, dst: Nodes, maxid: Ids]
      BY <3>1 DEF query_maxid_and_replace, WriteMaxId, TakeOnly, Receivers, TypeOK
    <3>4. handler' \in [Nodes -> [Threads -> [pc: {"idle", "reserved"}, id: Ids]]]
      BY <3>1 DEF TypeOK
    <3>5. issued' \in [Ids -> 0..2]
      BY <3>1 DEF TypeOK
    <3>6. lost' \in BOOLEAN
      BY <3>1 DEF query_maxid_and_replace, TypeOK
    <3> QED
      BY <2>3, <3>2, <3>3, <3>4, <3>5, <3>6 DEF Reserve, TypeOK
  <2>4. ASSUME NEW n \in Nodes, NEW t \in Threads, Insert(n, t) PROVE TypeOK'
    <3>1. handler[n][t].id \in Ids
      BY DEF TypeOK
    <3>2. handler' \in [Nodes -> [Threads -> [pc: {"idle", "reserved"}, id: Ids]]]
      <4>1. Idle \in [pc: {"idle", "reserved"}, id: Ids]
        BY DdsAssumption DEF Idle, Ids
      <4>2. handler' = [handler EXCEPT ![n][t] = Idle]
        BY <2>4 DEF Insert
      <4> QED
        BY <4>1, <4>2 DEF TypeOK
    <3> QED
      BY <2>1, <2>4, <3>1, <3>2 DEF Insert, Contents, TypeOK
  <2>5. ASSUME NEW n \in Nodes, NEW i \in Ids \ {0}, PublishId(n, i) PROVE TypeOK'
    BY <2>1, <2>5 DEF PublishId, Contents, TypeOK
  <2>6. ASSUME NEW n \in Nodes, NEW i \in Ids, Dispose(n, i) PROVE TypeOK'
    BY <2>1, <2>6 DEF Dispose, Contents, TypeOK
  <2>7. ASSUME NEW p \in net, DeliverRow(p) PROVE TypeOK'
    <3>1. p.dst \in Nodes /\ p.s \in Samples
      BY DEF TypeOK
    <3>2. Receive(rows[p.dst], p.s) \in [Ids -> Cells]
      BY <3>1, ReceiveIs DEF TypeOK
    <3> QED
      BY <2>7, <3>1, <3>2 DEF DeliverRow, TypeOK
  <2>8. ASSUME NEW p \in maxidNet, DeliverMaxId(p) PROVE TypeOK'
    BY <2>8 DEF DeliverMaxId, TypeOK
  <2>9. CASE UNCHANGED vars
    BY <2>9 DEF vars, TypeOK
  <2> QED
    BY <2>2, <2>3, <2>4, <2>5, <2>6, <2>7, <2>8, <2>9 DEF Next
<1> QED
  BY <1>1, <1>2, PTL DEF Spec

-----------------------------------------------------------------------------
(* Replication.                                                             *)

\* A cell after a sample was received, in the terms of RowsInv.
LEMMA ReceiveCell ==
    ASSUME NEW cells \in [Ids -> Cells], NEW s \in Samples, NEW i \in Ids
    PROVE  \/ Receive(cells, s)[i] = cells[i]
           \/ i = s.id /\ Receive(cells, s)[i] = [ts |-> s.ts, name |-> s.name]
<1>1. CASE i # s.id
  BY <1>1 DEF Receive
<1>2. CASE i = s.id
  BY <1>2 DEF Receive
<1> QED
  BY <1>1, <1>2

\* A write by a matched node keeps what every reader holds the newest of what
\* it was sent.
LEMMA WriteKeepsReaderInv ==
    ASSUME TypeOK, ReaderInv, NEW n \in Nodes, NEW i \in Ids, NEW c \in Contents,
           Write(n, i, c), matched[n], matched' = matched
    PROVE  ReaderInv'
<1>1. PICK s \in Samples :
         /\ s.id = i /\ s.src = n /\ s.name = c
         /\ \A w \in written : w.ts # s.ts
         /\ written' = written \cup {s}
         /\ rows' = [rows EXCEPT ![n] = Receive(@, s)]
         /\ net' = net \cup {[dst |-> m, s |-> s] : m \in Receivers(n)}
  BY WriteIs
<1>2. \A m \in Nodes : rows[m] \in [Ids -> Cells]
  BY DEF TypeOK
<1>3. \A m \in Nodes : m # n => rows'[m] = rows[m]
  BY <1>1 DEF TypeOK
<1>4. rows'[n] = Receive(rows[n], s)
  BY <1>1 DEF TypeOK
<1>5. (\A s1, s2 \in written : s1.ts = s2.ts => s1 = s2)'
  BY <1>1 DEF ReaderInv
<1>6. (\A w \in written : matched[w.src])'
  BY <1>1 DEF ReaderInv
<1>7. (\A p \in net : p.s \in written)'
  BY <1>1 DEF ReaderInv
<1>8. ASSUME NEW m \in Nodes, NEW k \in Ids
      PROVE  \/ rows'[m][k] = [ts |-> 0, name |-> NoRow]
             \/ \E w \in written' :
                  w.id = k /\ rows'[m][k] = [ts |-> w.ts, name |-> w.name]
  <2>1. CASE rows'[m][k] = rows[m][k]
    BY <1>1, <2>1 DEF ReaderInv
  <2>2. CASE k = s.id /\ rows'[m][k] = [ts |-> s.ts, name |-> s.name]
    BY <1>1, <2>2
  <2>3. m = n => \/ rows'[m][k] = rows[m][k]
                 \/ k = s.id /\ rows'[m][k] = [ts |-> s.ts, name |-> s.name]
    BY <1>2, <1>4, ReceiveCell
  <2> QED
    BY <1>3, <2>1, <2>2, <2>3
<1>9. ASSUME NEW m \in Nodes, NEW w \in written', matched'[m]
      PROVE  \/ rows'[m][w.id].ts >= w.ts
             \/ [dst |-> m, s |-> w] \in net'
  <2>1. CASE w = s /\ m = n
    BY <1>2, <1>4, <2>1, ReceiveIs
  <2>2. CASE w = s /\ m # n
    BY <1>1, <1>9, <2>2 DEF Receivers
  <2>3. CASE w \in written
    <3>1. w \in Samples /\ w.id \in Ids /\ w.ts \in 1..MaxClock
      BY <2>3 DEF TypeOK, Samples
    <3>2. \/ rows[m][w.id].ts >= w.ts
          \/ [dst |-> m, s |-> w] \in net
      BY <1>9, <2>3 DEF ReaderInv
    <3>3. rows[m][w.id].ts \in 0..MaxClock
      BY <3>1 DEF TypeOK, Cells
    <3>4. rows'[m] \in [Ids -> Cells] /\ rows'[m][w.id].ts >= rows[m][w.id].ts
      BY <1>2, <1>3, <1>4, <3>1, <3>3, ReceiveIs, DdsAssumption
    <3>5. rows'[m][w.id].ts \in 0..MaxClock
      BY <3>1, <3>4 DEF Cells
    <3> QED
      BY <1>1, <3>1, <3>2, <3>3, <3>4, <3>5, DdsAssumption
  <2> QED
    BY <1>1, <2>1, <2>2, <2>3
<1> QED
  BY <1>5, <1>6, <1>7, <1>8, <1>9 DEF ReaderInv


\* An arriving sample keeps it too.
LEMMA DeliverKeepsReaderInv ==
    ASSUME TypeOK, ReaderInv, NEW p \in net, DeliverRow(p)
    PROVE  ReaderInv'
<1>1. p.dst \in Nodes /\ p.s \in Samples /\ p.s \in written
  BY DEF TypeOK, ReaderInv
<1>2. p = [dst |-> p.dst, s |-> p.s]
  BY DEF TypeOK
<1>3. \A m \in Nodes : rows[m] \in [Ids -> Cells]
  BY DEF TypeOK
<1>4. /\ \A m \in Nodes : m # p.dst => rows'[m] = rows[m]
      /\ rows'[p.dst] = Receive(rows[p.dst], p.s)
      /\ net' = net \ {p} /\ written' = written /\ matched' = matched
  BY <1>1 DEF DeliverRow, TypeOK
<1>5. /\ (\A s1, s2 \in written : s1.ts = s2.ts => s1 = s2)'
      /\ (\A w \in written : matched[w.src])'
      /\ (\A q \in net : q.s \in written)'
  BY <1>4 DEF ReaderInv
<1>6. ASSUME NEW m \in Nodes, NEW k \in Ids
      PROVE  \/ rows'[m][k] = [ts |-> 0, name |-> NoRow]
             \/ \E w \in written' :
                  w.id = k /\ rows'[m][k] = [ts |-> w.ts, name |-> w.name]
  <2>1. CASE rows'[m][k] = rows[m][k]
    BY <1>4, <2>1 DEF ReaderInv
  <2>2. CASE k = p.s.id /\ rows'[m][k] = [ts |-> p.s.ts, name |-> p.s.name]
    BY <1>1, <1>4, <2>2
  <2>3. m = p.dst => \/ rows'[m][k] = rows[m][k]
                     \/ k = p.s.id /\ rows'[m][k] = [ts |-> p.s.ts, name |-> p.s.name]
    BY <1>1, <1>3, <1>4, ReceiveCell
  <2> QED
    BY <1>4, <2>1, <2>2, <2>3
<1>7. ASSUME NEW m \in Nodes, NEW w \in written', matched'[m]
      PROVE  \/ rows'[m][w.id].ts >= w.ts
             \/ [dst |-> m, s |-> w] \in net'
  <2>1. w \in Samples /\ w.id \in Ids /\ w.ts \in 1..MaxClock
    BY <1>4 DEF TypeOK, Samples
  <2>2. \/ rows[m][w.id].ts >= w.ts
        \/ [dst |-> m, s |-> w] \in net
    BY <1>4, <1>7 DEF ReaderInv
  <2>3. rows[m][w.id].ts \in 0..MaxClock
    BY <2>1 DEF TypeOK, Cells
  <2>4. rows'[m] \in [Ids -> Cells] /\ rows'[m][w.id].ts >= rows[m][w.id].ts
    BY <1>1, <1>3, <1>4, <2>1, <2>3, ReceiveIs, DdsAssumption
  <2>5. rows'[m][w.id].ts \in 0..MaxClock
    BY <2>1, <2>4 DEF Cells
  <2>6. CASE w = p.s /\ m = p.dst
    BY <1>1, <1>3, <1>4, <2>6, ReceiveIs
  <2>7. CASE ~ (w = p.s /\ m = p.dst)
    <3>1. [dst |-> m, s |-> w] # p
      BY <1>2, <2>7
    <3> QED
      BY <1>4, <2>1, <2>2, <2>3, <2>4, <2>5, <3>1, DdsAssumption
  <2> QED
    BY <2>6, <2>7
<1> QED
  BY <1>5, <1>6, <1>7 DEF ReaderInv

\* Every reader always holds the newest of the samples it was sent, for any
\* number of nodes writing rows, fillers and disposals under any ids.
THEOREM RowsInvariant == Spec => []RowsInv
<1>1. Init => RowsInv
  BY DEF Init, RowsInv, ReaderInv, HandlerInv, Idle
<1>2. TypeOK /\ RowsInv /\ [Next]_vars => RowsInv'
  <2> SUFFICES ASSUME TypeOK, ReaderInv, HandlerInv, [Next]_vars
               PROVE  ReaderInv' /\ HandlerInv'
    BY DEF RowsInv
  <2>1. ASSUME NEW n \in Nodes, Start(n) PROVE ReaderInv' /\ HandlerInv'
    <3>1. /\ matched' = [matched EXCEPT ![n] = TRUE] /\ ~ matched[n]
          /\ net' = net \cup {[dst |-> n, s |-> s] : s \in {w \in written : w.src # n}}
          /\ written' = written /\ rows' = rows /\ handler' = handler
      BY <2>1 DEF Start
    <3>2. \A m \in Nodes : matched[m] => matched'[m]
      BY <3>1 DEF TypeOK
    <3>3. HandlerInv'
      BY <3>1, <3>2 DEF HandlerInv
    <3>4. ASSUME NEW m \in Nodes, NEW w \in written, matched'[m]
          PROVE  \/ rows[m][w.id].ts >= w.ts
                 \/ [dst |-> m, s |-> w] \in net'
      <4>1. CASE m = n
        BY <3>1, <4>1, ZenonT(40) DEF ReaderInv
      <4>2. CASE m # n
        BY <3>1, <3>4, <4>2 DEF ReaderInv, TypeOK
      <4> QED
        BY <4>1, <4>2
    <3>5. \A w \in written : matched'[w.src]
      BY <3>2 DEF ReaderInv, TypeOK, Samples
    <3>6. \A p \in net' : p.s \in written
      BY <3>1 DEF ReaderInv
    <3> QED
      <4>1. ReaderInv'
        <5>1. (\A s1, s2 \in written : s1.ts = s2.ts => s1 = s2)'
          BY <3>1 DEF ReaderInv
        <5>2. (\A m \in Nodes, i \in Ids :
                 \/ rows[m][i] = [ts |-> 0, name |-> NoRow]
                 \/ \E s \in written :
                      s.id = i /\ rows[m][i] = [ts |-> s.ts, name |-> s.name])'
          BY <3>1 DEF ReaderInv
        <5>3. (\A m \in Nodes, s \in written :
                 matched[m] => \/ rows[m][s.id].ts >= s.ts
                               \/ [dst |-> m, s |-> s] \in net)'
          BY <3>1, <3>4
        <5> QED
          BY <3>1, <3>5, <3>6, <5>1, <5>2, <5>3 DEF ReaderInv
      <4> QED
        BY <3>3, <4>1
  <2>2. ASSUME NEW n \in Nodes, NEW t \in Threads, Reserve(n, t)
        PROVE  ReaderInv' /\ HandlerInv'
    <3>1. ReaderInv'
      BY <2>2 DEF Reserve, ReaderInv
    <3>2. matched[n] /\ matched' = matched
      BY <2>2 DEF Reserve
    <3>3. \A m \in Nodes, u \in Threads : m # n \/ u # t => handler'[m][u] = handler[m][u]
      BY <2>2 DEF Reserve, TypeOK
    <3> QED
      BY <3>1, <3>2, <3>3 DEF HandlerInv
  <2>3. ASSUME NEW n \in Nodes, NEW t \in Threads, Insert(n, t)
        PROVE  ReaderInv' /\ HandlerInv'
    <3>1. handler[n][t].id \in Ids /\ matched[n] /\ matched' = matched
      BY <2>3 DEF Insert, HandlerInv, TypeOK
    <3>2. ReaderInv'
      <4>1. CASE \E c \in Names : Write(n, handler[n][t].id, c)
        BY <3>1, <4>1, WriteKeepsReaderInv DEF Contents
      <4>2. CASE UNCHANGED <<rows, net, written>>
        BY <3>1, <4>2 DEF ReaderInv
      <4> QED
        BY <2>3, <4>1, <4>2 DEF Insert
    <3>3. \A m \in Nodes, u \in Threads :
             handler'[m][u] = handler[m][u] \/ handler'[m][u] = Idle
      BY <2>3 DEF Insert, TypeOK
    <3> QED
      BY <3>1, <3>2, <3>3 DEF HandlerInv, Idle
  <2>4. ASSUME NEW n \in Nodes, NEW i \in Ids \ {0}, PublishId(n, i)
        PROVE  ReaderInv' /\ HandlerInv'
    BY <2>4, WriteKeepsReaderInv DEF PublishId, HandlerInv, Contents
  <2>5. ASSUME NEW n \in Nodes, NEW i \in Ids, Dispose(n, i)
        PROVE  ReaderInv' /\ HandlerInv'
    BY <2>5, WriteKeepsReaderInv DEF Dispose, HandlerInv, Contents
  <2>6. ASSUME NEW p \in net, DeliverRow(p) PROVE ReaderInv' /\ HandlerInv'
    BY <2>6, DeliverKeepsReaderInv DEF DeliverRow, HandlerInv
  <2>7. ASSUME NEW p \in maxidNet, DeliverMaxId(p) PROVE ReaderInv' /\ HandlerInv'
    BY <2>7 DEF DeliverMaxId, ReaderInv, HandlerInv
  <2>8. CASE UNCHANGED vars
    BY <2>8 DEF vars, ReaderInv, HandlerInv
  <2> QED
    BY <2>1, <2>2, <2>3, <2>4, <2>5, <2>6, <2>7, <2>8 DEF Next
<1> QED
  BY <1>1, <1>2, TypeCorrect, PTL DEF Spec


\* Two started nodes that nothing is on its way to hold the same rows: the
\* newest written sample of a key is the same for both, and there is one
\* sample for each timestamp.
THEOREM ConvergenceHolds == Spec => []Convergence
<1>1. TypeOK /\ RowsInv => Convergence
  <2> SUFFICES ASSUME TypeOK, ReaderInv,
                      NEW m \in Nodes, NEW n \in Nodes, Quiet(m), Quiet(n)
               PROVE  rows[m] = rows[n]
    BY DEF RowsInv, Convergence
  <2>1. ASSUME NEW a \in Nodes, Quiet(a), NEW s \in written
        PROVE  rows[a][s.id].ts >= s.ts
    BY <2>1, ZenonT(40) DEF Quiet, ReaderInv
  <2>2. ASSUME NEW a \in Nodes, NEW b \in Nodes, Quiet(a), NEW i \in Ids
        PROVE  rows[a][i].ts >= rows[b][i].ts
    <3>1. rows[a][i].ts \in 0..MaxClock
      BY DEF TypeOK, Cells
    <3>2. CASE rows[b][i] = [ts |-> 0, name |-> NoRow]
      BY <3>1, <3>2, DdsAssumption
    <3>3. CASE \E s \in written : s.id = i /\ rows[b][i] = [ts |-> s.ts, name |-> s.name]
      BY <2>1, <2>2, <3>3
    <3> QED
      BY <3>2, <3>3 DEF ReaderInv
  <2>3. ASSUME NEW i \in Ids PROVE rows[m][i] = rows[n][i]
    <3>1. /\ rows[m][i].ts \in 0..MaxClock /\ rows[n][i].ts \in 0..MaxClock
          /\ rows[m][i].ts >= rows[n][i].ts /\ rows[n][i].ts >= rows[m][i].ts
      BY <2>2 DEF TypeOK, Cells
    <3>2. rows[m][i].ts = rows[n][i].ts
      BY <3>1, DdsAssumption
    <3>3. \A s \in written : s.ts \in 1..MaxClock
      BY DEF TypeOK, Samples
    <3>4. \A a \in Nodes :
            \/ rows[a][i] = [ts |-> 0, name |-> NoRow]
            \/ \E s \in written : rows[a][i] = [ts |-> s.ts, name |-> s.name]
      BY DEF ReaderInv
    <3>5. \A s1, s2 \in written : s1.ts = s2.ts => s1 = s2
      BY DEF ReaderInv
    <3>6. CASE rows[m][i] = [ts |-> 0, name |-> NoRow]
      <4>1. rows[n][i].ts = 0
        BY <3>2, <3>6
      <4>2. \A s \in written : rows[n][i] # [ts |-> s.ts, name |-> s.name]
        BY <3>3, <4>1, DdsAssumption
      <4> QED
        BY <3>4, <3>6, <4>2
    <3>7. ASSUME NEW s \in written, rows[m][i] = [ts |-> s.ts, name |-> s.name]
          PROVE  rows[m][i] = rows[n][i]
      <4>1. rows[n][i].ts = s.ts /\ s.ts # 0
        BY <3>2, <3>3, <3>7, DdsAssumption
      <4>2. PICK r \in written : rows[n][i] = [ts |-> r.ts, name |-> r.name]
        BY <3>4, <4>1
      <4>3. r = s
        BY <3>5, <4>1, <4>2
      <4> QED
        BY <3>7, <4>2, <4>3
    <3> QED
      BY <3>4, <3>6, <3>7
  <2>4. rows[m] \in [Ids -> Cells] /\ rows[n] \in [Ids -> Cells]
    BY DEF TypeOK
  <2> QED
    BY <2>3, <2>4
<1> QED
  BY <1>1, TypeCorrect, RowsInvariant, PTL

-----------------------------------------------------------------------------
(* Ids and revisions.                                                       *)

\* A reservation takes the samples out and leaves one more than their maximum.
LEMMA ReserveIs ==
    ASSUME TypeOK, NEW n \in Nodes, NEW t \in Threads, Reserve(n, t), ~ lost'
    PROVE  \E i \in Ids :
             /\ i = query_maxid(n) + 1
             /\ query_maxid(n)' = i
             /\ \A m \in Nodes : m # n => query_maxid(m)' = query_maxid(m)
             /\ handler' = [handler EXCEPT ![n][t] = [pc |-> "reserved", id |-> i]]
             /\ issued' = [issued EXCEPT ![i] = IF @ = 0 THEN 1 ELSE 2]
<1>1. PICK i \in Ids :
        /\ query_maxid_and_replace(n, i)
        /\ handler' = [handler EXCEPT ![n][t] = [pc |-> "reserved", id |-> i]]
        /\ issued' = [issued EXCEPT ![i] = IF @ = 0 THEN 1 ELSE 2]
  BY DEF Reserve
<1>2. i = query_maxid(n) + 1 /\ maxids' = [maxids EXCEPT ![n] = {} \cup {i}]
  BY <1>1 DEF query_maxid_and_replace, WriteMaxId
<1>3. maxids'[n] = {i} /\ \A m \in Nodes : m # n => maxids'[m] = maxids[m]
  BY <1>2 DEF TypeOK
<1>4. Largest({i}) = i
  <2>1. i <= Largest({i}) /\ (Largest({i}) = 0 \/ Largest({i}) = i)
    BY LargestIs
  <2> QED
    BY <2>1 DEF Ids
<1>5. query_maxid(n)' = i
  BY <1>3, <1>4 DEF query_maxid
<1>6. \A m \in Nodes : m # n => query_maxid(m)' = query_maxid(m)
  BY <1>3 DEF query_maxid
<1> QED
  BY <1>1, <1>2, <1>5, <1>6

\* No step that loses no maximum makes a node's query_maxid smaller.
LEMMA MaxidGrows ==
    ASSUME TypeOK, [Next]_vars, ~ lost', NEW m \in Nodes
    PROVE  query_maxid(m)' >= query_maxid(m)
<1>1. query_maxid(m) \in Ids
  BY QueryMaxid
<1>2. ASSUME maxids' = maxids PROVE query_maxid(m)' >= query_maxid(m)
  <2>1. query_maxid(m)' = query_maxid(m)
    BY <1>2 DEF query_maxid
  <2> QED
    BY <1>1, <2>1 DEF Ids
<1>3. ASSUME NEW n \in Nodes, NEW t \in Threads, Reserve(n, t)
      PROVE  query_maxid(m)' >= query_maxid(m)
  BY <1>1, <1>3, ReserveIs DEF Ids
<1>4. ASSUME NEW p \in maxidNet, DeliverMaxId(p)
      PROVE  query_maxid(m)' >= query_maxid(m)
  <2>1. p.dst \in Nodes /\ p.maxid \in Ids
    BY DEF TypeOK
  <2>2. maxids[m] \subseteq maxids'[m] /\ maxids'[m] \subseteq Ids
    BY <1>4, <2>1 DEF DeliverMaxId, TypeOK
  <2>3. Largest(maxids[m]) <= Largest(maxids'[m])
    BY <2>2, LargestMonotone
  <2>4. Largest(maxids'[m]) \in Ids
    BY <2>2, LargestIs
  <2> QED
    BY <1>1, <2>3, <2>4 DEF query_maxid, Ids
<1> QED
  BY <1>2, <1>3, <1>4
     DEF Next, vars, Start, Insert, PublishId, Dispose, DeliverRow

\* CurrentRevision never goes back on any node, however many nodes insert, but
\* for a write back that fails.
THEOREM RevisionMonotone == Spec => CurrentRevisionMonotone
<1>1. TypeOK /\ [Next]_vars =>
        [lost' \/ \A n \in Nodes : query_maxid(n)' >= query_maxid(n)]_vars
  BY MaxidGrows
<1> QED
  BY <1>1, TypeCorrect, PTL DEF Spec, CurrentRevisionMonotone


\* With one writer node, the maxid topic of that node stays ahead of every id
\* in use; this is what makes a reservation's id new.
THEOREM IdsInvariant ==
    ASSUME SingleWriter
    PROVE  Spec => []IdsInv
<1>1. Init => IdsInv
  BY DdsAssumption DEF Init, IdsInv, IdsAhead, Idle
<1>2. TypeOK /\ TypeOK' /\ RowsInv /\ IdsInv /\ [Next]_vars => IdsInv'
  <2> SUFFICES ASSUME TypeOK, TypeOK', RowsInv, IdsInv, [Next]_vars, ~ lost'
               PROVE  IdsAhead'
    BY DEF IdsInv
  <2>0. IdsAhead
    <3>1. ~ lost
      BY DEF Next, vars, Start, Reserve, query_maxid_and_replace, Insert, PublishId,
             Dispose, DeliverRow, DeliverMaxId
    <3> QED
      BY <3>1 DEF IdsInv
  <2>1. \A w \in Writers :
          /\ query_maxid(w) \in Ids /\ query_maxid(w)' \in Ids
          /\ query_maxid(w)' >= query_maxid(w)
    <3> TAKE w \in Writers
    <3>1. w \in Nodes
      BY DdsAssumption
    <3>2. maxids'[w] \subseteq Ids
      BY <3>1 DEF TypeOK
    <3>3. query_maxid(w)' \in Ids
      BY <3>2, LargestIs DEF query_maxid
    <3> QED
      BY <3>1, <3>3, QueryMaxid, MaxidGrows
  <2>2. ASSUME issued' = issued, NEW x \in SUBSET Ids,
               \A w \in Writers, i \in x : i <= query_maxid(w),
               \A s \in written' : s \in written \/ s.id \in x,
               \A n \in Nodes, t \in Threads :
                  handler'[n][t] = handler[n][t] \/ handler'[n][t] = Idle
        PROVE  IdsAhead'
    <3>1. \A i \in Ids : issued'[i] <= 1
      BY <2>0, <2>2 DEF IdsAhead
    <3> SUFFICES ASSUME NEW w \in Writers
                 PROVE  /\ \A i \in Ids : issued'[i] > 0 => i <= query_maxid(w)'
                        /\ \A n \in Nodes, t \in Threads :
                             handler'[n][t].pc = "reserved"
                               => handler'[n][t].id <= query_maxid(w)'
                        /\ \A s \in written' : s.id <= query_maxid(w)'
      BY <3>1 DEF IdsAhead
    <3>2. \A i \in Ids : i <= query_maxid(w) => i <= query_maxid(w)'
      BY <2>1 DEF Ids
    <3>3. \A i \in Ids : issued'[i] > 0 => i <= query_maxid(w)'
      BY <2>0, <2>2, <3>2 DEF IdsAhead
    <3>4. \A n \in Nodes, t \in Threads : handler[n][t].id \in Ids
      BY DEF TypeOK
    <3>5. \A n \in Nodes, t \in Threads :
             handler'[n][t].pc = "reserved" => handler'[n][t].id <= query_maxid(w)'
      BY <2>0, <2>2, <3>2, <3>4 DEF IdsAhead, Idle
    <3>6. \A s \in written' : s.id \in Ids /\ (s \in written => s.id <= query_maxid(w))
      BY <2>0 DEF IdsAhead, TypeOK, Samples
    <3>7. \A s \in written' : s.id <= query_maxid(w)'
      BY <2>2, <3>2, <3>6
    <3> QED
      BY <3>3, <3>5, <3>7
  <2>3. ASSUME NEW n \in Nodes, NEW i \in Ids, NEW c \in Contents, Write(n, i, c),
               issued' = issued,
               \A w \in Writers : i <= query_maxid(w),
               \A m \in Nodes, t \in Threads :
                  handler'[m][t] = handler[m][t] \/ handler'[m][t] = Idle
        PROVE  IdsAhead'
    <3>1. \A s \in written' : s \in written \/ s.id \in {i}
      BY <2>3, WriteIs
    <3> QED
      BY <2>2, <2>3, <3>1
  <2>4. ASSUME issued' = issued, written' = written, handler' = handler
        PROVE  IdsAhead'
    <3>1. {} \in SUBSET Ids /\ \A w \in Writers, i \in {} : i <= query_maxid(w)
      OBVIOUS
    <3>2. \A s \in written' : s \in written \/ s.id \in {}
      BY <2>4
    <3>3. \A n \in Nodes, t \in Threads :
            handler'[n][t] = handler[n][t] \/ handler'[n][t] = Idle
      BY <2>4
    <3> QED
      BY <2>2, <2>4, <3>1, <3>2, <3>3
  <2>5. ASSUME NEW n \in Nodes, NEW k \in Ids, rows[n][k].name \in Names, NEW w \in Writers
        PROVE  k <= query_maxid(w)
    <3>1. rows[n][k] # [ts |-> 0, name |-> NoRow]
      BY <2>5, DdsAssumption
    <3>2. PICK s \in written : s.id = k
      BY <3>1 DEF RowsInv, ReaderInv
    <3> QED
      BY <2>0, <3>2 DEF IdsAhead
  <2>6. ASSUME NEW n \in Nodes, NEW t \in Threads, Reserve(n, t) PROVE IdsAhead'
    <3>1. PICK i \in Ids :
             /\ i = query_maxid(n) + 1
             /\ query_maxid(n)' = i
             /\ handler' = [handler EXCEPT ![n][t] = [pc |-> "reserved", id |-> i]]
             /\ issued' = [issued EXCEPT ![i] = IF @ = 0 THEN 1 ELSE 2]
      BY <2>6, ReserveIs
    <3>2. n \in Writers /\ written' = written
      BY <2>6 DEF Reserve
    <3>3. \A w \in Writers : w = n
      BY <3>2, SingleWriter DEF SingleWriter
    <3>4. query_maxid(n) \in Nat /\ \A k \in Ids : issued[k] \in Nat /\ k \in Nat
      <4>1. \A k \in Ids : issued[k] \in Nat
        <5>1. issued \in [Ids -> 0..2]
          BY DEF TypeOK
        <5> QED
          BY <5>1
      <4>2. query_maxid(n) \in Ids /\ Ids \subseteq Nat
        BY <2>1, <3>2, DdsAssumption DEF Ids
      <4> QED
        BY <4>1, <4>2
    <3>5. issued[i] = 0
      BY <2>0, <3>1, <3>2, <3>4 DEF IdsAhead
    <3>6. \A k \in Ids : issued'[k] = IF k = i THEN 1 ELSE issued[k]
      BY <3>1, <3>5 DEF TypeOK
    <3>7. \A k \in Ids : issued'[k] <= 1
      BY <2>0, <3>4, <3>6 DEF IdsAhead
    <3>8. \A k \in Ids : issued'[k] > 0 => k <= i
      BY <2>0, <3>1, <3>2, <3>4, <3>6 DEF IdsAhead
    <3>9. \A m \in Nodes, u \in Threads :
             handler'[m][u].pc = "reserved" => handler'[m][u].id <= i
      <4> TAKE m \in Nodes, u \in Threads
      <4>1. CASE m = n /\ u = t
        BY <3>1, <3>4, <4>1 DEF TypeOK
      <4>2. CASE ~ (m = n /\ u = t)
        <5>1. handler'[m][u] = handler[m][u] /\ handler[m][u].id \in Ids
          BY <3>1, <4>2 DEF TypeOK
        <5> QED
          BY <2>0, <3>1, <3>2, <3>4, <5>1 DEF IdsAhead
      <4> QED
        BY <4>1, <4>2
    <3>10. \A s \in written' : s.id <= i
      <4>1. \A s \in written : s.id \in Ids /\ s.id <= query_maxid(n)
        BY <2>0, <3>2 DEF IdsAhead, TypeOK, Samples
      <4> QED
        BY <3>1, <3>2, <3>4, <4>1
    <3> QED
      BY <2>0, <3>1, <3>3, <3>7, <3>8, <3>9, <3>10 DEF IdsAhead
  <2>7. ASSUME NEW n \in Nodes, NEW t \in Threads, Insert(n, t) PROVE IdsAhead'
    <3>1. handler[n][t].id \in Ids /\ handler[n][t].pc = "reserved"
      BY <2>7 DEF Insert, TypeOK
    <3>2. \A m \in Nodes, u \in Threads :
             handler'[m][u] = handler[m][u] \/ handler'[m][u] = Idle
      BY <2>7 DEF Insert, TypeOK
    <3>3. \A w \in Writers : handler[n][t].id <= query_maxid(w)
      BY <2>0, <3>1 DEF IdsAhead
    <3>4. CASE \E c \in Names : Write(n, handler[n][t].id, c)
      BY <2>3, <2>7, <3>1, <3>2, <3>3, <3>4 DEF Insert, Contents
    <3>5. CASE written' = written
      <4>1. {} \in SUBSET Ids /\ \A w \in Writers, i \in {} : i <= query_maxid(w)
        OBVIOUS
      <4>2. \A s \in written' : s \in written \/ s.id \in {}
        BY <3>5
      <4>3. issued' = issued
        BY <2>7 DEF Insert
      <4> QED
        BY <2>2, <3>2, <4>1, <4>2, <4>3
    <3> QED
      BY <2>7, <3>4, <3>5 DEF Insert
  <2>8. ASSUME NEW n \in Nodes, NEW i \in Ids \ {0}, PublishId(n, i) PROVE IdsAhead'
    <3>1. PICK k \in Ids : k > i /\ rows[n][k].name \in Names
      BY <2>8 DEF PublishId
    <3>2. \A w \in Writers : i <= query_maxid(w)
      BY <2>1, <2>5, <3>1 DEF Ids
    <3> QED
      BY <2>3, <2>8, <3>2 DEF PublishId, Contents
  <2>9. ASSUME NEW n \in Nodes, NEW i \in Ids, Dispose(n, i) PROVE IdsAhead'
    <3>1. \A w \in Writers : i <= query_maxid(w)
      BY <2>5, <2>9 DEF Dispose
    <3> QED
      BY <2>3, <2>9, <3>1 DEF Dispose, Contents
  <2> QED
    BY <2>4, <2>6, <2>7, <2>8, <2>9
       DEF Next, vars, Start, DeliverRow, DeliverMaxId
<1> QED
  BY <1>1, <1>2, TypeCorrect, RowsInvariant, PTL DEF Spec

\* With one writer node no id is handed out twice, whatever its handler
\* threads, the deliveries and the other nodes do, while no maximum is lost.
THEOREM IdsUniqueHolds ==
    ASSUME SingleWriter
    PROVE  Spec => []IdsUnique
<1>1. IdsInv => IdsUnique
  BY DEF IdsInv, IdsAhead, IdsUnique
<1> QED
  BY <1>1, IdsInvariant, PTL

\* With one writer node, the revision it reports covers every row it stores.
THEOREM RevisionCovers ==
    ASSUME SingleWriter
    PROVE  Spec => []RevisionCoversRows
<1>1. TypeOK /\ RowsInv /\ IdsInv => RevisionCoversRows
  <2> SUFFICES ASSUME RowsInv, IdsInv, ~ lost, NEW n \in Writers, NEW i \in Ids,
                      rows[n][i].name \in Names
               PROVE  i <= query_maxid(n)
    BY DEF RevisionCoversRows
  <2>1. n \in Nodes /\ rows[n][i] # [ts |-> 0, name |-> NoRow]
    BY DdsAssumption
  <2>2. PICK s \in written : s.id = i
    BY <2>1 DEF RowsInv, ReaderInv
  <2> QED
    BY <2>2 DEF IdsInv, IdsAhead
<1> QED
  BY <1>1, TypeCorrect, RowsInvariant, IdsInvariant, PTL

=============================================================================
