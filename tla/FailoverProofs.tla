--------------------------- MODULE FailoverProofs ---------------------------
(***************************************************************************)
(* Proofs about Failover, for every number of processes, deaths and ids.    *)
(***************************************************************************)
EXTENDS Failover, TLAPS

-----------------------------------------------------------------------------
(* The inductive invariant, in parts.                                       *)

\* What is true of the rows' types alone.
TableTypes ==
    /\ held \in [Nodes -> SUBSET Ids] /\ history \in [Nodes -> SUBSET Ids]
    /\ writers \in [Nodes -> [Ids -> SUBSET Nodes]]
    /\ net \subseteq Nodes \X Nodes \X Ids
    /\ \A n \in Nodes : /\ history[n] \subseteq held[n]
                        /\ \A i \in Ids : writers[n][i] \subseteq known[n]

\* A process that is not up holds nothing.
OnlyTheLivingHold ==
    \A n \in Nodes : ~ Up(n) =>
        /\ known[n] = {} /\ held[n] = {} /\ history[n] = {}
        /\ \A i \in Ids : writers[n][i] = {}

\* Readers know of every writer that lives, of none that has not been started,
\* and of those whose rows are on their way to them.
KnowTheLiving ==
    /\ \A m, n \in Nodes : Up(m) /\ Up(n) => m \in known[n]
    /\ \A m, n \in Nodes : m \in known[n] => status[m] # "new"
    /\ \A m, n \in Nodes, i \in Ids : <<m, n, i>> \in net => m \in known[n] /\ Up(n)

\* A writer that lives resends what it is taken to have written, and all that it
\* resends has come to the others or is on its way.
HistoriesReach ==
    /\ \A m, n \in Nodes, i \in Ids :
         Up(m) /\ (m \in writers[n][i] \/ <<m, n, i>> \in net) => i \in history[m]
    /\ \A m, n \in Nodes, i \in Ids :
         Up(m) /\ Up(n) /\ i \in history[m] => i \in held[n] \/ <<m, n, i>> \in net

\* Clients use a process that is up.  A maxid sample on its way is of an id that
\* was handed out, and larger than what its reader has.
SamplesAreNews ==
    /\ active # NoNode => active \in Nodes /\ Up(active)
    /\ \A n \in Nodes : maxids[n] \in issued \cup {0} /\ (~ Up(n) => maxids[n] = 0)
    /\ \A m, n \in Nodes, v \in 0..MaxId :
         <<m, n, v>> \in maxidNet => m # n /\ Up(n) /\ v \in issued /\ v > maxids[n]

\* What a process that is not behind lacks is on its way to it, from the process
\* that clients use.
ActiveTells ==
    \A n \in Nodes, i \in issued :
        Up(n) /\ ~ behind[n] =>
            \/ i <= maxids[n]
            \/ active # NoNode /\ \E v \in 0..MaxId : v >= i /\ <<active, n, v>> \in maxidNet

IndInv ==
    /\ TypeOK /\ OnlyTheLivingHold /\ KnowTheLiving /\ HistoriesReach
    /\ DeadRowIsNoticed /\ SamplesAreNews /\ ActiveTells

-----------------------------------------------------------------------------
(* What the steps do to it.                                                 *)

\* The larger of two numbers.
LEMMA MaxOfTwo == ASSUME NEW a \in Nat, NEW b \in Nat
                  PROVE  /\ Max({a, b}) \in {a, b}
                         /\ Max({a, b}) >= a /\ Max({a, b}) >= b
<1>1. \E x \in {a, b} : \A y \in {a, b} : x >= y
  OBVIOUS
<1>2. Max({a, b}) \in {a, b} /\ \A y \in {a, b} : Max({a, b}) >= y
  BY <1>1 DEF Max
<1> QED
  BY <1>2

\* What a write changes: the row of its writer's reader, and what is on its way.
Written(n, i) ==
    /\ history' \in [Nodes -> SUBSET Ids] /\ held' \in [Nodes -> SUBSET Ids]
    /\ writers' \in [Nodes -> [Ids -> SUBSET Nodes]]
    /\ net' \subseteq Nodes \X Nodes \X Ids
    /\ \A m \in Nodes :
         /\ history'[m] = IF m = n THEN history[m] \cup {i} ELSE history[m]
         /\ held'[m] = IF m = n THEN held[m] \cup {i} ELSE held[m]
    /\ \A m \in Nodes, j \in Ids :
         writers'[m][j] = IF m = n /\ j = i THEN writers[m][j] \cup {n} ELSE writers[m][j]
    /\ \A m, k \in Nodes, j \in Ids :
         <<m, k, j>> \in net' <=>
             <<m, k, j>> \in net \/ (m = n /\ j = i /\ k # n /\ Up(k) /\ n \in known[k])

\* A write changes the row of its writer's reader, and sends it to the others.
LEMMA WriteEffect == ASSUME TypeOK, NEW n \in Nodes, NEW i \in Ids, Write(n, i)
                     PROVE  Written(n, i)
<1>1. /\ history' \in [Nodes -> SUBSET Ids] /\ held' \in [Nodes -> SUBSET Ids]
      /\ \A m \in Nodes :
           /\ history'[m] = IF m = n THEN history[m] \cup {i} ELSE history[m]
           /\ held'[m] = IF m = n THEN held[m] \cup {i} ELSE held[m]
  BY ZenonT(40) DEF TypeOK, Write
<1>2. writers' = [writers EXCEPT ![n] = [writers[n] EXCEPT ![i] = writers[n][i] \cup {n}]]
  BY DEF Write
<1>3. [writers[n] EXCEPT ![i] = writers[n][i] \cup {n}] \in [Ids -> SUBSET Nodes]
  BY DEF TypeOK
<1>4. writers' \in [Nodes -> [Ids -> SUBSET Nodes]]
  BY <1>2, <1>3 DEF TypeOK
<1>5. \A m \in Nodes, j \in Ids :
        writers'[m][j] = IF m = n /\ j = i THEN writers[m][j] \cup {n} ELSE writers[m][j]
  BY <1>2 DEF TypeOK
<1>6. \A m, k \in Nodes, j \in Ids :
        <<m, k, j>> \in net' <=>
            <<m, k, j>> \in net \/ (m = n /\ j = i /\ k # n /\ Up(k) /\ n \in known[k])
  BY DEF Write, Others
<1>7. net' \subseteq Nodes \X Nodes \X Ids
  BY DEF TypeOK, Write, Others
<1> QED
  BY <1>1, <1>4, <1>5, <1>6, <1>7 DEF Written

\* No row is left without a writer that had one.
NoNewDeadRow == \A m \in Nodes : NoWriters(m)' \subseteq NoWriters(m)

\* A write keeps what the invariant says of the rows: its writer resends the row,
\* and the others are sent it.
LEMMA WriteKeeps ==
    ASSUME IndInv, NEW n \in Nodes, NEW i \in Ids, Up(n), Write(n, i), UNCHANGED <<status, known>>
    PROVE  TableTypes' /\ OnlyTheLivingHold' /\ KnowTheLiving' /\ HistoriesReach' /\ NoNewDeadRow
<1>1. TypeOK
  BY DEF IndInv
<1>2. Written(n, i)
  BY <1>1, WriteEffect
<1>3. \A m \in Nodes : Up(m)' <=> Up(m)
  BY DEF Up
<1>4. TableTypes'
  <2>1. n \in known[n]
    BY DEF IndInv, KnowTheLiving
  <2>2. \A m \in Nodes : history'[m] \subseteq held'[m]
    BY <1>1, <1>2 DEF Written, TypeOK
  <2>3. \A m \in Nodes, j \in Ids : writers'[m][j] \subseteq known'[m]
    <3> TAKE m \in Nodes, j \in Ids
    <3>1. writers'[m][j] = IF m = n /\ j = i THEN writers[m][j] \cup {n} ELSE writers[m][j]
      BY <1>2 DEF Written
    <3>2. writers[m][j] \subseteq known[m]
      BY <1>1 DEF TypeOK
    <3> QED
      BY <2>1, <3>1, <3>2
  <2> QED
    BY <1>2, <2>2, <2>3 DEF Written, TableTypes
<1>5. OnlyTheLivingHold'
  <2>1. \A m \in Nodes : m # n => /\ held'[m] = held[m] /\ history'[m] = history[m]
                                 /\ \A j \in Ids : writers'[m][j] = writers[m][j]
    BY <1>2 DEF Written
  <2> QED
    BY <1>3, <2>1 DEF IndInv, OnlyTheLivingHold
<1>6. KnowTheLiving'
  BY <1>2, <1>3 DEF Written, IndInv, KnowTheLiving
<1>7. ASSUME NEW m \in Nodes, NEW k \in Nodes, NEW j \in Ids,
             Up(m)', m \in writers'[k][j] \/ <<m, k, j>> \in net'
      PROVE  j \in history'[m]
  <2>1. writers'[k][j] \subseteq writers[k][j] \cup (IF j = i THEN {n} ELSE {})
    BY <1>2 DEF Written
  <2>2. <<m, k, j>> \in net' => <<m, k, j>> \in net \/ (m = n /\ j = i)
    BY <1>2 DEF Written
  <2>3. j \in history[m] \/ (m = n /\ j = i)
    BY <1>3, <1>7, <2>1, <2>2 DEF IndInv, HistoriesReach
  <2> QED
    BY <1>2, <2>3 DEF Written
<1>8. ASSUME NEW m \in Nodes, NEW k \in Nodes, NEW j \in Ids,
             Up(m)', Up(k)', j \in history'[m]
      PROVE  j \in held'[k] \/ <<m, k, j>> \in net'
  <2>1. held[k] \subseteq held'[k] /\ (k = n => i \in held'[k])
    BY <1>2 DEF Written
  <2>2. CASE j \in history[m]
    <3>1. j \in held[k] \/ <<m, k, j>> \in net
      BY <1>3, <1>8, <2>2 DEF IndInv, HistoriesReach
    <3> QED
      BY <1>2, <2>1, <3>1 DEF Written
  <2>3. CASE j \notin history[m]
    <3>1. m = n /\ j = i
      BY <1>2, <1>8, <2>3 DEF Written
    <3>2. Up(k) /\ n \in known[k]
      BY <1>3, <1>8 DEF IndInv, KnowTheLiving
    <3> QED
      BY <1>2, <2>1, <3>1, <3>2 DEF Written
  <2> QED
    BY <2>2, <2>3
<1>9. ASSUME NEW m \in Nodes PROVE NoWriters(m)' \subseteq NoWriters(m)
  <2>1. ASSUME NEW j \in Ids, j \in held'[m], writers'[m][j] = {}
        PROVE  j \in held[m] /\ writers[m][j] = {}
    <3>1. ~ (m = n /\ j = i) /\ writers[m][j] = {}
      BY <1>2, <2>1 DEF Written
    <3> QED
      BY <1>2, <2>1, <3>1 DEF Written
  <2> QED
    BY <1>2, <2>1 DEF Written, NoWriters
<1> QED
  BY <1>4, <1>5, <1>6, <1>7, <1>8, <1>9 DEF HistoriesReach, NoNewDeadRow

\* The same of a maxid sample.
MaxIdWritten(n, v) ==
    /\ maxids' = [maxids EXCEPT ![n] = v] /\ registered' \in [Nodes -> SUBSET Ids]
    /\ maxidNet' \subseteq Nodes \X Nodes \X (0..MaxId)
    /\ \A m, k \in Nodes, u \in 0..MaxId :
         <<m, k, u>> \in maxidNet' <=>
             \/ <<m, k, u>> \in maxidNet
             \/ m = n /\ u = v /\ k # n /\ Up(k) /\ n \in known[k] /\ maxids[k] < v

\* A maxid sample that is no smaller than its writer's own takes its place, and
\* is sent to those that have a smaller one.
LEMMA WriteMaxIdEffect ==
    ASSUME TypeOK, NEW n \in Nodes, NEW v \in 0..MaxId, v >= maxids[n], WriteMaxId(n, v)
    PROVE  MaxIdWritten(n, v)
<1>1. maxids[n] \in Nat /\ v \in Nat
  BY FailoverAssumption DEF TypeOK
<1>2. Max({maxids[n], v}) = v
  BY <1>1, MaxOfTwo
<1>3. maxids' = [maxids EXCEPT ![n] = v]
  BY <1>2 DEF WriteMaxId
<1>4. \A m, k \in Nodes, u \in 0..MaxId :
        <<m, k, u>> \in maxidNet' <=>
            \/ <<m, k, u>> \in maxidNet
            \/ m = n /\ u = v /\ k # n /\ Up(k) /\ n \in known[k] /\ maxids[k] < v
  BY DEF WriteMaxId, Others
<1>5. maxidNet' \subseteq Nodes \X Nodes \X (0..MaxId)
  BY DEF WriteMaxId, Others, TypeOK
<1>6. registered' \in [Nodes -> SUBSET Ids]
  BY FailoverAssumption DEF WriteMaxId, TypeOK, Ids
<1> QED
  BY <1>3, <1>4, <1>5, <1>6 DEF MaxIdWritten

\* Whom clients may use knows of all ids, unless it is behind.
LEMMA IndInvCurrent == IndInv => NextInLineIsCurrent
<1> SUFFICES ASSUME IndInv, NEW n \in Nodes, MayInsert(n), ~ behind[n], NEW i \in issued
             PROVE  i <= maxids[n]
  BY DEF NextInLineIsCurrent, query_maxid
<1>1. Up(n) /\ (active = NoNode \/ active = n)
  BY DEF MayInsert, IndInv, SamplesAreNews
<1>2. \A v \in 0..MaxId : <<n, n, v>> \notin maxidNet
  BY DEF IndInv, SamplesAreNews
<1> QED
  BY <1>1, <1>2 DEF IndInv, ActiveTells

\* A start keeps the invariant: the new process is told of what the living resend.
LEMMA StartKeeps == ASSUME IndInv, NEW n \in Nodes, Start(n)
                    PROVE  IndInv'
<1>1. /\ TypeOK /\ ~ Up(n) /\ status[n] = "new"
      /\ \A m \in Nodes : Up(m)' <=> Up(m) \/ m = n
      /\ UNCHANGED <<active, held, writers, history, maxids, registered, maxidNet,
                     issued, invalid, republish, todo, missed>>
  BY DEF IndInv, TypeOK, Start, Up, workaround
<1>2. \A l, k \in Nodes, i \in Ids :
        <<l, k, i>> \in net' <=> <<l, k, i>> \in net \/ (k = n /\ Up(l) /\ i \in history[l])
  BY DEF Start
<1>3. TypeOK'
  <2>1. net' \subseteq Nodes \X Nodes \X Ids
    BY <1>1 DEF Start, TypeOK
  <2>2. \A m \in Nodes, i \in Ids : writers[m][i] \subseteq known'[m]
    BY <1>1 DEF Start, IndInv, TypeOK, OnlyTheLivingHold, Up
  <2> QED
    BY <1>1, <2>1, <2>2 DEF Start, TypeOK, Up
<1>4. OnlyTheLivingHold'
  BY <1>1 DEF Start, IndInv, TypeOK, OnlyTheLivingHold
<1>5. KnowTheLiving'
  BY <1>1, <1>2 DEF Start, IndInv, TypeOK, KnowTheLiving, Up
<1>6. HistoriesReach'
  <2>1. history[n] = {} /\ \A m \in Nodes, i \in Ids : n \notin writers[m][i] /\ <<n, m, i>> \notin net
    BY <1>1 DEF IndInv, TypeOK, OnlyTheLivingHold, KnowTheLiving
  <2> QED
    BY <1>1, <1>2, <2>1 DEF IndInv, HistoriesReach
<1>7. DeadRowIsNoticed'
  BY <1>1 DEF IndInv, DeadRowIsNoticed, OnlyTheLivingHold, NoWriters
<1>8. SamplesAreNews'
  BY <1>1 DEF IndInv, SamplesAreNews
<1>9. ActiveTells'
  <2> SUFFICES ASSUME NEW m \in Nodes, NEW i \in issued, Up(m)', ~ behind'[m], ~ (i <= maxids[m])
               PROVE  active # NoNode /\ \E v \in 0..MaxId : v >= i /\ <<active, m, v>> \in maxidNet
    BY <1>1 DEF ActiveTells
  <2>1. m # n /\ Up(m) /\ ~ behind[m]
    BY <1>1 DEF Start, TypeOK
  <2> QED
    BY <2>1 DEF IndInv, ActiveTells
<1> QED
  BY <1>3, <1>4, <1>5, <1>6, <1>7, <1>8, <1>9 DEF IndInv

\* An insert keeps it: what is handed out is larger than all before, and is sent to every process that lives.
LEMMA InsertKeeps == ASSUME IndInv, NEW n \in Nodes, Insert(n)
                     PROVE  IndInv'
<1> DEFINE id == maxids[n] + 1
<1>1. TypeOK /\ Up(n) /\ ~ behind[n] /\ MayInsert(n)
  BY DEF IndInv, Insert, MayInsert
<1>2. id \in Ids /\ id \in 0..MaxId /\ id > maxids[n] /\ maxids[n] \in 0..MaxId
  BY <1>1, FailoverAssumption DEF Insert, query_maxid, TypeOK, Ids
<1>3. /\ active' = n /\ issued' = issued \cup {id}
      /\ UNCHANGED <<status, known, behind, invalid, republish, todo, missed>>
  BY DEF Insert, query_maxid, workaround
<1>4. MaxIdWritten(n, id)
  BY <1>1, <1>2, WriteMaxIdEffect DEF Insert, query_maxid, query_maxid_and_replace
<1>5. TableTypes' /\ OnlyTheLivingHold' /\ KnowTheLiving' /\ HistoriesReach' /\ NoNewDeadRow
  <2>1. CASE Write(n, id)
    BY <1>1, <1>2, <1>3, <2>1, WriteKeeps
  <2>2. CASE UNCHANGED <<held, writers, history, net>>
    BY <1>3, <2>2 DEF IndInv, TypeOK, TableTypes, OnlyTheLivingHold, KnowTheLiving, HistoriesReach,
                      NoNewDeadRow, NoWriters, Up
  <2> QED
    BY <2>1, <2>2 DEF Insert, query_maxid
<1>6. \A i \in issued : i <= maxids[n]
  BY <1>1, IndInvCurrent DEF NextInLineIsCurrent, query_maxid
<1>7. \A m \in Nodes : Up(m)' <=> Up(m)
  BY <1>3 DEF Up
<1>8. \A m \in Nodes : maxids'[m] = IF m = n THEN id ELSE maxids[m]
  BY <1>1, <1>4 DEF MaxIdWritten, TypeOK
<1>9. TypeOK'
  <2>1. /\ maxids' \in [Nodes -> 0..MaxId] /\ registered' \in [Nodes -> SUBSET Ids]
        /\ maxidNet' \subseteq Nodes \X Nodes \X (0..MaxId)
    BY <1>1, <1>2, <1>4 DEF MaxIdWritten, TypeOK
  <2>2. active' \in Nodes \cup {NoNode} /\ issued' \subseteq Ids
    BY <1>1, <1>2, <1>3 DEF TypeOK
  <2> QED
    BY <1>1, <1>3, <1>5, <2>1, <2>2 DEF TypeOK, TableTypes
<1>10. DeadRowIsNoticed'
  BY <1>3, <1>5, <1>7 DEF IndInv, DeadRowIsNoticed, NoNewDeadRow
<1>11. SamplesAreNews'
  <2>1. \A m \in Nodes : maxids'[m] \in issued' \cup {0} /\ (~ Up(m) => maxids'[m] = 0)
    BY <1>1, <1>3, <1>8 DEF IndInv, SamplesAreNews
  <2>2. ASSUME NEW m \in Nodes, NEW k \in Nodes, NEW v \in 0..MaxId, <<m, k, v>> \in maxidNet'
        PROVE  m # k /\ Up(k) /\ v \in issued' /\ v > maxids'[k]
    <3>1. CASE <<m, k, v>> \in maxidNet
      <4>1. m # k /\ Up(k) /\ v \in issued /\ v > maxids[k]
        BY <3>1 DEF IndInv, SamplesAreNews
      <4>2. k # n
        BY <1>2, <1>6, <4>1
      <4> QED
        BY <1>3, <1>8, <4>1, <4>2
    <3>2. CASE <<m, k, v>> \notin maxidNet
      BY <1>3, <1>4, <1>8, <2>2, <3>2 DEF MaxIdWritten
    <3> QED
      BY <3>1, <3>2
  <2> QED
    BY <1>1, <1>3, <1>7, <2>1, <2>2 DEF SamplesAreNews
<1>12. ActiveTells'
  <2> SUFFICES ASSUME NEW m \in Nodes, NEW i \in issued', Up(m)
               PROVE  \/ i <= maxids'[m]
                      \/ active' # NoNode /\ \E v \in 0..MaxId : v >= i /\ <<active', m, v>> \in maxidNet'
    BY <1>7 DEF ActiveTells
  <2>1. i <= id /\ i \in Nat
    BY <1>1, <1>2, <1>3, <1>6 DEF TypeOK, Ids
  <2>2. CASE m = n
    BY <1>8, <2>1, <2>2
  <2>3. CASE m # n /\ maxids[m] >= id
    BY <1>1, <1>2, <1>8, <2>1, <2>3 DEF TypeOK
  <2>4. CASE m # n /\ maxids[m] < id
    <3>1. n \in known[m]
      BY <1>1 DEF IndInv, KnowTheLiving
    <3>2. <<n, m, id>> \in maxidNet'
      BY <1>2, <1>4, <2>4, <3>1 DEF MaxIdWritten
    <3> QED
      BY <1>2, <1>3, <2>1, <3>2, FailoverAssumption
  <2>5. maxids[m] \in Nat /\ id \in Nat
    BY <1>1, <1>2, FailoverAssumption DEF TypeOK
  <2> HIDE DEF id
  <2>6. maxids[m] >= id \/ maxids[m] < id
    BY <2>5
  <2> QED
    BY <2>2, <2>3, <2>4, <2>6
<1> QED
  BY <1>5, <1>9, <1>10, <1>11, <1>12 DEF IndInv

\* So does the arrival of a row.
LEMMA DeliverKeeps == ASSUME IndInv, NEW m \in Nodes, NEW n \in Nodes, NEW i \in Ids,
                             Deliver(m, n, i)
                      PROVE  IndInv'
<1>1. /\ TypeOK /\ <<m, n, i>> \in net /\ Up(n)
      /\ UNCHANGED <<status, active, known, history, maxids, registered, maxidNet, issued,
                     behind, invalid, republish, todo>>
      /\ missed' = [missed EXCEPT ![n] = @ \ {i}]
      /\ net' = net \ {<<m, n, i>>}
      /\ held' = [held EXCEPT ![n] = @ \cup {i}]
  BY DEF IndInv, Deliver, tracker
<1>2. /\ held' \in [Nodes -> SUBSET Ids]
      /\ \A k \in Nodes : held'[k] = IF k = n THEN held[k] \cup {i} ELSE held[k]
  BY <1>1 DEF TypeOK
<1>3. /\ writers' \in [Nodes -> [Ids -> SUBSET Nodes]]
      /\ \A k \in Nodes, j \in Ids :
           writers'[k][j] = IF k = n /\ j = i THEN writers[k][j] \cup {m} ELSE writers[k][j]
  <2>1. writers' = [writers EXCEPT ![n] = [writers[n] EXCEPT ![i] = writers[n][i] \cup {m}]]
    BY DEF Deliver
  <2>2. [writers[n] EXCEPT ![i] = writers[n][i] \cup {m}] \in [Ids -> SUBSET Nodes]
    BY <1>1 DEF TypeOK
  <2>3. writers' \in [Nodes -> [Ids -> SUBSET Nodes]]
    BY <1>1, <2>1, <2>2 DEF TypeOK
  <2> QED
    BY <1>1, <2>1, <2>3, ZenonT(40) DEF TypeOK
<1>4. m \in known[n]
  BY <1>1 DEF IndInv, KnowTheLiving
<1>5. TypeOK'
  <2>1. \A k \in Nodes : history'[k] \subseteq held'[k]
    BY <1>1, <1>2 DEF TypeOK
  <2>2. ASSUME NEW k \in Nodes, NEW j \in Ids PROVE writers'[k][j] \subseteq known'[k]
    <3>1. writers[k][j] \subseteq known[k]
      BY <1>1 DEF TypeOK
    <3> QED
      BY <1>1, <1>3, <1>4, <3>1, ZenonT(40)
  <2>3. missed' \in [Nodes -> SUBSET Ids] /\ net' \subseteq Nodes \X Nodes \X Ids
    BY <1>1 DEF TypeOK
  <2> QED
    BY <1>1, <1>2, <1>3, <2>1, <2>2, <2>3 DEF TypeOK
<1>6. OnlyTheLivingHold'
  <2>1. \A k \in Nodes : k # n => /\ held'[k] = held[k]
                                 /\ \A j \in Ids : writers'[k][j] = writers[k][j]
    BY <1>2, <1>3
  <2> QED
    BY <1>1, <2>1 DEF IndInv, OnlyTheLivingHold, Up
<1>7. KnowTheLiving'
  BY <1>1 DEF IndInv, KnowTheLiving, Up
<1>8. ASSUME NEW l \in Nodes, NEW k \in Nodes, NEW j \in Ids, Up(l),
             l \in writers'[k][j] \/ <<l, k, j>> \in net'
      PROVE  j \in history[l]
  <2>1. l \in writers[k][j] \/ <<l, k, j>> \in net
    BY <1>1, <1>3, <1>8, ZenonT(40)
  <2> QED
    BY <1>8, <2>1 DEF IndInv, HistoriesReach
<1>9. ASSUME NEW l \in Nodes, NEW k \in Nodes, NEW j \in Ids, Up(l), Up(k), j \in history[l]
      PROVE  j \in held'[k] \/ <<l, k, j>> \in net'
  <2>1. j \in held[k] \/ <<l, k, j>> \in net
    BY <1>9 DEF IndInv, HistoriesReach
  <2> QED
    BY <1>1, <1>2, <2>1
<1>10. HistoriesReach'
  BY <1>1, <1>8, <1>9 DEF HistoriesReach, Up
<1>11. \A k \in Nodes : NoWriters(k)' \subseteq NoWriters(k) \ (IF k = n THEN {i} ELSE {})
  <2> TAKE k \in Nodes
  <2>1. ASSUME NEW j \in Ids, j \in held'[k], writers'[k][j] = {}
        PROVE  j \in held[k] /\ writers[k][j] = {} /\ ~ (k = n /\ j = i)
    <3>1. ~ (k = n /\ j = i)
      BY <1>3, <2>1
    <3> QED
      BY <1>2, <1>3, <2>1, <3>1
  <2> QED
    BY <1>2, <2>1 DEF NoWriters
<1>12. DeadRowIsNoticed'
  <2> SUFFICES ASSUME NEW k \in Nodes, Up(k), NEW j \in NoWriters(k)'
               PROVE  invalid[k] \/ republish[k] = "read" \/ j \in todo[k] \cup missed'[k]
    BY <1>1 DEF DeadRowIsNoticed, Up
  <2>1. j \in NoWriters(k) /\ ~ (k = n /\ j = i)
    BY <1>11
  <2> QED
    BY <1>1, <2>1 DEF IndInv, DeadRowIsNoticed, TypeOK
<1> QED
  BY <1>1, <1>5, <1>6, <1>7, <1>10, <1>12 DEF IndInv, SamplesAreNews, ActiveTells, Up

\* So does the arrival of a maxid sample.
LEMMA DeliverMaxIdKeeps ==
    ASSUME IndInv, NEW m \in Nodes, NEW n \in Nodes, NEW v \in 0..MaxId, DeliverMaxId(m, n, v)
    PROVE  IndInv'
<1>1. /\ TypeOK /\ Up(n) /\ <<m, n, v>> \in maxidNet /\ v \in issued /\ v > maxids[n]
      /\ maxids' = [maxids EXCEPT ![n] = v]
      /\ behind' = [behind EXCEPT ![n] = @ /\ \E i \in issued : i > v]
      /\ UNCHANGED <<status, active, known, held, writers, history, net, registered, issued,
                     invalid, republish, todo, missed>>
  BY DEF IndInv, DeliverMaxId, SamplesAreNews, table, workaround
<1>2. \A l, k \in Nodes, u \in 0..MaxId :
        <<l, k, u>> \in maxidNet' <=> <<l, k, u>> \in maxidNet /\ (k = n => u > v)
  BY DEF DeliverMaxId
<1>3. TypeOK'
  BY <1>1 DEF DeliverMaxId, TypeOK
<1>4. SamplesAreNews'
  BY <1>1, <1>2 DEF IndInv, TypeOK, SamplesAreNews, Up
<1>5. ActiveTells'
  <2> SUFFICES ASSUME NEW k \in Nodes, NEW i \in issued, Up(k), ~ behind'[k], ~ (i <= maxids'[k])
               PROVE  active # NoNode /\ \E u \in 0..MaxId : u >= i /\ <<active, k, u>> \in maxidNet'
    BY <1>1 DEF ActiveTells, Up
  <2>1. i \in Nat /\ v \in Nat /\ maxids[k] \in Nat /\ maxids'[k] = IF k = n THEN v ELSE maxids[k]
    BY <1>1, FailoverAssumption DEF TypeOK, Ids
  <2>2. ~ behind[k] /\ ~ (i <= maxids[k])
    BY <1>1, <2>1 DEF TypeOK
  <2>3. active # NoNode /\ active \in Nodes
    BY <2>2 DEF IndInv, ActiveTells, SamplesAreNews
  <2>4. PICK u \in 0..MaxId : u >= i /\ <<active, k, u>> \in maxidNet
    BY <2>2 DEF IndInv, ActiveTells
  <2> QED
    BY <1>2, <2>1, <2>3, <2>4
<1> QED
  BY <1>1, <1>3, <1>4, <1>5 DEF IndInv, OnlyTheLivingHold, KnowTheLiving, HistoriesReach,
                                DeadRowIsNoticed, NoWriters, Up

\* A death keeps it: who was to be told by the dead and was not is behind.
LEMMA DieKeeps == ASSUME IndInv, NEW n \in Nodes, Die(n)
                  PROVE  IndInv'
<1>1. TypeOK /\ Up(n) /\ \A m \in Nodes : Up(m)' <=> Up(m) /\ m # n
  BY DEF IndInv, TypeOK, Die, Up
<1>2. \A m \in Nodes : m # n =>
        /\ known'[m] = known[m] /\ held'[m] = held[m] /\ writers'[m] = writers[m]
        /\ history'[m] = history[m] /\ maxids'[m] = maxids[m] /\ invalid'[m] = invalid[m]
        /\ republish'[m] = republish[m] /\ todo'[m] = todo[m] /\ missed'[m] = missed[m]
  BY <1>1 DEF Die, TypeOK
<1>3. /\ known'[n] = {} /\ held'[n] = {} /\ history'[n] = {} /\ maxids'[n] = 0
      /\ \A i \in Ids : writers'[n][i] = {}
  BY <1>1 DEF Die, TypeOK
<1>4. /\ \A l, k \in Nodes, i \in Ids : <<l, k, i>> \in net' <=> <<l, k, i>> \in net /\ k # n
      /\ \A l, k \in Nodes, v \in 0..MaxId :
           <<l, k, v>> \in maxidNet' <=> <<l, k, v>> \in maxidNet /\ k # n
      /\ UNCHANGED <<issued, registered>> /\ active' = IF active = n THEN NoNode ELSE active
  BY DEF Die
<1>5. TypeOK'
  BY <1>1, FailoverAssumption DEF Die, TypeOK, Up
<1>6. OnlyTheLivingHold'
  BY <1>1, <1>2, <1>3 DEF IndInv, OnlyTheLivingHold
<1>7. KnowTheLiving'
  <2>1. \A m \in Nodes : status'[m] = "new" => status[m] = "new"
    BY <1>1 DEF Die, TypeOK
  <2> QED
    BY <1>1, <1>2, <1>3, <1>4, <2>1 DEF IndInv, KnowTheLiving
<1>8. HistoriesReach'
  BY <1>1, <1>2, <1>3, <1>4 DEF IndInv, HistoriesReach
<1>9. DeadRowIsNoticed'
  BY <1>1, <1>2, <1>3 DEF IndInv, DeadRowIsNoticed, NoWriters
<1>10. SamplesAreNews'
  BY <1>1, <1>2, <1>3, <1>4 DEF IndInv, SamplesAreNews
<1>11. ActiveTells'
  <2> SUFFICES ASSUME NEW m \in Nodes, NEW i \in issued, m # n, Up(m), ~ behind'[m], ~ (i <= maxids[m])
               PROVE  active' # NoNode /\ \E v \in 0..MaxId : v >= i /\ <<active', m, v>> \in maxidNet'
    BY <1>1, <1>2, <1>4 DEF ActiveTells
  <2>1. /\ ~ behind[m]
        /\ \A v \in 0..MaxId : <<n, m, v>> \in maxidNet => ~ (v > maxids[m])
    BY <1>1 DEF Die, query_maxid
  <2>2. active # NoNode /\ active \in Nodes
    BY <2>1 DEF IndInv, ActiveTells, SamplesAreNews
  <2>3. PICK v \in 0..MaxId : v >= i /\ <<active, m, v>> \in maxidNet
    BY <2>1 DEF IndInv, ActiveTells
  <2>4. v > maxids[m]
    BY <2>2, <2>3 DEF IndInv, SamplesAreNews
  <2> QED
    BY <1>4, <2>1, <2>2, <2>3, <2>4
<1> QED
  BY <1>5, <1>6, <1>7, <1>8, <1>9, <1>10, <1>11 DEF IndInv

\* A reader that drops a dead writer puts the rows it leaves without one to its listener.
LEMMA WriterLostKeeps == ASSUME IndInv, NEW n \in Nodes, NEW m \in Nodes, WriterLost(n, m)
                         PROVE  IndInv'
<1>1. /\ TypeOK /\ Up(n) /\ status[m] = "dead" /\ ~ Up(m)
      /\ known' = [known EXCEPT ![n] = @ \ {m}]
      /\ UNCHANGED <<status, active, held, history, issued, republish, todo, missed>>
      /\ registered' \in [Nodes -> SUBSET Ids]
  BY DEF IndInv, TypeOK, WriterLost, Up
<1>2. /\ \A k, l \in Nodes, i \in Ids :
           <<k, l, i>> \in net' <=> <<k, l, i>> \in net /\ ~ (k = m /\ l = n)
      /\ \A k, l \in Nodes, v \in 0..MaxId :
           <<k, l, v>> \in maxidNet' <=> <<k, l, v>> \in maxidNet /\ ~ (k = m /\ l = n)
  BY DEF WriterLost
<1>3. /\ writers' \in [Nodes -> [Ids -> SUBSET Nodes]]
      /\ \A k \in Nodes, i \in Ids :
           writers'[k][i] = IF k = n THEN writers[k][i] \ {m} ELSE writers[k][i]
  <2>1. writers' = [writers EXCEPT ![n] = [i \in Ids |-> writers[n][i] \ {m}]]
    BY DEF WriterLost
  <2>2. [i \in Ids |-> writers[n][i] \ {m}] \in [Ids -> SUBSET Nodes]
    BY <1>1 DEF TypeOK
  <2>3. writers' \in [Nodes -> [Ids -> SUBSET Nodes]]
    BY <1>1, <2>1, <2>2 DEF TypeOK
  <2> QED
    BY <1>1, <2>1, <2>3 DEF TypeOK
<1>13. /\ maxids' \in [Nodes -> 0..MaxId] /\ behind' \in [Nodes -> BOOLEAN]
      /\ \A k \in Nodes : /\ maxids'[k] = maxids[k] \/ (k = n /\ behind'[k])
                          /\ maxids'[k] <= maxids[k] /\ maxids'[k] \in issued \cup {0}
                          /\ behind[k] => behind'[k]
  <2>1. \A k \in Nodes : maxids[k] \in Nat /\ maxids[k] \in issued \cup {0}
    BY <1>1, FailoverAssumption DEF TypeOK, IndInv, SamplesAreNews
  <2>2. CASE UNCHANGED <<maxids, behind>>
    BY <1>1, <2>1, <2>2 DEF TypeOK
  <2>3. CASE PurgeMaxIds(n, m)
    <3>1. PICK v \in issued \cup {0} : v < maxids[n] /\ maxids' = [maxids EXCEPT ![n] = v]
      BY <2>3 DEF PurgeMaxIds, query_maxid
    <3>2. behind' = [behind EXCEPT ![n] = TRUE]
      BY <2>3 DEF PurgeMaxIds
    <3>3. v \in 0..MaxId
      BY <1>1, <2>1, FailoverAssumption DEF TypeOK, Ids
    <3> QED
      BY <1>1, <2>1, <3>1, <3>2, <3>3 DEF TypeOK
  <2> QED
    BY <2>2, <2>3 DEF WriterLost
<1>4. TypeOK'
  <2>1. \A k \in Nodes, i \in Ids : writers'[k][i] \subseteq known'[k]
    <3> TAKE k \in Nodes, i \in Ids
    <3>1. writers[k][i] \subseteq known[k] /\ known'[k] = IF k = n THEN known[k] \ {m} ELSE known[k]
      BY <1>1 DEF TypeOK
    <3>2. writers'[k][i] = IF k = n THEN writers[k][i] \ {m} ELSE writers[k][i]
      BY <1>3
    <3> QED
      BY <3>1, <3>2
  <2>2. net' \subseteq Nodes \X Nodes \X Ids /\ maxidNet' \subseteq Nodes \X Nodes \X (0..MaxId)
    BY <1>1 DEF WriterLost, TypeOK
  <2>3. invalid' \in [Nodes -> BOOLEAN]
    BY <1>1 DEF WriterLost, TypeOK
  <2> QED
    BY <1>1, <1>3, <1>13, <2>1, <2>2, <2>3 DEF TypeOK
<1>5. OnlyTheLivingHold'
  <2> SUFFICES ASSUME NEW k \in Nodes, ~ Up(k)
               PROVE  /\ known'[k] = {} /\ held[k] = {} /\ history[k] = {}
                      /\ \A i \in Ids : writers'[k][i] = {}
    BY <1>1 DEF OnlyTheLivingHold, Up
  <2>1. k # n /\ known'[k] = known[k] /\ \A i \in Ids : writers'[k][i] = writers[k][i]
    BY <1>1, <1>3 DEF TypeOK
  <2> QED
    BY <2>1 DEF IndInv, OnlyTheLivingHold
<1>6. KnowTheLiving'
  BY <1>1, <1>2 DEF IndInv, TypeOK, KnowTheLiving, Up
<1>7. ASSUME NEW k \in Nodes, NEW l \in Nodes, NEW i \in Ids, Up(k),
             k \in writers'[l][i] \/ <<k, l, i>> \in net'
      PROVE  i \in history[k]
  <2>1. k \in writers[l][i] \/ <<k, l, i>> \in net
    BY <1>2, <1>3, <1>7
  <2> QED
    BY <1>7, <2>1 DEF IndInv, HistoriesReach
<1>8. ASSUME NEW k \in Nodes, NEW l \in Nodes, NEW i \in Ids, Up(k), Up(l), i \in history[k]
      PROVE  i \in held[l] \/ <<k, l, i>> \in net'
  BY <1>1, <1>2, <1>8 DEF IndInv, HistoriesReach
<1>9. HistoriesReach'
  BY <1>1, <1>7, <1>8 DEF HistoriesReach, Up
<1>10. DeadRowIsNoticed'
  <2> SUFFICES ASSUME NEW k \in Nodes, Up(k), NEW i \in Ids, i \in held[k], writers'[k][i] = {}
               PROVE  invalid'[k] \/ republish[k] = "read" \/ i \in todo[k] \cup missed[k]
    BY <1>1 DEF DeadRowIsNoticed, NoWriters, TypeOK, Up
  <2>1. CASE writers[k][i] = {}
    <3>1. invalid[k] \/ republish[k] = "read" \/ i \in todo[k] \cup missed[k]
      BY <2>1 DEF IndInv, DeadRowIsNoticed, NoWriters
    <3>2. invalid[k] => invalid'[k]
      BY <1>1 DEF WriterLost, TypeOK
    <3> QED
      BY <3>1, <3>2
  <2>2. CASE writers[k][i] # {}
    <3>1. writers'[k][i] = IF k = n THEN writers[k][i] \ {m} ELSE writers[k][i]
      BY <1>3
    <3>2. k = n /\ writers[n][i] = {m}
      BY <2>2, <3>1
    <3>3. invalid'[n]
      BY <1>1, <3>2 DEF WriterLost, TypeOK
    <3> QED
      BY <3>2, <3>3
  <2> QED
    BY <2>1, <2>2
<1>11. SamplesAreNews'
  <2>1. \A k \in Nodes : ~ Up(k) => maxids'[k] = 0
    BY <1>1, <1>13 DEF IndInv, SamplesAreNews
  <2>2. ASSUME NEW k \in Nodes, NEW l \in Nodes, NEW v \in 0..MaxId, <<k, l, v>> \in maxidNet'
        PROVE  k # l /\ Up(l) /\ v \in issued /\ v > maxids'[l]
    <3>1. k # l /\ Up(l) /\ v \in issued /\ v > maxids[l]
      BY <1>2, <2>2 DEF IndInv, SamplesAreNews
    <3>2. maxids'[l] \in 0..MaxId /\ maxids'[l] <= maxids[l]
      BY <1>13
    <3>3. maxids[l] \in 0..MaxId
      BY <1>1 DEF TypeOK
    <3> QED
      BY <3>1, <3>2, <3>3, FailoverAssumption
  <2>3. active # NoNode => active \in Nodes /\ Up(active)
    BY DEF IndInv, SamplesAreNews
  <2> QED
    BY <1>1, <1>13, <2>1, <2>2, <2>3 DEF SamplesAreNews, Up
<1>12. ActiveTells'
  <2> SUFFICES ASSUME NEW k \in Nodes, NEW i \in issued, Up(k), ~ behind'[k], ~ (i <= maxids'[k])
               PROVE  active # NoNode /\ \E v \in 0..MaxId : v >= i /\ <<active, k, v>> \in maxidNet'
    BY <1>1 DEF ActiveTells, Up
  <2>1. ~ behind[k] /\ ~ (i <= maxids[k])
    BY <1>13
  <2>2. active # NoNode /\ active \in Nodes /\ active # m
    BY <1>1, <2>1 DEF IndInv, ActiveTells, SamplesAreNews
  <2>3. PICK v \in 0..MaxId : v >= i /\ <<active, k, v>> \in maxidNet
    BY <2>1 DEF IndInv, ActiveTells
  <2> QED
    BY <1>2, <2>2, <2>3
<1> QED
  BY <1>4, <1>5, <1>6, <1>9, <1>10, <1>11, <1>12 DEF IndInv

\* The listener starts the thread, or what it does not is among the missed.
LEMMA ListenerKeeps == ASSUME IndInv, NEW n \in Nodes, listener_ondataavailable(n)
                       PROVE  IndInv'
<1>1. UNCHANGED <<status, active, known, held, writers, history, net, maxids, registered,
                  maxidNet, issued, behind, todo>>
  BY DEF listener_ondataavailable, table, tracker
<1>2. TypeOK'
  BY <1>1 DEF IndInv, TypeOK, listener_ondataavailable, NoWriters
<1>3. DeadRowIsNoticed'
  BY <1>1 DEF IndInv, TypeOK, DeadRowIsNoticed, listener_ondataavailable, NoWriters, Up
<1> QED
  BY <1>1, <1>2, <1>3 DEF IndInv, OnlyTheLivingHold, KnowTheLiving, HistoriesReach,
                          SamplesAreNews, ActiveTells, Up

\* The thread reads what has no writer.
LEMMA RepublishReadKeeps == ASSUME IndInv, NEW n \in Nodes, RepublishRead(n)
                            PROVE  IndInv'
<1>1. UNCHANGED <<status, active, known, held, writers, history, net, maxids, registered,
                  maxidNet, issued, behind>>
  BY DEF RepublishRead, table, tracker
<1>2. TypeOK'
  BY <1>1 DEF IndInv, TypeOK, RepublishRead, ReadDead, NoWriters
<1>3. DeadRowIsNoticed'
  BY <1>1 DEF IndInv, TypeOK, DeadRowIsNoticed, RepublishRead, ReadDead, NoWriters, Up
<1> QED
  BY <1>1, <1>2, <1>3 DEF IndInv, OnlyTheLivingHold, KnowTheLiving, HistoriesReach,
                          SamplesAreNews, ActiveTells, Up

\* It writes a row, or that throws.
LEMMA RepublishRowKeeps == ASSUME IndInv, NEW n \in Nodes, NEW i \in Ids, RepublishRow(n, i)
                           PROVE  IndInv'
<1>1. /\ TypeOK /\ Up(n) /\ i \in todo[n] /\ todo' = [todo EXCEPT ![n] = @ \ {i}]
      /\ UNCHANGED <<status, active, known, maxids, registered, maxidNet, issued, behind,
                     invalid, republish>>
  BY DEF IndInv, RepublishRow, tracker
<1>2. CASE Write(n, i) /\ missed' = [missed EXCEPT ![n] = @ \ {i}]
  <2>1. TableTypes' /\ OnlyTheLivingHold' /\ KnowTheLiving' /\ HistoriesReach' /\ NoNewDeadRow
    BY <1>1, <1>2, WriteKeeps
  <2>2. i \notin NoWriters(n)'
    <3>1. Written(n, i)
      BY <1>1, <1>2, WriteEffect
    <3>2. n \in writers'[n][i]
      BY <3>1 DEF Written
    <3> QED
      BY <3>2 DEF NoWriters
  <2>3. DeadRowIsNoticed'
    BY <1>1, <1>2, <2>1, <2>2 DEF IndInv, TypeOK, DeadRowIsNoticed, NoNewDeadRow, Up
  <2>4. TypeOK'
    BY <1>1, <1>2, <2>1 DEF TypeOK, TableTypes
  <2> QED
    BY <1>1, <2>1, <2>3, <2>4 DEF IndInv, SamplesAreNews, ActiveTells, Up
<1>3. CASE /\ missed' = [missed EXCEPT ![n] = @ \cup ({i} \cap NoWriters(n))]
           /\ UNCHANGED <<held, writers, history, net>>
  <2>1. TypeOK'
    BY <1>1, <1>3 DEF TypeOK
  <2>2. \A m \in Nodes : NoWriters(m)' = NoWriters(m)
    BY <1>3 DEF NoWriters
  <2>3. DeadRowIsNoticed'
    BY <1>1, <1>3, <2>2 DEF IndInv, TypeOK, DeadRowIsNoticed, Up
  <2> QED
    BY <1>1, <1>3, <2>1, <2>3 DEF IndInv, OnlyTheLivingHold, KnowTheLiving, HistoriesReach,
                                  SamplesAreNews, ActiveTells, Up
<1> QED
  BY <1>2, <1>3 DEF RepublishRow

\* It writes the maxid, or that throws.
LEMMA RepublishMaxIdKeeps == ASSUME IndInv, NEW n \in Nodes, republish_message_maxid(n)
                             PROVE  IndInv'
<1>1. /\ TypeOK /\ Up(n) /\ todo[n] = {} /\ republish[n] = "write"
      /\ republish' = [republish EXCEPT ![n] = "sleep"]
      /\ UNCHANGED <<status, active, known, held, writers, history, net, issued, behind, invalid,
                     todo, missed>>
  BY DEF IndInv, republish_message_maxid, table
<1>2. MaxIdWritten(n, maxids[n]) \/ UNCHANGED <<maxids, registered, maxidNet>>
  <2>1. maxids[n] \in 0..MaxId /\ maxids[n] >= maxids[n]
    BY <1>1, FailoverAssumption DEF TypeOK
  <2> QED
    BY <1>1, <2>1, WriteMaxIdEffect DEF republish_message_maxid, query_maxid
<1>3. /\ maxids' = maxids /\ registered' \in [Nodes -> SUBSET Ids]
      /\ maxidNet' \subseteq Nodes \X Nodes \X (0..MaxId)
  BY <1>1, <1>2 DEF MaxIdWritten, TypeOK
<1>4. \A m, k \in Nodes, v \in 0..MaxId :
        /\ <<m, k, v>> \in maxidNet => <<m, k, v>> \in maxidNet'
        /\ <<m, k, v>> \in maxidNet' =>
             \/ <<m, k, v>> \in maxidNet
             \/ m = n /\ v = maxids[n] /\ k # n /\ Up(k) /\ maxids[k] < v
  BY <1>2 DEF MaxIdWritten
<1>5. TypeOK'
  BY <1>1, <1>3 DEF TypeOK
<1>6. SamplesAreNews'
  <2>1. ASSUME NEW m \in Nodes, NEW k \in Nodes, NEW v \in 0..MaxId,
               <<m, k, v>> \in maxidNet', <<m, k, v>> \notin maxidNet
        PROVE  m # k /\ Up(k) /\ v \in issued /\ v > maxids[k]
    <3>1. m = n /\ v = maxids[n] /\ k # n /\ Up(k) /\ maxids[k] < v
      BY <1>4, <2>1
    <3>2. v # 0 /\ v \in issued
      BY <1>1, <3>1, FailoverAssumption DEF TypeOK, IndInv, SamplesAreNews
    <3> QED
      BY <1>1, <3>1, <3>2 DEF TypeOK
  <2> QED
    BY <1>1, <1>3, <2>1 DEF IndInv, SamplesAreNews, Up
<1>7. ActiveTells'
  <2> SUFFICES ASSUME NEW m \in Nodes, NEW i \in issued, Up(m), ~ behind[m], ~ (i <= maxids[m])
               PROVE  active # NoNode /\ \E v \in 0..MaxId : v >= i /\ <<active, m, v>> \in maxidNet'
    BY <1>1, <1>3 DEF ActiveTells, Up
  <2>1. active # NoNode /\ active \in Nodes
    BY DEF IndInv, ActiveTells, SamplesAreNews
  <2>2. PICK v \in 0..MaxId : v >= i /\ <<active, m, v>> \in maxidNet
    BY DEF IndInv, ActiveTells
  <2> QED
    BY <1>4, <2>1, <2>2
<1> QED
  BY <1>1, <1>5, <1>6, <1>7 DEF IndInv, OnlyTheLivingHold, KnowTheLiving, HistoriesReach,
                                DeadRowIsNoticed, NoWriters, Up

\* It ends.
LEMMA RepublishEndsKeeps == ASSUME IndInv, NEW n \in Nodes, RepublishEnds(n)
                            PROVE  IndInv'
<1>1. UNCHANGED <<status, active, known, held, writers, history, net, maxids, registered,
                  maxidNet, issued, behind, invalid, todo, missed>>
  BY DEF RepublishEnds, table, tracker
<1>2. TypeOK'
  BY <1>1 DEF IndInv, TypeOK, RepublishEnds
<1>3. DeadRowIsNoticed'
  BY <1>1 DEF IndInv, TypeOK, DeadRowIsNoticed, RepublishEnds, NoWriters, Up
<1> QED
  BY <1>1, <1>2, <1>3 DEF IndInv, OnlyTheLivingHold, KnowTheLiving, HistoriesReach,
                          SamplesAreNews, ActiveTells, Up

-----------------------------------------------------------------------------
(* Theorems.                                                                *)

\* At first nothing is held, sent or handed out.
LEMMA InitIndInv == Init => IndInv
<1> SUFFICES ASSUME Init PROVE IndInv
  OBVIOUS
<1>1. TypeOK
  <2>1. writers \in [Nodes -> [Ids -> SUBSET Nodes]] /\ \A n \in Nodes, i \in Ids : writers[n][i] = {}
    BY DEF Init
  <2> QED
    BY <2>1, FailoverAssumption DEF Init, TypeOK
<1>2. OnlyTheLivingHold /\ KnowTheLiving /\ HistoriesReach
  BY FailoverAssumption DEF Init, OnlyTheLivingHold, KnowTheLiving, HistoriesReach, Up
<1>3. DeadRowIsNoticed /\ SamplesAreNews /\ ActiveTells
  BY DEF Init, DeadRowIsNoticed, NoWriters, SamplesAreNews, ActiveTells
<1> QED
  BY <1>1, <1>2, <1>3 DEF IndInv

\* Every step keeps the invariant.
LEMMA NextIndInv == IndInv /\ [Next]_vars => IndInv'
<1> SUFFICES ASSUME IndInv, [Next]_vars PROVE IndInv'
  OBVIOUS
<1>1. CASE \E n \in Nodes : Start(n) \/ Insert(n) \/ Die(n) \/ listener_ondataavailable(n)
  BY <1>1, StartKeeps, InsertKeeps, DieKeeps, ListenerKeeps
<1>2. CASE \E n \in Nodes : republish_everything(n)
  BY <1>2, RepublishReadKeeps, RepublishRowKeeps, RepublishMaxIdKeeps, RepublishEndsKeeps
     DEF republish_everything
<1>3. CASE \E m, n \in Nodes : WriterLost(n, m)
  BY <1>3, WriterLostKeeps
<1>4. CASE \E m, n \in Nodes : \E i \in Ids : Deliver(m, n, i)
  BY <1>4, DeliverKeeps
<1>5. CASE \E m, n \in Nodes : \E v \in 0..MaxId : DeliverMaxId(m, n, v)
  BY <1>5, DeliverMaxIdKeeps
<1>6. CASE UNCHANGED vars
  <2> USE <1>6 DEF vars, table, tracker, workaround
  <2>1. \A n \in Nodes : (Up(n)' <=> Up(n)) /\ NoWriters(n)' = NoWriters(n)
    BY DEF Up, NoWriters
  <2>2. TypeOK' /\ OnlyTheLivingHold' /\ KnowTheLiving' /\ HistoriesReach'
    BY <2>1 DEF IndInv, TypeOK, OnlyTheLivingHold, KnowTheLiving, HistoriesReach
  <2>3. DeadRowIsNoticed'
    BY <2>1 DEF IndInv, DeadRowIsNoticed
  <2>4. SamplesAreNews' /\ ActiveTells'
    BY <2>1 DEF IndInv, SamplesAreNews, ActiveTells
  <2> QED
    BY <2>2, <2>3, <2>4 DEF IndInv
<1> QED
  BY <1>1, <1>2, <1>3, <1>4, <1>5, <1>6 DEF Next

\* The invariant holds in every state of every behaviour.
LEMMA AlwaysIndInv == Spec => []IndInv
<1> QED
  BY InitIndInv, NextIndInv, PTL DEF Spec

\* Types: rows that a process resends it holds, and the writers it counts for a
\* row are writers it has matched.
THEOREM TypeCorrect == Spec => []TypeOK
<1>1. IndInv => TypeOK
  BY DEF IndInv
<1> QED
  BY AlwaysIndInv, <1>1, PTL

\* The workaround for lost durability forgets no row whose writers are dead, in
\* whatever order deaths, late rows and the steps of the thread fall, but for the
\* two ways that are named: a death during the thread's write or sleep, and a
\* write that throws.
THEOREM DeadRowsNoticed == Spec => []DeadRowIsNoticed
<1>1. IndInv => DeadRowIsNoticed
  BY DEF IndInv
<1> QED
  BY AlwaysIndInv, <1>1, PTL

\* When all that was sent has arrived and all deaths have been dealt with, every
\* process that lives shows the same rows.
THEOREM SurvivorsConverge == Spec => []SurvivorsAgree
<1>1. IndInv => SurvivorsAgree
  <2> SUFFICES ASSUME IndInv, Settled PROVE SurvivorsAgree
    BY DEF SurvivorsAgree
  <2>1. ASSUME NEW n \in Nodes, Up(n) PROVE NoWriters(n) = {}
    <3>1. todo[n] = {}
      BY <2>1 DEF IndInv, TypeOK, Settled
    <3> QED
      BY <2>1, <3>1 DEF IndInv, DeadRowIsNoticed, Settled
  <2>2. ASSUME NEW m \in Nodes, NEW n \in Nodes, Up(m), Up(n), NEW i \in held[n]
        PROVE  i \in held[m]
    <3>1. i \in Ids /\ writers[n][i] # {}
      BY <2>1, <2>2 DEF NoWriters, IndInv, TypeOK
    <3>2. PICK k \in Nodes : k \in writers[n][i] /\ k \in known[n]
      BY <3>1 DEF IndInv, TypeOK
    <3>3. Up(k) /\ net = {}
      BY <2>2, <3>2 DEF Settled
    <3>4. i \in history[k]
      BY <3>1, <3>2, <3>3 DEF IndInv, HistoriesReach
    <3> QED
      BY <2>2, <3>1, <3>3, <3>4 DEF IndInv, HistoriesReach
  <2>3. \A m, n \in {k \in Nodes : Up(k)} : held[m] = held[n]
    BY <2>2, ZenonT(40)
  <2> QED
    BY <2>1, <2>3 DEF SurvivorsAgree
<1> QED
  BY AlwaysIndInv, <1>1, PTL

\* No id is handed out twice by a process that clients turn to after a death,
\* unless it has never heard of the last one, or had it purged with the dead
\* writer.
THEOREM SuccessorIsCurrent == Spec => []NextInLineIsCurrent
<1> QED
  BY AlwaysIndInv, IndInvCurrent, PTL
=============================================================================
