------------------------- MODULE LogStructuredProofs -------------------------
(***************************************************************************)
(* Proofs about LogStructured, for every number of clients, keys and ids.   *)
(***************************************************************************)
EXTENDS LogStructured, TLAPS

\* The ids handed out are numbers.
LEMMA Numbers ==
    ASSUME TypeOK
    PROVE  /\ MaxId \in Nat /\ maxid \in Nat /\ maxid <= MaxId
           /\ \A i \in 1..maxid : i \in Nat /\ i \in Ids /\ asked[i] \in Rows
           /\ stored \subseteq 1..maxid /\ filled \subseteq 1..maxid
           /\ \A r \in Rows : r.prev \in Nat
<1>1. MaxId \in Nat /\ maxid \in Nat /\ maxid <= MaxId
  BY LogAssumption DEF TypeOK
<1>2. ASSUME NEW i \in 1..maxid PROVE i \in Nat /\ i \in Ids /\ asked[i] \in Rows
  <2>1. i \in Nat /\ i \in Ids /\ i <= maxid
    BY <1>1 DEF Ids
  <2> QED
    BY <2>1 DEF TypeOK
<1>3. \A r \in Rows : r.prev \in Nat
  BY <1>1 DEF Rows
<1> QED
  BY <1>1, <1>2, <1>3 DEF TypeOK

\* A row that is decided on is a row of the schema.
LEMMA DecideType ==
    ASSUME TypeOK, NEW p \in Procs, NEW row \in Rows, Decide(p, row)
    PROVE  TypeOK'
<1>1. [pc |-> "append", id |-> 0, row |-> row, seen |-> done] \in Ops
  BY Numbers DEF TypeOK, Ops, Ids
<1>2. op' \in [Procs -> Ops]
  BY <1>1 DEF Decide, TypeOK
<1>3. \A q \in Procs : op'[q] = op[q] \/ (op'[q].pc = "append" /\ op'[q].row = row)
  BY DEF Decide, TypeOK
<1> QED
  BY <1>2, <1>3 DEF Decide, TypeOK, log, fill

\* The create revision read from the log is a revision or 0.
LEMMA CreateRevisionType ==
    ASSUME TypeOK, NEW i \in stored
    PROVE  CreateRevision(i) \in 0..MaxId
<1>1. asked[i] \in Rows /\ i \in 0..MaxId
  BY Numbers DEF Ids
<1> QED
  BY <1>1 DEF CreateRevision, Rows

\* What the three requests decide on.
LEMMA CreateDecides ==
    ASSUME TypeOK, NEW p \in Procs, NEW k \in Keys, NEW lease \in Leases, Create(p, k, lease)
    PROVE  \E row \in Rows :
              /\ Decide(p, row)
              /\ row.key = k /\ row.create
              /\ \/ RowsOf(k) = {} /\ row.prev = 0
                 \/ Newest(k, row.prev)
<1>1. PICK prev \in 0..MaxId :
        /\ \/ RowsOf(k) = {} /\ prev = 0
           \/ Newest(k, prev) /\ asked[prev].delete
        /\ Decide(p, [key |-> k, create |-> TRUE, delete |-> FALSE, prev |-> prev,
                      createRevision |-> 0, lease |-> lease])
  BY DEF Create
<1> DEFINE row == [key |-> k, create |-> TRUE, delete |-> FALSE, prev |-> prev,
                   createRevision |-> 0, lease |-> lease]
<1>2. row \in Rows
  BY LogAssumption DEF Rows
<1> QED
  BY <1>1, <1>2

\* Update decides on a row of the key, on what is its newest row.
LEMMA UpdateDecides ==
    ASSUME TypeOK, NEW p \in Procs, NEW k \in Keys, NEW r \in Ids, NEW lease \in Leases,
           Update(p, k, r, lease)
    PROVE  \E row \in Rows :
              /\ Decide(p, row)
              /\ row.key = k /\ row.prev = r /\ Newest(k, r)
              /\ row.createRevision = CreateRevision(r)
<1> DEFINE row == [key |-> k, create |-> FALSE, delete |-> FALSE, prev |-> r,
                   createRevision |-> CreateRevision(r), lease |-> lease]
<1>1. Newest(k, r) /\ Decide(p, row)
  BY DEF Update, MayShow
<1>2. r \in stored
  BY <1>1 DEF Newest, RowsOf
<1>3. row \in Rows
  BY <1>2, CreateRevisionType, LogAssumption DEF Rows, Ids
<1> QED
  BY <1>1, <1>3

\* Delete likewise.
LEMMA DeleteDecides ==
    ASSUME TypeOK, NEW p \in Procs, NEW k \in Keys, NEW r, Delete(p, k, r)
    PROVE  \E row \in Rows :
              /\ Decide(p, row)
              /\ row.key = k /\ row.prev \in Ids /\ Newest(k, row.prev)
              /\ row.createRevision = CreateRevision(row.prev)
<1>1. PICK i \in Ids :
        /\ Newest(k, i)
        /\ Decide(p, [key |-> k, create |-> FALSE, delete |-> TRUE, prev |-> i,
                      createRevision |-> CreateRevision(i), lease |-> asked[i].lease])
  BY DEF Delete
<1> DEFINE row == [key |-> k, create |-> FALSE, delete |-> TRUE, prev |-> i,
                   createRevision |-> CreateRevision(i), lease |-> asked[i].lease]
<1>2. i \in stored /\ asked[i] \in Rows
  BY <1>1, Numbers DEF Newest, RowsOf
<1>3. row \in Rows
  BY <1>2, CreateRevisionType, LogAssumption DEF Rows, Ids
<1> QED
  BY <1>1, <1>3

\* Every request ends its reading with a decision.
LEMMA RequestDecides ==
    ASSUME TypeOK,
           \/ \E p \in Clients, k \in Keys, lease \in Leases : Create(p, k, lease)
           \/ \E p \in Clients, k \in Keys, r \in Ids, lease \in Leases : Update(p, k, r, lease)
           \/ \E p \in Clients, k \in Keys, r \in 0..MaxId : Delete(p, k, r)
           \/ \E i \in Ids : Expire(i)
    PROVE  \E p \in Procs, k \in Keys, row \in Rows :
              /\ Decide(p, row)
              /\ row.key = k
              /\ \/ RowsOf(k) = {} /\ row.prev = 0 /\ row.create
                 \/ /\ row.prev \in Ids /\ Newest(k, row.prev)
                    /\ row.create \/ row.createRevision = CreateRevision(row.prev)
<1>1. CASE \E p \in Clients, k \in Keys, lease \in Leases : Create(p, k, lease)
  <2>1. \A k, i : Newest(k, i) => i \in Ids
    BY Numbers DEF Newest, RowsOf
  <2> QED
    BY <1>1, <2>1, CreateDecides DEF Procs
<1>2. CASE \E p \in Clients, k \in Keys, r \in Ids, lease \in Leases : Update(p, k, r, lease)
  BY <1>2, UpdateDecides DEF Procs
<1>3. CASE \E p \in Clients, k \in Keys, r \in 0..MaxId : Delete(p, k, r)
  BY <1>3, DeleteDecides DEF Procs
<1>4. CASE \E i \in Ids : Expire(i)
  <2>1. PICK i \in Ids : i \in stored /\ Delete(Ttl, asked[i].key, i)
    BY <1>4 DEF Expire
  <2>2. asked[i].key \in Keys
    BY <2>1, Numbers DEF Rows
  <2> QED
    BY <2>1, <2>2, DeleteDecides DEF Procs
<1> QED
  BY <1>1, <1>2, <1>3, <1>4

-----------------------------------------------------------------------------
(* Types.                                                                   *)

\* Every step keeps the types.
LEMMA NextTypeOK == TypeOK /\ [Next]_vars => TypeOK'
<1> SUFFICES ASSUME TypeOK, [Next]_vars PROVE TypeOK'
  OBVIOUS
<1>0. MaxId \in Nat /\ maxid \in Nat
  BY Numbers
<1>1. ASSUME NEW p \in Procs, AppendReserve(p) PROVE TypeOK'
  <2>1. /\ maxid + 1 \in Ids /\ maxid + 1 \in 0..MaxId /\ maxid' = maxid + 1
        /\ maxid + 1 \in 1..maxid' /\ \A i \in 0..maxid : i \in 0..maxid'
        /\ \A i \in 1..maxid : i \in 1..maxid'
    BY <1>0, <1>1 DEF AppendReserve, Ids
  <2>2. op[p].row \in Rows /\ op[p].row # NoRow
    BY <1>1, LogAssumption DEF AppendReserve, TypeOK
  <2>3. [pc |-> "wait", id |-> maxid + 1, row |-> NoRow, seen |-> {}] \in Ops
    BY <2>1 DEF Ops
  <2>4. op' \in [Procs -> Ops]
    BY <1>1, <2>3 DEF AppendReserve, TypeOK
  <2>5. \A q \in Procs : op'[q] = op[q] \/ (op'[q].pc = "wait" /\ op'[q].id = maxid + 1)
    BY <1>1 DEF AppendReserve, TypeOK
  <2>6. asked' \in [Ids -> Rows \cup {NoRow}]
    BY <1>1, <2>1, <2>2 DEF AppendReserve, TypeOK
  <2>7. \A i \in Ids : i <= maxid' <=> asked'[i] # NoRow
    <3> TAKE i \in Ids
    <3>1. i \in Nat
      BY <1>0 DEF Ids
    <3>2. CASE i = maxid + 1
      BY <1>0, <1>1, <2>1, <2>2, <3>2 DEF AppendReserve, TypeOK
    <3>3. CASE i # maxid + 1
      <4>1. asked'[i] = asked[i]
        BY <1>1, <3>3 DEF AppendReserve, TypeOK
      <4>2. i <= maxid' <=> i <= maxid
        BY <1>0, <2>1, <3>1, <3>3
      <4> QED
        BY <4>1, <4>2 DEF TypeOK
    <3> QED
      BY <3>2, <3>3
  <2>8. op[p].seen \in SUBSET Ids
    BY <1>1 DEF AppendReserve, TypeOK, Ops
  <2>9. basis' \in [Ids -> SUBSET Ids]
    BY <1>1, <2>1, <2>8 DEF AppendReserve, TypeOK
  <2>10. /\ pending' \in SUBSET (1..maxid') /\ stored' \in SUBSET (1..maxid')
         /\ gap' \in 0..maxid' /\ done' \in SUBSET (1..maxid') /\ filled' \in SUBSET (1..maxid')
    BY <1>1, <2>1 DEF AppendReserve, TypeOK, fill
  <2> QED
    BY <2>1, <2>4, <2>5, <2>6, <2>7, <2>9, <2>10 DEF TypeOK
<1>2. ASSUME NEW i \in Ids, AppendWrite(i) PROVE TypeOK'
  BY <1>2 DEF AppendWrite, TypeOK, fill
<1>3. ASSUME NEW p \in Procs, AppendReturn(p) \/ AppendDeadline(p) PROVE TypeOK'
  <2>1. Idle \in Ops
    BY LogAssumption DEF Idle, Ops
  <2>2. op' \in [Procs -> Ops]
    BY <1>3, <2>1 DEF AppendReturn, AppendDeadline, TypeOK
  <2>3. \A q \in Procs : op'[q] = op[q] \/ op'[q].pc = "idle"
    BY <1>3 DEF AppendReturn, AppendDeadline, TypeOK, Idle
  <2>4. done' \in SUBSET (1..maxid)
    BY <1>3 DEF AppendReturn, AppendDeadline, TypeOK
  <2> QED
    BY <1>3, <2>2, <2>3, <2>4 DEF AppendReturn, AppendDeadline, TypeOK, log, fill
<1>4. CASE UNCHANGED vars
  BY <1>4 DEF vars, log, fill, TypeOK
<1>5. ASSUME NEW i \in Ids, PollGap(i) PROVE TypeOK'
  <2>1. i \in 0..maxid
    <3>1. PICK j \in stored \cup filled : j > i
      BY <1>5 DEF PollGap
    <3>2. j \in 1..maxid /\ i \in Nat
      BY Numbers DEF Ids
    <3> QED
      BY <1>0, <3>1, <3>2
  <2> QED
    BY <1>5, <2>1 DEF PollGap, TypeOK, log
<1>6. CASE Fill
  <2>1. gap \in 1..maxid
    BY <1>0, <1>6 DEF Fill, TypeOK
  <2>2. gap' \in 0..maxid
    BY <1>0, <1>6 DEF Fill
  <2> QED
    BY <1>6, <2>1, <2>2 DEF Fill, TypeOK
<1> QED
  BY <1>1, <1>2, <1>3, <1>4, <1>5, <1>6, RequestDecides, DecideType DEF Next

\* The log starts empty.
LEMMA InitTypeOK == Init => TypeOK
<1>1. Idle \in Ops /\ Idle.pc = "idle"
  BY LogAssumption DEF Idle, Ops
<1>2. Init => \A p \in Procs : op[p] = Idle
  BY DEF Init
<1>3. \A i \in Ids : ~ (i <= 0)
  BY LogAssumption DEF Ids
<1>4. 0 \in 0..MaxId /\ 0 \in 0..0
  BY LogAssumption
<1> QED
  BY <1>1, <1>2, <1>3, <1>4 DEF Init, TypeOK

\* Type correctness: every appended row is a row of the schema and every
\* waiting request has an id.
THEOREM TypeCorrect == Spec => []TypeOK
BY InitTypeOK, NextTypeOK, PTL DEF Spec

-----------------------------------------------------------------------------
(* The log.                                                                 *)

\* What holds of a row stays true while ids are handed out, rows written that
\* were not answered for, and rows replaced by fillers.
LEMMA SoundStable ==
    ASSUME TypeOK, NEW row, NEW seen, Sound(row, seen),
           maxid' \in Nat, maxid <= maxid',
           \A i \in 1..maxid : asked'[i] = asked[i],
           stored \cup filled \subseteq stored' \cup filled',
           \A i \in seen : i \in stored' => i \in stored
    PROVE  Sound(row, seen)'
<1>1. maxid \in Nat /\ \A i \in 1..maxid : i \in 1..maxid'
  BY Numbers
<1>2. stored \cup filled \subseteq 1..maxid
  BY DEF TypeOK
<1>3. Grounded(row)'
  BY <1>1, <1>2 DEF Sound, Grounded
<1>4. Newer(row, seen)'
  BY <1>2 DEF Sound, Newer
<1> QED
  BY <1>3, <1>4 DEF Sound

\* A decision is sound: it replaces the newest row that can be read.
LEMMA DecideSound ==
    ASSUME TypeOK, LogInv, NEW k \in Keys, NEW row \in Rows, row.key = k,
           \/ RowsOf(k) = {} /\ row.prev = 0 /\ row.create
           \/ /\ row.prev \in Ids /\ Newest(k, row.prev)
              /\ row.create \/ row.createRevision = CreateRevision(row.prev)
    PROVE  row.prev <= maxid /\ Sound(row, done)
<1>1. maxid \in Nat
  BY Numbers
<1>2. CASE RowsOf(k) = {} /\ row.prev = 0 /\ row.create
  BY <1>1, <1>2 DEF Sound, Grounded, Newer, RowsOf
<1>3. CASE /\ row.prev \in Ids /\ Newest(k, row.prev)
           /\ row.create \/ row.createRevision = CreateRevision(row.prev)
  <2>1. row.prev \in stored /\ row.prev \in 1..maxid /\ asked[row.prev].key = k
    BY <1>3 DEF Newest, RowsOf, TypeOK
  <2>2. row.prev <= maxid
    BY <1>1, <2>1
  <2>3. Newer(row, done)
    BY <1>3 DEF Newer, Newest, RowsOf
  <2>4. ASSUME ~ row.create
        PROVE  /\ row.createRevision \in stored \cup filled
               /\ asked[row.createRevision].create /\ asked[row.createRevision].key = k
    <3>1. CASE asked[row.prev].create
      BY <1>3, <2>1, <2>4, <3>1 DEF CreateRevision
    <3>2. CASE ~ asked[row.prev].create
      <4>1. Grounded(asked[row.prev])
        BY <2>1 DEF LogInv, Sound
      <4> QED
        BY <1>3, <2>1, <2>4, <3>2, <4>1 DEF CreateRevision, Grounded
    <3> QED
      BY <3>1, <3>2
  <2> QED
    BY <2>1, <2>2, <2>3, <2>4 DEF Sound, Grounded
<1> QED
  BY <1>2, <1>3

\* The empty log.
LEMMA InitLogInv == Init => LogInv
<1>1. Idle.pc = "idle" /\ 1..0 = {}
  BY DEF Idle
<1>2. Init => \A p \in Procs : op[p] = Idle
  BY DEF Init
<1> QED
  BY <1>1, <1>2 DEF Init, LogInv

\* A request's decision leaves the log alone.
LEMMA DecideKeeps ==
    ASSUME TypeOK, LogInv, NEW p \in Procs, NEW row \in Rows, Decide(p, row),
           row.prev <= maxid, Sound(row, done)
    PROVE  LogInv'
<1>1. \A q \in Procs :
        op'[q] = op[q] \/ (op'[q].pc = "append" /\ op'[q].row = row /\ op'[q].seen = done)
  BY DEF Decide, TypeOK
<1>2. UNCHANGED <<maxid, asked, pending, stored, basis, filled, done>>
  BY DEF Decide, log, fill
<1>3. \A r, seen : Sound(r, seen)' <=> Sound(r, seen)
  BY <1>2 DEF Sound, Grounded, Newer
<1>4. \A q \in Procs : op'[q].pc = "append" =>
        /\ op'[q].seen \subseteq done /\ op'[q].row.prev <= maxid
        /\ Sound(op'[q].row, op'[q].seen)
  BY <1>1 DEF LogInv
<1> QED
  BY <1>2, <1>3, <1>4 DEF LogInv, Sound, Grounded, Newer

\* Reserving an id.
LEMMA ReserveKeeps ==
    ASSUME TypeOK, TypeOK', LogInv, NEW p \in Procs, AppendReserve(p)
    PROVE  LogInv'
<1>1. /\ maxid \in Nat /\ maxid' = maxid + 1 /\ maxid + 1 \in Ids
      /\ \A i \in 1..maxid' : i \in 1..maxid \/ i = maxid + 1
      /\ \A i \in 1..maxid : i # maxid + 1 /\ i \in Ids
  BY Numbers DEF AppendReserve, Ids
<1>2. /\ UNCHANGED <<stored, filled, done>> /\ pending' = pending \cup {maxid + 1}
  BY DEF AppendReserve, fill
<1>3. \A i \in Ids : i # maxid + 1 => asked'[i] = asked[i] /\ basis'[i] = basis[i]
  BY DEF AppendReserve, TypeOK
<1>4. asked'[maxid + 1] = op[p].row /\ basis'[maxid + 1] = op[p].seen
  BY <1>1 DEF AppendReserve, TypeOK
<1>5. \A q \in Procs : op'[q].pc = "append" => op'[q] = op[q]
  BY DEF AppendReserve, TypeOK
<1>6. /\ op[p].pc = "append" /\ op[p].seen \subseteq done /\ op[p].row.prev <= maxid
      /\ Sound(op[p].row, op[p].seen) /\ op[p].row \in Rows
  BY DEF AppendReserve, LogInv, TypeOK
<1>7. ASSUME NEW row, NEW seen, Sound(row, seen) PROVE Sound(row, seen)'
  <2>1. maxid' \in Nat /\ maxid <= maxid' /\ \A i \in 1..maxid : asked'[i] = asked[i]
    BY <1>1, <1>3
  <2> QED
    BY <1>2, <1>7, <2>1, SoundStable
<1>8. maxid + 1 \notin stored /\ maxid + 1 \notin done
  BY <1>1 DEF TypeOK
<1>9. /\ pending' \cap stored' = {} /\ pending' \cap done' = {}
      /\ \A i \in Ids : basis'[i] \subseteq done'
      /\ \A q \in Procs : op'[q].pc = "append" => op'[q].seen \subseteq done'
  BY <1>2, <1>3, <1>4, <1>5, <1>6, <1>8 DEF LogInv
<1>10. ASSUME NEW i \in 1..maxid' PROVE asked'[i].prev < i /\ Sound(asked[i], basis[i])'
  <2>1. CASE i = maxid + 1
    <3>1. op[p].row.prev < maxid + 1
      BY <1>1, <1>6, Numbers
    <3>2. ASSUME NEW r, r = op[p].row, NEW seen, seen = op[p].seen PROVE Sound(asked[i], basis[i])'
      <4>1. Sound(r, seen)'
        BY <1>6, <1>7, <3>2
      <4>2. asked'[i] = r /\ basis'[i] = seen
        BY <1>4, <2>1, <3>2
      <4> QED
        BY <4>1, <4>2 DEF Sound, Grounded, Newer
    <3> QED
      BY <1>4, <2>1, <3>1, <3>2
  <2>2. CASE i \in 1..maxid
    <3>1. asked'[i] = asked[i] /\ basis'[i] = basis[i]
      BY <1>1, <1>3, <2>2
    <3>2. asked[i].prev < i /\ Sound(asked[i], basis[i])
      BY <2>2 DEF LogInv
    <3> QED
      BY <1>7, <3>1, <3>2 DEF Sound, Grounded, Newer
  <2> QED
    BY <1>1, <2>1, <2>2
<1>11. ASSUME NEW q \in Procs, op'[q].pc = "append"
       PROVE  op'[q].row.prev <= maxid' /\ Sound(op[q].row, op[q].seen)'
  <2>1. op'[q] = op[q] /\ op[q].pc = "append" /\ op[q].row \in Rows
    BY <1>5, <1>11 DEF TypeOK
  <2>2. op[q].row.prev <= maxid /\ Sound(op[q].row, op[q].seen)
    BY <2>1 DEF LogInv
  <2>3. op[q].row.prev <= maxid'
    BY <1>1, <2>1, <2>2, Numbers
  <2>4. ASSUME NEW r, r = op[q].row, NEW seen, seen = op[q].seen PROVE Sound(op[q].row, op[q].seen)'
    <3>1. Sound(r, seen)'
      BY <1>7, <2>2, <2>4
    <3>2. op'[q].row = r /\ op'[q].seen = seen
      BY <2>1, <2>4
    <3> QED
      BY <3>1, <3>2 DEF Sound, Grounded, Newer
  <2> QED
    BY <2>1, <2>3, <2>4
<1> QED
  BY <1>9, <1>10, <1>11 DEF LogInv

\* A step that hands out no id and decides nothing.
LEMMA LogKeeps ==
    ASSUME TypeOK, LogInv, UNCHANGED <<maxid, asked, basis>>,
           \A q \in Procs : op'[q].pc = "append" => op'[q] = op[q],
           done \subseteq done', pending' \subseteq pending,
           pending' \cap stored' = {}, pending' \cap done' = {},
           stored \cup filled \subseteq stored' \cup filled',
           \A i \in done : i \in stored' => i \in stored
    PROVE  LogInv'
<1>1. maxid \in Nat
  BY Numbers
<1>2. ASSUME NEW row, NEW seen, seen \subseteq done, Sound(row, seen) PROVE Sound(row, seen)'
  BY <1>1, <1>2, SoundStable
<1>3. /\ \A i \in Ids : basis'[i] \subseteq done'
      /\ \A q \in Procs : op'[q].pc = "append" => op'[q].seen \subseteq done'
  BY DEF LogInv
<1>4. ASSUME NEW i \in 1..maxid' PROVE asked'[i].prev < i /\ Sound(asked[i], basis[i])'
  <2>1. i \in Ids /\ asked[i].prev < i /\ Sound(asked[i], basis[i]) /\ basis[i] \subseteq done
    BY Numbers DEF LogInv
  <2> QED
    BY <1>2, <2>1 DEF Sound, Grounded, Newer
<1>5. ASSUME NEW q \in Procs, op'[q].pc = "append"
      PROVE  op'[q].row.prev <= maxid' /\ Sound(op[q].row, op[q].seen)'
  <2>1. op'[q] = op[q] /\ op[q].row.prev <= maxid /\ op[q].seen \subseteq done
        /\ Sound(op[q].row, op[q].seen)
    BY <1>5 DEF LogInv
  <2> QED
    BY <1>2, <2>1 DEF Sound, Grounded, Newer
<1> QED
  BY <1>3, <1>4, <1>5 DEF LogInv

\* Writing a row, or losing it: nobody has been answered for it yet.
LEMMA WriteKeeps ==
    ASSUME TypeOK, LogInv, NEW j \in Ids, AppendWrite(j)
    PROVE  LogInv'
<1>1. /\ j \in pending /\ stored' \in {stored, stored \cup {j}} /\ pending' = pending \ {j}
      /\ UNCHANGED <<maxid, asked, basis, filled, op, done>>
  BY DEF AppendWrite, fill
<1>2. pending \cap stored = {} /\ pending \cap done = {}
  BY DEF LogInv
<1> QED
  BY <1>1, <1>2, LogKeeps

\* Answering a request, or giving up on it.
LEMMA ReturnKeeps ==
    ASSUME TypeOK, LogInv, NEW p \in Procs, AppendReturn(p) \/ AppendDeadline(p)
    PROVE  LogInv'
<1>1. \A q \in Procs : op'[q].pc = "append" => op'[q] = op[q]
  BY DEF AppendReturn, AppendDeadline, TypeOK, Idle
<1>2. UNCHANGED <<maxid, asked, pending, stored, basis, filled>>
  BY DEF AppendReturn, AppendDeadline, log, fill
<1>3. done \subseteq done' /\ pending \cap done' = {} /\ pending \cap stored = {}
  BY DEF AppendReturn, AppendDeadline, LogInv
<1> QED
  BY <1>1, <1>2, <1>3, LogKeeps

\* The poll loop: a filler takes the place of a row and brings none.
LEMMA PollKeeps ==
    ASSUME TypeOK, LogInv, Fill \/ \E i \in Ids : PollGap(i)
    PROVE  LogInv'
<1>1. /\ UNCHANGED <<maxid, asked, basis, op, done, pending>>
      /\ stored' \subseteq stored /\ stored \cup filled \subseteq stored' \cup filled'
  BY DEF Fill, PollGap, log
<1>2. pending \cap stored = {} /\ pending \cap done = {}
  BY DEF LogInv
<1> QED
  BY <1>1, <1>2, LogKeeps

\* The inductive invariant.
LEMMA LogInvariant == Spec => [](TypeOK /\ LogInv)
<1>1. Init => TypeOK /\ LogInv
  BY InitTypeOK, InitLogInv
<1>2. TypeOK /\ LogInv /\ [Next]_vars => (TypeOK /\ LogInv)'
  <2> SUFFICES ASSUME TypeOK, LogInv, [Next]_vars PROVE LogInv'
    BY NextTypeOK
  <2>1. CASE \/ \E p \in Clients, k \in Keys, lease \in Leases : Create(p, k, lease)
             \/ \E p \in Clients, k \in Keys, r \in Ids, lease \in Leases : Update(p, k, r, lease)
             \/ \E p \in Clients, k \in Keys, r \in 0..MaxId : Delete(p, k, r)
             \/ \E i \in Ids : Expire(i)
    BY <2>1, RequestDecides, DecideSound, DecideKeeps
  <2>2. CASE \E p \in Procs : AppendReserve(p)
    BY <2>2, ReserveKeeps, NextTypeOK
  <2>3. CASE \E i \in Ids : AppendWrite(i)
    BY <2>3, WriteKeeps
  <2>4. CASE \E p \in Procs : AppendReturn(p) \/ AppendDeadline(p)
    BY <2>4, ReturnKeeps
  <2>5. CASE UNCHANGED vars
    BY <2>5 DEF vars, log, fill, LogInv, Sound, Grounded, Newer
  <2>6. CASE Fill \/ \E i \in Ids : PollGap(i)
    BY <2>6, PollKeeps
  <2> QED
    BY <2>1, <2>2, <2>3, <2>4, <2>5, <2>6 DEF Next
<1> QED
  BY <1>1, <1>2, PTL DEF Spec

\* Requests that follow one another never replace the same revision: the row
\* of an answered request, unless it is gone, is there to be read, and whoever
\* reads it builds on it or on a newer one.
THEOREM NoLostUpdate == Spec => []NoLostUpdateInSequence
<1>1. ASSUME TypeOK, LogInv PROVE NoLostUpdateInSequence
  <2> SUFFICES ASSUME NEW i \in 1..maxid, NEW j \in 1..maxid, SameBasis(i, j), i \in basis[j],
                      i \notin Gone
               PROVE  FALSE
    BY DEF NoLostUpdateInSequence
  <2>1. i \in Ids /\ j \in Ids /\ asked[i] \in Rows /\ i \in Nat /\ asked[i].prev \in Nat
    BY <1>1, Numbers
  <2>2. i \in done /\ i \in stored
    BY <1>1, <2>1 DEF LogInv, Gone
  <2>3. i <= asked[j].prev
    BY <1>1, <2>2 DEF LogInv, Sound, Newer, SameBasis
  <2>4. asked[i].prev < i /\ asked[i].prev = asked[j].prev
    BY <1>1 DEF LogInv, SameBasis
  <2> QED
    BY <2>1, <2>3, <2>4
<1> QED
  BY <1>1, LogInvariant, PTL

\* The create revision of a value is the id of a row that created its key, and
\* that row is stored unless a filler has replaced it.
THEOREM CreateRevisions == Spec => []CreateRevisionIsCreate
<1>1. ASSUME TypeOK, LogInv PROVE CreateRevisionIsCreate
  BY <1>1 DEF CreateRevisionIsCreate, LogInv, Sound, Grounded
<1> QED
  BY <1>1, LogInvariant, PTL
=============================================================================
