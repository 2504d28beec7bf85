------------------------- MODULE CommonSubqueryProofs -------------------------
(***************************************************************************)
(* Proofs about CommonSubquery, for every set of names, every number of ids *)
(* and every content of the reader.                                         *)
(***************************************************************************)
EXTENDS CommonSubquery, TLAPS

\* A sample is an entry of the map, and its id is not the 0 of a missing one.
LEMMA RowIsEntry ==
    ASSUME NEW r \in Rows
    PROVE  /\ r \in Entries
           /\ r.id \in 1..MaxId /\ r.id # 0
           /\ r.name \in Names
           /\ r.valid \in BOOLEAN
BY SubqueryAssumption DEF Rows, Entries

\* Cutting a vector only removes rows.
LEMMA ResizeSubset ==
    ASSUME NEW S, NEW l
    PROVE  Resize(S, l) \subseteq S
BY DEF Resize

\* The handler starts in a state of the right type.
LEMMA InitTypeOK == Init => TypeOK
<1> SUFFICES ASSUME Init PROVE TypeOK
  OBVIOUS
<1>1. reader \in SUBSET Rows /\ KeyedById(reader)
  <2>1. PICK ids \in SUBSET (1..MaxId) : \E f \in [ids -> Cells] :
            reader = {Sample(i, f[i]) : i \in ids}
    BY DEF Init
  <2>2. PICK f \in [ids -> Cells] : reader = {Sample(i, f[i]) : i \in ids}
    BY <2>1
  <2>3. \A i \in ids : Sample(i, f[i]) \in Rows
    BY DEF Sample, Cells, Rows
  <2>4. \A i \in ids : Sample(i, f[i]).id = i
    BY DEF Sample
  <2> QED
    BY <2>2, <2>3, <2>4 DEF KeyedById
<1>2. result_map \in [Names -> Entries]
  BY SubqueryAssumption DEF Init, NoEntry, Entries
<1>3. pc \in {"subquery01", "read", "scan", "done"}
  BY DEF Init
<1>4. after \in 0..MaxId
  BY SubqueryAssumption DEF Init
<1> QED
  BY <1>1, <1>2, <1>3, <1>4 DEF Init, TypeOK

\* Every step of the handler keeps the type.
LEMMA NextTypeOK == TypeOK /\ [Next]_vars => TypeOK'
<1> SUFFICES ASSUME TypeOK, [Next]_vars PROVE TypeOK'
  OBVIOUS
<1>0. reader \in SUBSET Rows
  BY DEF TypeOK
<1>1. CASE Subquery01
  <2>1. after' \in 0..MaxId
    <3>1. \A r \in reader : r.id \in 0..MaxId
      BY <1>0, RowIsEntry DEF Entries
    <3> QED
      BY <1>1, <3>1, SubqueryAssumption DEF Subquery01
  <2> QED
    BY <1>1, <2>1 DEF Subquery01, TypeOK, KeyedById
<1>2. CASE Read
  <2>1. seen' \in SUBSET reader
    BY <1>2 DEF Read
  <2>2. CASE query.kind = "q01"
    <3>1. result' \subseteq {r \in seen' : r.valid}
      BY <1>2, <2>2, ResizeSubset DEF Read
    <3>2. result' \in SUBSET Entries
      BY <3>1, <2>1, <1>0, RowIsEntry
    <3> QED
      BY <1>2, <2>1, <2>2, <3>2 DEF Read, TypeOK, KeyedById
  <2>3. CASE query.kind # "q01"
    BY <1>2, <2>1, <2>3 DEF Read, TypeOK, KeyedById
  <2> QED
    BY <2>2, <2>3
<1>3. ASSUME NEW r \in todo, Iterate(r) PROVE TypeOK'
  <2>1. r \in Entries /\ r.name \in Names
    BY <1>0, RowIsEntry DEF TypeOK
  <2>2. result_map' \in [Names -> Entries]
    BY <1>3, <2>1 DEF Iterate, TypeOK
  <2>3. visible' \in [Names -> BOOLEAN]
    BY <1>3, <2>1 DEF Iterate, TypeOK
  <2> QED
    BY <1>3, <2>2, <2>3 DEF Iterate, TypeOK, KeyedById
<1>4. CASE Collect
  <2>1. result' \subseteq {result_map[k] : k \in {n \in Names : result_map[n].id # 0 /\ visible[n]}}
    BY <1>4, ResizeSubset DEF Collect
  <2>2. result' \in SUBSET Entries
    BY <2>1 DEF TypeOK
  <2> QED
    BY <1>4, <2>2 DEF Collect, TypeOK, KeyedById
<1>5. CASE UNCHANGED vars
  BY <1>5 DEF vars, TypeOK, KeyedById
<1> QED
  BY <1>1, <1>2, <1>3, <1>4, <1>5 DEF Next

\* Type correctness of the queries: the loop of query_common_subquery only
\* touches samples that dds_read returned, and the map only gets rows.
THEOREM TypeCorrect == Spec => []TypeOK
<1>1. Init => TypeOK
  BY InitTypeOK
<1>2. TypeOK /\ [Next]_vars => TypeOK'
  BY NextTypeOK
<1> QED
  BY <1>1, <1>2, PTL DEF Spec

-----------------------------------------------------------------------------
(* The loop and the result.                                                 *)

\* The bodies of the filters depend on the request and on after only.
LEMMA FilterStable ==
    ASSUME UNCHANGED <<query, after>>, NEW r
    PROVE  filter(r)' = filter(r)
BY DEF filter, filter_query01, filter_query04, filter_query09_subquery02, filter_query11

\* The rows of the start key only change with the reader and the request.
LEMMA StartRowsStable ==
    ASSUME UNCHANGED <<reader, query>>
    PROVE  StartRows' = StartRows
BY DEF StartRows

\* Before the first step nothing has been read.
LEMMA InitSubqueryInv == Init => SubqueryInv
<1> SUFFICES ASSUME Init PROVE SubqueryInv
  OBVIOUS
<1>1. ReadInv
  BY DEF Init, ReadInv
<1>2. MapInv
  BY DEF Init, MapInv, NoEntry
<1>3. CollectInv
  BY DEF Init, CollectInv
<1>4. NewestPerName
  BY DEF Init, NewestPerName, NoEntry
<1> QED
  BY <1>1, <1>2, <1>3, <1>4 DEF SubqueryInv

\* Subquery 1 of query 9 leaves the largest id of the start key.
LEMMA Subquery01Keeps ==
    ASSUME TypeOK, SubqueryInv, Subquery01
    PROVE  SubqueryInv'
<1> USE DEF SubqueryInv
<1>1. ReadInv'
  <2>1. PICK m : LET ids == {r.id : r \in {s \in reader : s.valid /\ filter_query09_subquery01(s)}}
                 IN  m \in ids \cup {0} /\ (\A k \in ids : k <= m) /\ after' = m
    BY DEF Subquery01
  <2>2. StartRows = {s \in reader : s.valid /\ filter_query09_subquery01(s)}
    BY DEF StartRows, filter_query09_subquery01
  <2>3. after' \in {r.id : r \in StartRows} \cup {0} /\ \A s \in StartRows : s.id <= after'
    BY <2>1, <2>2
  <2>4. \A s \in StartRows : s.id \in 1..MaxId
    BY RowIsEntry DEF StartRows, TypeOK
  <2>5. StartRows # {} => \E s \in StartRows : s.id = after'
    BY <2>3, <2>4, SubqueryAssumption
  <2>6. StartRows' = StartRows
    BY StartRowsStable DEF Subquery01
  <2> QED
    BY <2>3, <2>5, <2>6 DEF Subquery01, ReadInv
<1>2. MapInv' /\ CollectInv' /\ NewestPerName'
  BY DEF Subquery01, MapInv, CollectInv, NewestPerName
<1> QED
  BY <1>1, <1>2

\* dds_read: nothing has been through the loop yet.
LEMMA ReadKeeps ==
    ASSUME TypeOK, SubqueryInv, Read
    PROVE  SubqueryInv'
<1> USE DEF SubqueryInv
<1>1. StartRows' = StartRows
  BY StartRowsStable DEF Read
<1>2. seen' = {r \in reader : filter(r)'}
  BY FilterStable DEF Read
<1>3. ReadInv'
  <2>1. CASE query.kind = "q01"
    BY <1>1, <1>2, <2>1 DEF Read, ReadInv
  <2>2. CASE query.kind # "q01"
    BY <1>1, <1>2, <2>2 DEF Read, ReadInv
  <2> QED
    BY <2>1, <2>2
<1>4. MapInv' /\ CollectInv'
  BY DEF Read, MapInv, CollectInv
<1>5. NewestPerName'
  <2>1. CASE query.kind = "q01"
    BY <2>1 DEF Read, NewestPerName
  <2>2. CASE query.kind # "q01"
    <3>1. seen = {} /\ todo = {}
      BY DEF Read, ReadInv
    <3>2. \A k \in Names : result_map[k].id = 0
      BY <2>2, <3>1 DEF NewestPerName
    <3>3. seen' \ todo' = {}
      BY <2>2 DEF Read
    <3> QED
      BY <3>2, <3>3 DEF Read, NewestPerName
  <2> QED
    BY <2>1, <2>2
<1> QED
  BY <1>3, <1>4, <1>5

\* One turn of the loop keeps the map at the newest row of each name.
LEMMA IterateKeeps ==
    ASSUME TypeOK, SubqueryInv, NEW r \in todo, Iterate(r)
    PROVE  SubqueryInv'
<1> USE DEF SubqueryInv
<1>0. /\ r \in Rows /\ r.id \in 1..MaxId /\ r.name \in Names /\ r.valid \in BOOLEAN
      /\ r \in seen
      /\ result_map \in [Names -> Entries]
      /\ visible \in [Names -> BOOLEAN]
  BY RowIsEntry DEF TypeOK
<1>1. ReadInv'
  <2>1. StartRows' = StartRows
    BY StartRowsStable DEF Iterate
  <2>2. {s \in reader : filter(s)} = {s \in reader : filter(s)'}
    BY FilterStable DEF Iterate
  <2> QED
    BY <2>1, <2>2 DEF Iterate, ReadInv
<1>2. MapInv'
  BY <1>0 DEF Iterate, MapInv
<1>3. CollectInv'
  BY DEF Iterate, CollectInv
<1>4. NewestPerName'
  <2> SUFFICES ASSUME query.kind # "q01", NEW k \in Names
               PROVE  LET S == {s \in seen \ todo' : s.valid /\ s.name = k} IN
                      IF S = {} THEN result_map'[k].id = 0
                      ELSE result_map'[k] \in S /\ \A s \in S : s.id <= result_map'[k].id
    BY DEF NewestPerName, Iterate
  <2> DEFINE Done == {s \in seen \ todo : s.valid /\ s.name = k}
             DoneNext == {s \in seen \ todo' : s.valid /\ s.name = k}
  <2>1. IF Done = {} THEN result_map[k].id = 0
        ELSE result_map[k] \in Done /\ \A s \in Done : s.id <= result_map[k].id
    BY DEF NewestPerName
  <2>2. todo' = todo \ {r}
    BY DEF Iterate
  <2>3. \A s \in Done : s.id \in 1..MaxId
    BY RowIsEntry DEF TypeOK
  <2>4. CASE r.valid /\ r.name = k
    <3>1. DoneNext = Done \cup {r}
      BY <1>0, <2>2, <2>4
    <3>2. CASE result_map[k].id = 0
      <4>1. Done = {}
        BY <2>1, <2>3, <3>2, SubqueryAssumption
      <4>2. result_map'[k] = r
        BY <1>0, <2>4, <3>2 DEF Iterate
      <4> QED
        BY <1>0, <3>1, <4>1, <4>2, SubqueryAssumption
    <3>3. CASE result_map[k].id # 0 /\ r.id > result_map[k].id
      <4>1. result_map'[k] = r
        BY <1>0, <2>4, <3>3 DEF Iterate
      <4>2. result_map[k] \in Done /\ \A s \in Done : s.id <= result_map[k].id
        BY <2>1, <3>3
      <4> QED
        BY <1>0, <2>3, <3>1, <3>3, <4>1, <4>2, SubqueryAssumption
    <3>4. CASE result_map[k].id # 0 /\ ~ (r.id > result_map[k].id)
      <4>1. result_map' = result_map
        BY <1>0, <2>4, <3>4 DEF Iterate
      <4>2. result_map[k] \in Done /\ \A s \in Done : s.id <= result_map[k].id
        BY <2>1, <3>4
      <4> QED
        BY <1>0, <2>3, <3>1, <3>4, <4>1, <4>2, SubqueryAssumption
    <3> QED
      BY <3>2, <3>3, <3>4
  <2>5. CASE ~ (r.valid /\ r.name = k)
    <3>1. DoneNext = Done
      BY <2>2, <2>5
    <3>2. result_map'[k] = result_map[k]
      BY <1>0, <2>5 DEF Iterate
    <3> QED
      BY <2>1, <3>1, <3>2
  <2> QED
    BY <2>4, <2>5
<1> QED
  BY <1>1, <1>2, <1>3, <1>4

\* Copying the map out changes nothing else.
LEMMA CollectKeeps ==
    ASSUME TypeOK, SubqueryInv, Collect
    PROVE  SubqueryInv'
<1> USE DEF SubqueryInv
<1>1. ReadInv'
  <2>1. StartRows' = StartRows
    BY StartRowsStable DEF Collect
  <2>2. {s \in reader : filter(s)} = {s \in reader : filter(s)'}
    BY FilterStable DEF Collect
  <2> QED
    BY <2>1, <2>2 DEF Collect, ReadInv
<1>2. MapInv' /\ NewestPerName'
  BY DEF Collect, MapInv, NewestPerName
<1>3. CollectInv'
  BY DEF Collect, CollectInv
<1> QED
  BY <1>1, <1>2, <1>3

\* A stuttering step changes nothing.
LEMMA StutterKeeps ==
    ASSUME SubqueryInv, UNCHANGED vars
    PROVE  SubqueryInv'
<1> USE DEF SubqueryInv, vars
<1>1. StartRows' = StartRows
  BY StartRowsStable
<1>2. {s \in reader : filter(s)} = {s \in reader : filter(s)'}
  BY FilterStable
<1>3. ReadInv'
  BY <1>1, <1>2 DEF ReadInv
<1>4. MapInv' /\ CollectInv' /\ NewestPerName'
  BY DEF MapInv, CollectInv, NewestPerName
<1> QED
  BY <1>3, <1>4

\* The loop, what it reads and what it returns, in one inductive invariant.
LEMMA SubqueryInvariant == Spec => [](TypeOK /\ SubqueryInv)
<1>1. Init => TypeOK /\ SubqueryInv
  BY InitTypeOK, InitSubqueryInv
<1>2. TypeOK /\ SubqueryInv /\ [Next]_vars => (TypeOK /\ SubqueryInv)'
  <2> SUFFICES ASSUME TypeOK, SubqueryInv, [Next]_vars PROVE SubqueryInv'
    BY NextTypeOK
  <2> QED
    BY Subquery01Keeps, ReadKeeps, IterateKeeps, CollectKeeps, StutterKeeps DEF Next
<1> QED
  BY <1>1, <1>2, PTL DEF Spec

\* The loop of query_common_subquery is GROUP BY name with MAX(id): whatever
\* the order of the samples, the map has the newest row of every name.
THEOREM NewestPerNameHolds == Spec => []NewestPerName
<1>1. TypeOK /\ SubqueryInv => NewestPerName
  BY DEF SubqueryInv
<1> QED
  BY <1>1, SubqueryInvariant, PTL

\* Once the loop is through, the map is the set of the rows that SQL's join
\* with the groups' maxima selects.
LEMMA MapIsMaxOfGroups ==
    ASSUME TypeOK, SubqueryInv, pc = "done", query.kind # "q01",
           query.kind = "q09" => StartRows # {}
    PROVE  {result_map[k] : k \in {n \in Names : result_map[n].id # 0}}
             = {r \in Selected : MaxOfGroup(r)}
<1> USE DEF SubqueryInv
<1>1. query.kind \in {"q04", "q09", "q11"}
  BY DEF TypeOK, Queries
<1>2. seen = {r \in reader : filter(r)} /\ todo = {}
  BY DEF ReadInv
<1>3. \A r \in reader : r \in Rows /\ r.id \in 1..MaxId /\ r.name \in Names
  BY RowIsEntry DEF TypeOK
<1>4. \A r \in reader : (r.valid /\ filter(r)) <=> Where(r)
  <2> TAKE r \in reader
  <2>1. CASE query.kind = "q04"
    BY <2>1 DEF filter, filter_query04, Where
  <2>2. CASE query.kind = "q11"
    BY <2>2 DEF filter, filter_query11, Where
  <2>3. CASE query.kind = "q09"
    <3>1. PICK s \in StartRows : s.id = after
      BY <2>3 DEF ReadInv
    <3>2. \A t \in StartRows : t.id <= after
      BY <2>3 DEF ReadInv
    <3>3. \A t \in StartRows : t.id \in 1..MaxId
      BY <1>3 DEF StartRows
    <3>4. after \in 0..MaxId
      BY DEF TypeOK
    <3>5. r.id > after <=> \A t \in StartRows : r.id > t.id
      BY <1>3, <3>1, <3>2, <3>3, <3>4, SubqueryAssumption
    <3> QED
      BY <2>3, <3>1, <3>5 DEF filter, filter_query09_subquery02, Where
  <2> QED
    BY <1>1, <2>1, <2>2, <2>3
<1>5. Selected = {r \in seen : r.valid}
  BY <1>2, <1>4 DEF Selected
<1>6. \A k \in Names :
         LET S == {r \in Selected : r.name = k} IN
         IF S = {} THEN result_map[k].id = 0
         ELSE result_map[k] \in S /\ \A r \in S : r.id <= result_map[k].id
  BY <1>2, <1>5 DEF NewestPerName
<1>7. \A r \in Selected : r \in reader
  BY DEF Selected
<1>8. ASSUME NEW k \in Names, result_map[k].id # 0
      PROVE  result_map[k] \in Selected /\ MaxOfGroup(result_map[k])
  BY <1>6, <1>8 DEF MaxOfGroup
<1>9. ASSUME NEW r \in Selected, MaxOfGroup(r)
      PROVE  r.name \in Names /\ result_map[r.name] = r /\ result_map[r.name].id # 0
  <2>1. r.name \in Names /\ r \in reader
    BY <1>3, <1>7, <1>9
  <2>2. result_map[r.name] \in Selected /\ result_map[r.name].name = r.name
        /\ r.id <= result_map[r.name].id
    BY <1>6, <1>9, <2>1
  <2>3. result_map[r.name].id <= r.id
    BY <1>9, <2>2 DEF MaxOfGroup
  <2>4. result_map[r.name].id = r.id
    BY <1>3, <1>7, <2>1, <2>2, <2>3, SubqueryAssumption
  <2>5. result_map[r.name] = r
    BY <1>7, <2>1, <2>2, <2>4 DEF TypeOK, KeyedById
  <2> QED
    BY <1>3, <2>1, <2>5, SubqueryAssumption
<1> QED
  BY <1>8, <1>9

\* Without a limit, and with every row visible (t_f = "t", which is what the
\* watch and the reads before a write ask for), a query returns what the SQL
\* statement it replaces returns.
THEOREM UnlimitedIsSql ==
    ASSUME "f" \notin Modes
    PROVE  Spec => [](query.limit = 0 => ResultIsSql)
<1>1. ASSUME TypeOK, SubqueryInv PROVE query.limit = 0 => ResultIsSql
  <2> SUFFICES ASSUME query.limit = 0, pc = "done", query.kind = "q09" => StartRows # {}
               PROVE  result = SqlResult
    BY DEF ResultIsSql
  <2>1. query.t_f = "t" /\ query.kind \in {"q01", "q04", "q09", "q11"}
    BY <1>1, SubqueryAssumption DEF TypeOK, Queries
  <2>2. \A S : Resize(S, query.limit) = S /\ SqlLimit(S, query.limit) = S
    BY DEF Resize, SqlLimit
  <2>3. CASE query.kind = "q01"
    <3>1. result = {r \in seen : r.valid} /\ seen = {r \in reader : filter(r)}
      BY <1>1, <2>2, <2>3 DEF SubqueryInv, ReadInv
    <3>2. Selected = {r \in seen : r.valid}
      BY <2>3, <3>1 DEF Selected, Where, filter, filter_query01
    <3>3. SqlResult = Selected
      BY <2>2, <2>3 DEF SqlResult
    <3> QED
      BY <3>1, <3>2, <3>3
  <2>4. CASE query.kind # "q01"
    <3>1. result = {result_map[k] : k \in {n \in Names : result_map[n].id # 0 /\ visible[n]}}
      BY <1>1, <2>2, <2>4 DEF SubqueryInv, CollectInv
    <3>2. {n \in Names : result_map[n].id # 0 /\ visible[n]} = {n \in Names : result_map[n].id # 0}
      BY <1>1, <2>1 DEF SubqueryInv, MapInv
    <3>3. result = {r \in Selected : MaxOfGroup(r)}
      BY <1>1, <2>4, <3>1, <3>2, MapIsMaxOfGroups
    <3>4. SqlResult = {r \in Selected : MaxOfGroup(r)}
      BY <2>1, <2>2, <2>4 DEF SqlResult
    <3> QED
      BY <3>3, <3>4
  <2> QED
    BY <2>3, <2>4
<1> QED
  BY <1>1, SubqueryInvariant, PTL
=============================================================================
