---------------------------- MODULE CommonSubquery ----------------------------
(***************************************************************************)
(* The queries that a database process answers over gRPC (Database.cpp,     *)
(* query_01, query_04, query_09, query_11 and the loop they share,          *)
(* query_common_subquery), checked against the SQL statements of kine that  *)
(* they replace (generic.go, listSQL).                                      *)
(*                                                                          *)
(* dds_read returns the samples of the matching instances in no particular  *)
(* order; the loop goes through them once and keeps, in a map from name to  *)
(* row, what SQL gets from GROUP BY name and MAX(id).  A vector sorted by   *)
(* id is represented by the set of its rows: ids are distinct.              *)
(***************************************************************************)
EXTENDS Naturals, FiniteSets

CONSTANTS
    Names,   \* keys
    MaxId,   \* bound: ids of rows
    Modes,   \* values of the last query parameter, t_f
    Limits   \* limits of a query, 0 for none

ASSUME SubqueryAssumption ==
    /\ MaxId \in Nat
    /\ Modes \subseteq {"t", "f"}
    /\ Limits \subseteq Nat

\* What a sample holds of a row: deleted marks a tombstone, valid is
\* valid_data of its sample info.
Rows == [id: 1..MaxId, name: Names, deleted: BOOLEAN, valid: BOOLEAN]

\* An entry of result_map; id 0 stands for a name that has none.
Entries == [id: 0..MaxId, name: Names, deleted: BOOLEAN, valid: BOOLEAN]

NoEntry(k) == [id |-> 0, name |-> k, deleted |-> FALSE, valid |-> FALSE]

\* A request: names is the set of names that the first parameter matches, rev
\* the revision, start the key that query 9 continues after.
Queries ==
    LET N == SUBSET Names \ {{}} IN
    [kind: {"q04"}, names: N, t_f: Modes, limit: Limits]
      \cup [kind: {"q01", "q11"}, names: N, rev: 0..MaxId, t_f: Modes, limit: Limits]
      \cup [kind: {"q09"}, names: N, rev: 0..MaxId, start: Names, t_f: Modes, limit: Limits]

VARIABLES
    reader,      \* the samples of the alive instances in the DDS reader
    query,       \* the request
    pc,          \* step of the handler
    after,       \* id that subquery 1 of query 9 found
    seen,        \* samples that dds_read returned
    todo,        \* those the loop has not reached
    result_map,  \* result_map[k].first
    visible,     \* result_map[k].second
    result       \* the rows returned

vars == <<reader, query, pc, after, seen, todo, result_map, visible, result>>

KeyedById(S) == \A r, s \in S : r.id = s.id => r = s

TypeOK ==
    /\ reader \in SUBSET Rows /\ KeyedById(reader)
    /\ query \in Queries
    /\ pc \in {"subquery01", "read", "scan", "done"}
    /\ after \in 0..MaxId
    /\ seen \in SUBSET reader
    /\ todo \in SUBSET seen
    /\ result_map \in [Names -> Entries]
    /\ visible \in [Names -> BOOLEAN]
    /\ result \in SUBSET Entries

-----------------------------------------------------------------------------
(* Filters: the QueryConditions of the four queries.                        *)

filter_query01(r) == r.name \in query.names /\ r.id > query.rev

filter_query04(r) == r.name \in query.names

filter_query09_subquery01(r) == r.name = query.start /\ r.id <= query.rev

filter_query09_subquery02(r) ==
    r.name \in query.names /\ r.id <= query.rev /\ r.id > after

filter_query11(r) == r.name \in query.names /\ r.id <= query.rev

filter(r) ==
    /\ query.kind = "q01" => filter_query01(r)
    /\ query.kind = "q04" => filter_query04(r)
    /\ query.kind = "q09" => filter_query09_subquery02(r)
    /\ query.kind = "q11" => filter_query11(r)

\* A slip of the kind that ResultIsSql rules out: <= for <.
ResizeOneMore(S, limit) ==
    IF limit > 0
    THEN {r \in S : Cardinality({s \in S : s.id < r.id}) <= limit}
    ELSE S

\* if (limit > 0 and result.size() > limit) result.resize(limit), on a vector
\* sorted by id.
Resize(S, limit) ==
    IF limit > 0
    THEN {r \in S : Cardinality({s \in S : s.id < r.id}) < limit}
    ELSE S

-----------------------------------------------------------------------------
(* Slips of the kind that the properties below rule out.                    *)

\* insert alone, without the comparison of ids that follows it.
IterateKeepFirst(r) ==
    /\ pc = "scan"
    /\ todo' = todo \ {r}
    /\ IF r.valid /\ result_map[r.name].id = 0
       THEN /\ result_map' = [result_map EXCEPT ![r.name] = r]
            /\ visible' = [visible EXCEPT ![r.name] = ~ (query.t_f = "f" /\ r.deleted)]
       ELSE UNCHANGED <<result_map, visible>>
    /\ UNCHANGED <<reader, query, pc, after, seen, result>>

\* The loop over the whole reader instead of what dds_read returned.
ReadAll ==
    /\ pc = "read"
    /\ seen' = {r \in reader : filter(r)}
    /\ todo' = reader
    /\ pc' = "scan"
    /\ UNCHANGED <<reader, query, after, result_map, visible, result>>

-----------------------------------------------------------------------------
(* One query.                                                               *)

\* query_09, subquery 1: the largest id of the start key; structure_generic's
\* default 0 when there is none.
Subquery01 ==
    /\ pc = "subquery01"
    /\ LET ids == {r.id : r \in {s \in reader : s.valid /\ filter_query09_subquery01(s)}}
       IN  \E m \in ids \cup {0} : (\A k \in ids : k <= m) /\ after' = m
    /\ pc' = "read"
    /\ UNCHANGED <<reader, query, seen, todo, result_map, visible, result>>

\* dds_read with the query's condition.  query_01 copies the valid rows; the
\* others go on to query_common_subquery.
Read ==
    /\ pc = "read"
    /\ seen' = {r \in reader : filter(r)}
    /\ IF query.kind = "q01"
       THEN /\ result' = Resize({r \in seen' : r.valid}, query.limit)
            /\ pc' = "done"
            /\ todo' = {}
       ELSE /\ todo' = seen'
            /\ pc' = "scan"
            /\ UNCHANGED result
    /\ UNCHANGED <<reader, query, after, result_map, visible>>

\* One turn of the loop of query_common_subquery.  result_map.insert keeps the
\* entry of a name that has one; then only its first component, the row, is
\* replaced by a row with a larger id.
Iterate(r) ==
    /\ pc = "scan"
    /\ todo' = todo \ {r}
    /\ IF r.valid /\ result_map[r.name].id = 0
       THEN /\ result_map' = [result_map EXCEPT ![r.name] = r]
            /\ visible' = [visible EXCEPT ![r.name] = ~ (query.t_f = "f" /\ r.deleted)]
       ELSE IF r.valid /\ r.id > result_map[r.name].id
            THEN /\ result_map' = [result_map EXCEPT ![r.name] = r]
                 /\ UNCHANGED visible
            ELSE UNCHANGED <<result_map, visible>>
    /\ UNCHANGED <<reader, query, pc, after, seen, result>>

\* The entries whose bool is set, sorted by id, cut to the limit.
Collect ==
    /\ pc = "scan"
    /\ todo = {}
    /\ result' = Resize({result_map[k] : k \in {n \in Names : result_map[n].id # 0 /\ visible[n]}},
                        query.limit)
    /\ pc' = "done"
    /\ UNCHANGED <<reader, query, after, seen, todo, result_map, visible>>

\* A reader holds one sample for each of some ids.
Cells == [name: Names, deleted: BOOLEAN, valid: BOOLEAN]

Sample(i, c) == [id |-> i, name |-> c.name, deleted |-> c.deleted, valid |-> c.valid]

Init ==
    /\ \E ids \in SUBSET (1..MaxId) : \E f \in [ids -> Cells] :
          reader = {Sample(i, f[i]) : i \in ids}
    /\ query \in Queries
    /\ pc = IF query.kind = "q09" THEN "subquery01" ELSE "read"
    /\ after = 0
    /\ seen = {}
    /\ todo = {}
    /\ result_map = [k \in Names |-> NoEntry(k)]
    /\ visible = [k \in Names |-> FALSE]
    /\ result = {}

Next ==
    \/ Subquery01
    \/ Read
    \/ \E r \in todo : Iterate(r)
    \/ Collect

Spec == Init /\ [][Next]_vars

-----------------------------------------------------------------------------
(* The SQL that the queries replace.                                        *)

\* WHERE clauses of listSQL with idOfKey, and of AfterSQL, over the rows.
StartRows == {r \in reader : r.valid /\ r.name = query.start /\ r.id <= query.rev}

Where(r) ==
    /\ r.valid
    /\ r.name \in query.names
    /\ query.kind \in {"q09", "q11"} => r.id <= query.rev
    /\ query.kind = "q01" => r.id > query.rev
    /\ query.kind = "q09" => StartRows # {} /\ \A s \in StartRows : r.id > s.id

Selected == {r \in reader : Where(r)}

\* JOIN (SELECT MAX(mkv.id) ... GROUP BY mkv.name) ON maxkv.id = kv.id
MaxOfGroup(r) == \A s \in Selected : s.name = r.name => s.id <= r.id

\* ORDER BY id ASC LIMIT n, as kine appends it for n > 0.
SqlLimit(S, limit) ==
    IF limit > 0 /\ Cardinality(S) > limit
    THEN CHOOSE T \in SUBSET S : /\ Cardinality(T) = limit
                                 /\ \A t \in T, s \in S \ T : t.id < s.id
    ELSE S

\* WHERE kv.deleted = 0 OR ?, ordered and limited.
SqlResult ==
    SqlLimit({r \in Selected : query.kind # "q01"
                                 => MaxOfGroup(r) /\ (query.t_f = "t" \/ ~ r.deleted)},
             query.limit)

-----------------------------------------------------------------------------
(* Properties.                                                              *)

\* A query returns the rows that the SQL statement in its place would return,
\* in whatever order the samples were read.  "It's assumed that when there is
\* a start key that that key exists" (sql.go, List): without it SQL compares
\* with NULL and returns nothing, query_09 compares with 0.  True of t_f = "t";
\* false of "f", where the visibility of a name is decided by the first of its
\* samples that is read and its row by the newest.
ResultIsSql ==
    (pc = "done" /\ (query.kind = "q09" => StartRows # {})) => result = SqlResult

\* The loop invariant of query_common_subquery: of each name, the map has the
\* newest valid sample among those the loop has been through.
NewestPerName ==
    query.kind # "q01" => \A k \in Names :
        LET S == {r \in seen \ todo : r.valid /\ r.name = k} IN
        IF S = {} THEN result_map[k].id = 0
        ELSE result_map[k] \in S /\ \A r \in S : r.id <= result_map[k].id

-----------------------------------------------------------------------------
(* The inductive invariant behind ResultIsSql.                              *)

\* Where the handler is, what it has read and what it has returned.
ReadInv ==
    /\ pc = "subquery01" => query.kind = "q09"
    /\ pc = "scan" => query.kind # "q01"
    /\ pc \in {"subquery01", "read"} => seen = {} /\ todo = {}
    /\ pc \in {"scan", "done"} => seen = {r \in reader : filter(r)}
    /\ pc = "done" => todo = {}
    /\ (query.kind = "q09" /\ pc # "subquery01") =>
         /\ \A s \in StartRows : s.id <= after
         /\ StartRows # {} => \E s \in StartRows : s.id = after
    /\ (query.kind = "q01" /\ pc = "done") =>
         result = Resize({r \in seen : r.valid}, query.limit)

\* With t_f = "t" every entry of the map is visible.
MapInv ==
    query.t_f = "t" => \A k \in Names : visible[k] <=> result_map[k].id # 0

\* What Collect copied out of the map.
CollectInv ==
    (query.kind # "q01" /\ pc = "done") =>
      result = Resize({result_map[k] : k \in {n \in Names : result_map[n].id # 0 /\ visible[n]}},
                      query.limit)

SubqueryInv == ReadInv /\ MapInv /\ CollectInv /\ NewestPerName
=============================================================================
