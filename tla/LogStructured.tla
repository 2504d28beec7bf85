---------------------------- MODULE LogStructured ----------------------------
(***************************************************************************)
(* kine's key-value store over the log of rows (logstructured.go): Create,  *)
(* Update and Delete each read the newest row of the key, decide, and       *)
(* append a row, as separate calls to the database.  In SQL a unique index  *)
(* on (name, prev_revision) refuses the second of two appends that were     *)
(* decided on the same row; the DDS database has no such index.             *)
(*                                                                          *)
(* An append reserves an id and writes the row later (DdsDatabase); the     *)
(* caller waits for it up to a deadline.  The poll loop fills the ids that  *)
(* it finds missing (WatchPipeline); a filler row is of none of the keys.   *)
(* A request that fails changes nothing and is not represented; neither are *)
(* values.                                                                  *)
(***************************************************************************)
EXTENDS Naturals, FiniteSets

CONSTANTS
    Clients,   \* etcd requests in progress, as LimitedServer.Txn dispatches them
    Ttl,       \* the goroutine that holds the mutex of LogStructured.ttl
    Keys,
    Leases,    \* whether a request comes with a lease: a set of Booleans
    MaxId,     \* bound: ids handed out
    NoRow      \* no row under an id

\* A row: prev is prev_revision; createRevision the create_revision column,
\* which stays 0 for a created row; lease whether it has one.
Rows == [key: Keys, create: BOOLEAN, delete: BOOLEAN,
         prev: 0..MaxId, createRevision: 0..MaxId, lease: BOOLEAN]

ASSUME LogAssumption ==
    /\ MaxId \in Nat
    /\ Ttl \notin Clients
    /\ Leases \subseteq BOOLEAN
    /\ NoRow \notin Rows

Procs == Clients \cup {Ttl}

Ids == 1..MaxId

VARIABLES
    maxid,    \* largest id handed out
    asked,    \* asked[i]: the row of the append that was given id i
    pending,  \* ids whose row a handler is about to write
    stored,   \* ids whose row is in the database
    gap,      \* the id that poll found missing and is about to fill, or 0
    op,       \* op[p]: a request in progress
    done,     \* history: ids of appends that were reported as successful
    basis,    \* history: done when the request that was given i read its key
    filled    \* history: ids a filler row was written under

log == <<maxid, asked, pending, stored, basis>>
fill == <<gap, filled>>
vars == <<log, fill, op, done>>

Idle == [pc |-> "idle", id |-> 0, row |-> NoRow, seen |-> {}]

Ops == [pc: {"idle", "append", "wait"}, id: 0..MaxId, row: Rows \cup {NoRow}, seen: SUBSET Ids]

TypeOK ==
    /\ maxid \in 0..MaxId
    /\ asked \in [Ids -> Rows \cup {NoRow}]
    /\ \A i \in Ids : i <= maxid <=> asked[i] # NoRow
    /\ pending \in SUBSET (1..maxid)
    /\ stored \in SUBSET (1..maxid)
    /\ gap \in 0..maxid
    /\ op \in [Procs -> Ops]
    /\ \A p \in Procs : op[p].pc = "append" => op[p].row \in Rows
    /\ \A p \in Procs : op[p].pc = "wait" => op[p].id \in 1..maxid
    /\ done \in SUBSET (1..maxid)
    /\ basis \in [Ids -> SUBSET Ids]
    /\ filled \in SUBSET (1..maxid)

-----------------------------------------------------------------------------
(* l.get: the newest row of a key.                                          *)

RowsOf(k) == {i \in stored : asked[i].key = k}

\* includeDeletes: query 4 with "t" finds i.
Newest(k, i) == i \in RowsOf(k) /\ \A j \in RowsOf(k) : j <= i

\* Without deletes, query 4 with "f" finds the newest row, a tombstone or not,
\* when the sample of the key that is read first is no tombstone, and nothing
\* otherwise (CommonSubquery).
MayShow(k, i) == Newest(k, i) /\ \E j \in RowsOf(k) : ~ asked[j].delete

\* Slip: the column as it is stored.
RawCreateRevision(i) == asked[i].createRevision

\* RowsToEventsDds: the create revision of a created row is its own id.
CreateRevision(i) == IF asked[i].create THEN i ELSE asked[i].createRevision

\* The request goes on to append row.
Decide(p, row) ==
    /\ op' = [op EXCEPT ![p] = [pc |-> "append", id |-> 0, row |-> row, seen |-> done]]
    /\ UNCHANGED <<log, fill, done>>

-----------------------------------------------------------------------------
(* Requests: what each reads and decides.                                   *)

\* Create: the key has no row, or a tombstone.
Create(p, k, lease) ==
    /\ op[p].pc = "idle"
    /\ \E prev \in 0..MaxId :
        /\ \/ RowsOf(k) = {} /\ prev = 0
           \/ Newest(k, prev) /\ asked[prev].delete
        /\ Decide(p, [key |-> k, create |-> TRUE, delete |-> FALSE, prev |-> prev,
                      createRevision |-> 0, lease |-> lease])

\* Update: the row found, which may be a tombstone, has the revision that the
\* client compares with.
Update(p, k, revision, lease) ==
    /\ op[p].pc = "idle"
    /\ MayShow(k, revision)
    /\ Decide(p, [key |-> k, create |-> FALSE, delete |-> FALSE, prev |-> revision,
                  createRevision |-> CreateRevision(revision), lease |-> lease])

\* Delete: the key has a row that is no tombstone, and, if a revision is given
\* (not 0), of that revision.  The tombstone keeps the row's lease.
Delete(p, k, revision) ==
    /\ op[p].pc = "idle"
    /\ \E i \in Ids :
        /\ Newest(k, i)
        /\ ~ asked[i].delete
        /\ revision = 0 \/ revision = i
        /\ Decide(p, [key |-> k, create |-> FALSE, delete |-> TRUE, prev |-> i,
                      createRevision |-> CreateRevision(i), lease |-> asked[i].lease])

\* ttl: the time of a row with a lease is over; delete that revision.
Expire(i) ==
    /\ i \in stored
    /\ asked[i].lease
    /\ Delete(Ttl, asked[i].key, i)

-----------------------------------------------------------------------------
(* l.log.Append.                                                            *)

AppendReserve(p) ==
    /\ op[p].pc = "append"
    /\ maxid < MaxId
    /\ maxid' = maxid + 1
    /\ asked' = [asked EXCEPT ![maxid + 1] = op[p].row]
    /\ pending' = pending \cup {maxid + 1}
    /\ basis' = [basis EXCEPT ![maxid + 1] = op[p].seen]
    /\ op' = [op EXCEPT ![p] = [pc |-> "wait", id |-> maxid + 1, row |-> NoRow, seen |-> {}]]
    /\ UNCHANGED <<stored, fill, done>>

\* The handler writes the row, over a filler if there is one; if the write
\* throws, the row is lost and the id is answered all the same.
AppendWrite(i) ==
    /\ i \in pending
    /\ stored' \in {stored, stored \cup {i}}
    /\ pending' = pending \ {i}
    /\ UNCHANGED <<maxid, asked, basis, fill, op, done>>

\* Slips: the answer is sent before the row is written; the request is left
\* waiting.
ReturnEarly(p) ==
    /\ op[p].pc = "wait"
    /\ done' = done \cup {op[p].id}
    /\ op' = [op EXCEPT ![p] = Idle]
    /\ UNCHANGED <<log, fill>>

ReturnStuck(p) ==
    /\ op[p].pc = "wait"
    /\ op' = [op EXCEPT ![p].id = 0]
    /\ UNCHANGED <<log, fill, done>>

\* The database answers with the id once the handler is done with the row.
AppendReturn(p) ==
    /\ op[p].pc = "wait"
    /\ op[p].id \notin pending
    /\ done' = done \cup {op[p].id}
    /\ op' = [op EXCEPT ![p] = Idle]
    /\ UNCHANGED <<log, fill>>

\* The deadline passes first: the request reads the key once more and fails,
\* although the row is, or will be, written.
AppendDeadline(p) ==
    /\ op[p].pc = "wait"
    /\ op' = [op EXCEPT ![p] = Idle]
    /\ UNCHANGED <<log, fill, done>>

-----------------------------------------------------------------------------
(* The poll loop, as far as it writes.                                      *)

\* A read finds a later row and none under i.
PollGap(i) ==
    /\ i \notin stored \cup filled
    /\ \E j \in stored \cup filled : j > i
    /\ gap' = i
    /\ UNCHANGED <<log, filled, op, done>>

\* Fill: the filler row takes the place of what the id has by now.
Fill ==
    /\ gap # 0
    /\ stored' = stored \ {gap}
    /\ filled' = filled \cup {gap}
    /\ gap' = 0
    /\ UNCHANGED <<maxid, asked, pending, basis, op, done>>

Init ==
    /\ maxid = 0
    /\ asked = [i \in Ids |-> NoRow]
    /\ pending = {}
    /\ stored = {}
    /\ gap = 0
    /\ op = [p \in Procs |-> Idle]
    /\ done = {}
    /\ basis = [i \in Ids |-> {}]
    /\ filled = {}

Next ==
    \/ \E p \in Clients, k \in Keys, lease \in Leases : Create(p, k, lease)
    \/ \E p \in Clients, k \in Keys, r \in Ids, lease \in Leases : Update(p, k, r, lease)
    \/ \E p \in Clients, k \in Keys, r \in 0..MaxId : Delete(p, k, r)
    \/ \E i \in Ids : Expire(i)
    \/ \E p \in Procs : AppendReserve(p)
    \/ \E i \in Ids : AppendWrite(i)
    \/ \E p \in Procs : AppendReturn(p)
    \/ \E p \in Procs : AppendDeadline(p)
    \/ \E i \in Ids : PollGap(i)
    \/ Fill

Spec == Init /\ [][Next]_vars

-----------------------------------------------------------------------------
(* Properties.                                                              *)

\* Two appends that were to replace the same revision of a key.
SameBasis(i, j) ==
    i # j /\ asked[i].key = asked[j].key /\ asked[i].prev = asked[j].prev

\* Ids whose row the database does not have, and will not: the write threw, or
\* a filler row replaced it.
Gone == (1..maxid) \ (stored \cup pending)

\* No update is lost among requests that follow one another: if the answer to
\* one was given before another read the key, the two did not replace the same
\* revision, whatever deadlines passed and however late the rows were written;
\* but for a row that is gone although it was acknowledged.
NoLostUpdateInSequence ==
    \A i, j \in 1..maxid : SameBasis(i, j) /\ i \in basis[j] => i \in Gone

\* The create revision that a row passes on is the id of a row that created
\* the same key, through any number of updates, deletes and recreations; that
\* row is in the database unless a filler row has replaced it since.
CreateRevisionIsCreate ==
    \A i \in 1..maxid :
        ~ asked[i].create =>
          LET c == asked[i].createRevision
          IN  /\ c \in stored \cup filled
              /\ asked[c].create
              /\ asked[c].key = asked[i].key

\* The unique index kine_name_prev_revision_uindex of the SQL drivers, whose
\* error Delete and Update expect from Append.  False: two requests that read
\* the key before either appends both succeed.
NamePrevRevisionUnique ==
    \A i, j \in stored : ~ SameBasis(i, j)

-----------------------------------------------------------------------------
(* The inductive invariant behind the two properties.                       *)

\* A row that replaces another names a row of its key, and passes on the id of
\* a creation of the key.
Grounded(row) ==
    /\ row.prev # 0 => row.prev \in 1..maxid /\ asked[row.prev].key = row.key
    /\ ~ row.create => /\ row.createRevision \in stored \cup filled
                       /\ asked[row.createRevision].create
                       /\ asked[row.createRevision].key = row.key

\* It was decided on with every row of its key in seen to be read.
Newer(row, seen) ==
    \A i \in seen : i \in stored /\ asked[i].key = row.key => i <= row.prev

Sound(row, seen) == Grounded(row) /\ Newer(row, seen)

LogInv ==
    /\ pending \cap stored = {}
    /\ pending \cap done = {}
    /\ \A i \in Ids : basis[i] \subseteq done
    /\ \A p \in Procs : op[p].pc = "append" => op[p].seen \subseteq done
    /\ \A i \in 1..maxid : asked[i].prev < i /\ Sound(asked[i], basis[i])
    /\ \A p \in Procs : op[p].pc = "append" =>
         op[p].row.prev <= maxid /\ Sound(op[p].row, op[p].seen)
=============================================================================
