------------------------------ MODULE FrontEnd ------------------------------
(***************************************************************************)
(* The etcd front end of kine (pkg/server) and its client (pkg/client) over *)
(* the backend of the DDS database (LogStructured).  LimitedServer          *)
(* recognises four shapes of etcd transaction and carries them out by calls *)
(* of the backend; Range lists by pages; the watcher of a gRPC stream runs a*)
(* goroutine for each watch.                                                *)
(*                                                                          *)
(* The store is a log of rows whose places are the revisions, the first     *)
(* being compact_rev_key.  A call of the backend reads it, and writes it    *)
(* later.  Reads that leave out deleted rows show of a key whatever the     *)
(* query's reading order makes of it (CommonSubquery, mode "f").  The client*)
(* of the stream is a cache as the apiserver keeps it: it lists by pages,   *)
(* watches from the next revision on, and lists again when the watch ends.  *)
(***************************************************************************)
EXTENDS Naturals, FiniteSets, Sequences, FiniteSetsExt

CONSTANTS
    Clients,      \* callers of the client's methods
    Keys,
    CompactKey,   \* compact_rev_key
    Limit,        \* keys asked for in a page
    MaxLog,       \* bound: rows
    MaxWatch      \* bound: watches started on the stream

ASSUME FrontEndAssumption ==
    /\ CompactKey \notin Keys
    /\ {Limit, MaxLog, MaxWatch} \subseteq Nat \ {0}

Ids == 1..MaxWatch

VARIABLES
    log,      \* rows: a key, and whether it is a tombstone
    put,      \* put[c]: a Put of the client between its Get and its Update
    append,   \* append[c]: the row that the backend call of c has yet to write
    view,     \* the cache: its revision, the rows it holds, where its list goes on
    conn,     \* the stream: up, half closed by the client (eof), or broken
    serve,    \* KVServerBridge.Watch: receiving, cancelling, closing, closed
    watches,  \* the watcher's map
    done,     \* watches whose context is cancelled
    stuck,    \* watches whose channel the backend never closes
    go        \* go[i]: the goroutine of watch i

stream == <<view, conn, serve, watches, done, stuck, go>>

vars == <<log, put, append, stream>>

Rows == [key: Keys \cup {CompactKey}, delete: BOOLEAN]

\* unsure is history: keys of which the list may have shown the wrong row, or
\* the watch has passed over one, with no event since.
Views == [pc: {"list", "rows", "relist", "more", "listed", "watch"}, rev: 0..MaxLog,
          after: 0..MaxLog, kvs: SUBSET (1..MaxLog), unsure: SUBSET Keys, id: 0..MaxWatch]

TypeOK ==
    /\ log \in Seq(Rows) /\ Len(log) \in 1..MaxLog
    /\ put \in [Clients -> {<<>>} \cup (Keys \X (1..MaxLog))]
    /\ append \in [Clients -> {<<>>} \cup {<<e>> : e \in Rows}]
    /\ view \in Views
    /\ conn \in {"up", "eof", "broken"}
    /\ serve \in {"recv", "cancel", "closing", "closed"}
    /\ watches \subseteq Ids /\ done \subseteq Ids /\ stuck \subseteq Ids
    /\ go \in [Ids -> {"none", "created", "loop", "failed", "ending", "ended"}]

-----------------------------------------------------------------------------
(* The backend.                                                             *)

\* The newest row of k up to revision r in the log L, 0 if there is none.
NewestAt(L, k, r) == Max({i \in 1..r : L[i].key = k} \cup {0})

LiveAt(L, r) == {NewestAt(L, k, r) : k \in Keys} \cap {i \in DOMAIN L : ~ L[i].delete}

\* The ModRevision of k, 0 if it is absent.
Mod(L, k) == LET i == NewestAt(L, k, Len(L)) IN IF i # 0 /\ L[i].delete THEN 0 ELSE i

\* What a read without deleted rows may show of k, of its rows from a + 1 to r:
\* the newest, deleted or not, or nothing (0).  The row read first decides.
Shown(L, k, a, r) ==
    IF NewestAt(L, k, r) <= a THEN {0}
    ELSE {IF L[i].delete THEN 0 ELSE NewestAt(L, k, r) : i \in {j \in (a + 1)..r : L[j].key = k}}

Row(k, delete) == [key |-> k, delete |-> delete]

\* The rows that a call is to write, one at most, and its verdict.
Answer(rows, ok) == [rows |-> rows, ok |-> ok]

BackendCreate(L, k) ==
    IF Mod(L, k) # 0 THEN Answer(<<>>, "exists") ELSE Answer(<<Row(k, FALSE)>>, "yes")

\* The read that update compares is one without deleted rows.
BackendUpdate(L, k, r) ==
    {IF i # r THEN Answer(<<>>, "no") ELSE Answer(<<Row(k, FALSE)>>, "yes") :
       i \in Shown(L, k, 0, Len(L))}

\* Absent already is deleted.
BackendDelete(L, k, r) ==
    IF Mod(L, k) = 0 THEN Answer(<<>>, "yes")
    ELSE IF r \notin {0, Mod(L, k)} THEN Answer(<<>>, "no")
    ELSE Answer(<<Row(k, TRUE)>>, "yes")

-----------------------------------------------------------------------------
(* Transactions: one comparison or none, operations for success and failure.*)

\* An operation on a key; plain is one with no RangeEnd, or a put without the
\* options that create refuses.
Op(op, k, plain) == [op |-> op, key |-> k, plain |-> plain]

\* Of length n, and its operations are those of the sequence s.
Are(ops, s) == Len(ops) = Len(s) /\ \A i \in DOMAIN s : ops[i].op = s[i]

ModEqual(t) == t.target = "MOD" /\ t.equal

\* Slip: the revision compared with is not looked at.
AnyRevision(t) == ModEqual(t) /\ Are(t.success, <<"put">>) /\ Are(t.failure, <<>>)

isCreate(t) ==
    ModEqual(t) /\ t.rev = 0 /\ Are(t.success, <<"put">>) /\ Are(t.failure, <<>>)

isDelete(t) ==
    \/ t.target = "NONE" /\ Are(t.success, <<"range", "delete">>) /\ Are(t.failure, <<>>)
    \/ ModEqual(t) /\ Are(t.success, <<"delete">>) /\ Are(t.failure, <<"range">>)

isUpdate(t) ==
    ModEqual(t) /\ Are(t.success, <<"put">>) /\ Are(t.failure, <<"range">>)

isCompact(t) ==
    /\ t.target = "VERSION" /\ t.equal /\ t.key = CompactKey
    /\ Are(t.success, <<"put">>) /\ Are(t.failure, <<"range">>)

\* The key is the put's, whichever was compared.  One that exists is a
\* comparison that failed.
create(L, t) ==
    IF ~ t.success[1].plain THEN Answer(<<>>, "error")
    ELSE LET a == BackendCreate(L, t.success[1].key)
         IN IF a.ok = "exists" THEN Answer(<<>>, "no") ELSE a

\* The key is the delete's, its RangeEnd is not looked at.
delete(L, t) ==
    BackendDelete(L, t.success[Len(t.success)].key, IF t.target = "NONE" THEN 0 ELSE t.rev)

\* The key is the comparison's, the put's options are not looked at.  With
\* revision 0, a create; a key that exists is then an error.
update(L, t) ==
    IF t.rev # 0 THEN BackendUpdate(L, t.key, t.rev)
    ELSE LET a == BackendCreate(L, t.key)
         IN {IF a.ok = "exists" THEN Answer(<<>>, "error") ELSE a}

\* The answers that a transaction may have.
Txn(L, t) ==
    IF isCreate(t) THEN {create(L, t)}
    ELSE IF isDelete(t) THEN {delete(L, t)}
    ELSE IF isUpdate(t) THEN update(L, t)
    ELSE IF isCompact(t) THEN {Answer(<<>>, "no")}
    ELSE {Answer(<<>>, "error")}

\* What the API of etcd says of the same transaction.
EtcdOp(L, op) ==
    IF op.op = "put" THEN <<Row(op.key, FALSE)>>
    ELSE IF op.op = "delete" /\ Mod(L, op.key) # 0 THEN <<Row(op.key, TRUE)>>
    ELSE <<>>

\* Of which there are at most two, one after the other.
EtcdOps(L, ops) ==
    LET first == IF Len(ops) > 0 THEN EtcdOp(L, ops[1]) ELSE <<>>
    IN IF Len(ops) > 1 THEN first \o EtcdOp(L \o first, ops[2]) ELSE first

Etcd(L, t) ==
    LET holds == \/ t.target = "NONE"
                 \/ t.target = "MOD" /\ (IF t.equal THEN Mod(L, t.key) = t.rev ELSE Mod(L, t.key) # t.rev)
    IN IF holds THEN Answer(EtcdOps(L, t.success), "yes") ELSE Answer(EtcdOps(L, t.failure), "no")

-----------------------------------------------------------------------------
(* The client's methods.                                                    *)

Compared(k, r, op, failure) ==
    [key |-> k, target |-> "MOD", equal |-> TRUE, rev |-> r, success |-> <<op>>, failure |-> failure]

\* A transaction up to the write of its row.
Perform(c, t) ==
    /\ append[c] = <<>>
    /\ \E a \in Txn(log, t) : append' = [append EXCEPT ![c] = a.rows]
    /\ UNCHANGED <<log, stream>>

\* log.Append, whatever has been written since the read; or it fails.
AppendRow(c) ==
    /\ append[c] # <<>>
    /\ \/ Len(log) < MaxLog /\ log' = log \o append[c]
       \/ UNCHANGED log
    /\ append' = [append EXCEPT ![c] = <<>>]
    /\ UNCHANGED <<put, stream>>

Create(c, k) ==
    put[c] = <<>> /\ UNCHANGED put /\ Perform(c, Compared(k, 0, Op("put", k, TRUE), <<>>))

Update(c, k, r) ==
    /\ put[c] = <<>> /\ UNCHANGED put
    /\ Perform(c, Compared(k, r, Op("put", k, TRUE), <<Op("range", k, TRUE)>>))

Delete(c, k, r) ==
    /\ put[c] = <<>> /\ UNCHANGED put
    /\ Perform(c, Compared(k, r, Op("delete", k, TRUE), <<Op("range", k, TRUE)>>))

\* Slip: a key that is not found has revision 0.
PutGetAny(c, k) ==
    /\ put[c] = <<>> /\ append[c] = <<>>
    /\ \E i \in Shown(log, k, 0, Len(log)) : put' = [put EXCEPT ![c] = <<k, i>>]
    /\ UNCHANGED <<log, append, stream>>

\* Put reads first, and ends with the error of a key that is not found.
PutGet(c, k) ==
    /\ put[c] = <<>> /\ append[c] = <<>>
    /\ \E i \in Shown(log, k, 0, Len(log)) \ {0} : put' = [put EXCEPT ![c] = <<k, i>>]
    /\ UNCHANGED <<log, append, stream>>

PutUpdate(c) ==
    /\ put[c] # <<>>
    /\ Perform(c, Compared(put[c][1], put[c][2], Op("put", put[c][1], TRUE),
                           <<Op("range", put[c][1], TRUE)>>))
    /\ put' = [put EXCEPT ![c] = <<>>]

-----------------------------------------------------------------------------
(* Range over a prefix, as the cache calls it.                              *)

\* The n lowest of the set S.
First(S, n) == {i \in S : Cardinality({j \in S : j < i}) < n}

\* Slip: no more than the limit is asked for.
ListUnraised(shown) ==
    LET kvs == First(shown, Limit)
    IN [kvs |-> kvs, more |-> Cardinality(kvs) > Limit]

\* A list of the rows shown, one for each key: one more than the limit is asked
\* for, and cut off.
list(shown) ==
    LET kvs == First(shown, Limit + 1)
    IN [kvs |-> First(kvs, Limit), more |-> Cardinality(kvs) > Limit]

\* What the backend's list may find in the rows from a + 1 to r.
Lists(a, r) == {{f[k] : k \in Keys} \ {0} : f \in {g \in [Keys -> 0..MaxLog] :
                                                   \A k \in Keys : g[k] \in Shown(log, k, a, r)}}

\* The cache adds a page of revision r, and will go on after its last key, which
\* the backend looks for among the rows up to r.
TakePage(page, r, unsure) ==
    view' = [view EXCEPT
        !.rev = r, !.unsure = unsure,
        !.kvs = {i \in view.kvs : \A j \in page.kvs : log[i].key # log[j].key} \cup page.kvs,
        !.pc = IF page.more THEN "more" ELSE "listed",
        !.after = IF page.more THEN NewestAt(log, log[Max(page.kvs)].key, r) ELSE 0]

\* Keys that a list of revision r, of rows up to n, may show wrongly: those with
\* a tombstone, and those written after the revision was read.
Unsure(r, n) == {k \in Keys : \E i \in 1..n : log[i].key = k /\ (log[i].delete \/ i > r)}

\* Revision 0, the present: its revision is read first, and the rows later.
RangeFirst ==
    /\ view.pc = "list" /\ conn = "up"
    /\ view' = [view EXCEPT !.pc = "rows", !.rev = Len(log)]
    /\ UNCHANGED <<log, put, append, conn, serve, watches, done, stuck, go>>

\* If there are none, the current revision is read and listed, in a second call.
RangeRows ==
    /\ view.pc = "rows" /\ conn = "up"
    /\ \E shown \in Lists(0, Len(log)) :
         IF shown = {} THEN view' = [view EXCEPT !.pc = "relist"]
         ELSE TakePage(list(shown), view.rev, Unsure(view.rev, Len(log)))
    /\ UNCHANGED <<log, put, append, conn, serve, watches, done, stuck, go>>

Relist ==
    /\ view.pc = "relist" /\ conn = "up"
    /\ \E shown \in Lists(0, Len(log)) :
         TakePage(list(shown), Len(log), Unsure(Len(log), Len(log)))
    /\ UNCHANGED <<log, put, append, conn, serve, watches, done, stuck, go>>

\* The next page, at the revision of the first, from its last key on.
RangeMore ==
    /\ view.pc = "more" /\ conn = "up"
    /\ \E shown \in Lists(view.after, view.rev) : TakePage(list(shown), view.rev, view.unsure)
    /\ UNCHANGED <<log, put, append, conn, serve, watches, done, stuck, go>>

-----------------------------------------------------------------------------
(* The stream of watches.                                                   *)

Listing == [pc |-> "list", rev |-> 0, after |-> 0, kvs |-> {}, unsure |-> {}, id |-> 0]

\* watcher.Cancel, under its mutex.
CancelLocked(i) == watches' = watches \ {i} /\ done' = done \cup {i}

\* watcher.Start.
Start ==
    /\ view.pc = "listed" /\ conn = "up" /\ serve = "recv"
    /\ \E i \in Ids :
         /\ \A j \in Ids : go[j] = "none" <=> j >= i
         /\ view' = [view EXCEPT !.pc = "watch", !.id = i]
         /\ watches' = watches \cup {i}
         /\ go' = [go EXCEPT ![i] = "created"]
    /\ UNCHANGED <<log, put, append, conn, serve, done, stuck>>

\* The goroutine calls the backend's Watch.  Of NATS it gets a channel that stays
\* open when the context is cancelled; of SQL logs too, if Subscribe failed.
SendCreated(i) ==
    /\ go[i] = "created"
    /\ IF conn # "broken"
       THEN /\ go' = [go EXCEPT ![i] = "loop"] /\ stuck' \in {stuck, stuck \cup {i}}
            /\ UNCHANGED <<watches, done>>
       ELSE go' = [go EXCEPT ![i] = "failed"] /\ CancelLocked(i) /\ UNCHANGED stuck
    /\ UNCHANGED <<log, put, append, view, conn, serve>>

\* The cache applies the rows of a batch in which n is the last.
Apply(batch, n) ==
    view' = [view EXCEPT
        !.rev = n,
        !.kvs = {i \in view.kvs : \A j \in batch : log[j].key # log[i].key}
                  \cup {i \in batch : /\ log[i].key \in Keys /\ ~ log[i].delete
                                      /\ \A j \in batch : log[j].key = log[i].key => j <= i},
        !.unsure = {k \in Keys :
                      LET i == NewestAt(log, k, n)
                      IN IF i > view.rev THEN i \notin batch ELSE k \in view.unsure}]

\* A batch of the backend, which may have passed over rows (WatchPipeline).  If
\* it cannot be sent the watch is cancelled, and the loop goes on to empty the
\* channel.  A cache that has left the watch makes nothing of it.
SendEvents(i) ==
    /\ go[i] = "loop"
    /\ IF conn # "broken"
       THEN /\ view.id = i
            /\ \E n \in (view.rev + 1)..Len(log) : \E batch \in SUBSET ((view.rev + 1)..n) : Apply(batch, n)
            /\ UNCHANGED <<watches, done>>
       ELSE CancelLocked(i) /\ UNCHANGED view
    /\ UNCHANGED <<log, put, append, conn, serve, stuck, go>>

\* The channel is closed, because the context is cancelled or because the
\* backend ends the watch by itself; the watch is cancelled once more.
LoopEnds(i) ==
    /\ go[i] = "loop" /\ i \notin stuck
    /\ go' = [go EXCEPT ![i] = "ending"]
    /\ CancelLocked(i)
    /\ UNCHANGED <<log, put, append, view, conn, serve, stuck>>

LoopEndsCancelled(i) == i \in done /\ LoopEnds(i)

\* Slip: without defer, a goroutine whose first Send failed is never done.
DoneUnlessFailed(i) ==
    /\ go[i] = "ending"
    /\ go' = [go EXCEPT ![i] = "ended"]
    /\ view' = IF conn # "broken" /\ view.id = i THEN Listing ELSE view
    /\ UNCHANGED <<log, put, append, conn, serve, watches, done, stuck>>

\* The goroutine's last Send, of Canceled; a cache that is told lists again.
SendCanceled(i) ==
    /\ go[i] \in {"failed", "ending"}
    /\ go' = [go EXCEPT ![i] = "ended"]
    /\ view' = IF conn # "broken" /\ view.id = i THEN Listing ELSE view
    /\ UNCHANGED <<log, put, append, conn, serve, watches, done, stuck>>

\* The client cancels its watch: the loop of the stream does what the goroutine
\* does, and sends a Canceled of its own.
CancelRequest ==
    /\ view.pc = "watch" /\ conn = "up" /\ serve = "recv"
    /\ CancelLocked(view.id)
    /\ serve' = "cancel"
    /\ view' = Listing
    /\ UNCHANGED <<log, put, append, conn, stuck, go>>

CancelAnswered ==
    /\ serve = "cancel"
    /\ serve' = "recv"
    /\ UNCHANGED <<log, put, append, view, conn, watches, done, stuck, go>>

\* The client closes its side, or the connection breaks, which cancels the
\* context of the stream and of all its watches.  It has no more use for its
\* cache.
Disconnect(how) ==
    /\ conn = "up" \/ (conn = "eof" /\ how = "broken")
    /\ conn' = how
    /\ done' = IF how = "broken" THEN Ids ELSE done
    /\ view' = Listing
    /\ UNCHANGED <<log, put, append, serve, watches, stuck, go>>

\* Slip: only waits.
CloseUncancelled ==
    /\ serve = "recv" /\ conn # "up"
    /\ serve' = "closing"
    /\ UNCHANGED <<log, put, append, view, conn, watches, done, stuck, go>>

\* Recv fails: watcher.Close cancels what the map holds, and waits.
Close ==
    /\ serve = "recv" /\ conn # "up"
    /\ serve' = "closing"
    /\ done' = done \cup watches
    /\ UNCHANGED <<log, put, append, view, conn, watches, stuck, go>>

CloseReturns ==
    /\ serve = "closing"
    /\ \A i \in Ids : go[i] \in {"none", "ended"}
    /\ serve' = "closed"
    /\ UNCHANGED <<log, put, append, view, conn, watches, done, stuck, go>>

Init ==
    /\ log = <<Row(CompactKey, FALSE)>>
    /\ put = [c \in Clients |-> <<>>] /\ append = [c \in Clients |-> <<>>]
    /\ view = Listing
    /\ conn = "up" /\ serve = "recv"
    /\ watches = {} /\ done = {} /\ stuck = {}
    /\ go = [i \in Ids |-> "none"]

Goroutine(i) == SendCreated(i) \/ SendEvents(i) \/ LoopEndsCancelled(i) \/ SendCanceled(i)

Next ==
    \/ \E c \in Clients :
         \/ AppendRow(c) \/ PutUpdate(c)
         \/ \E k \in Keys :
              \/ Create(c, k) \/ PutGet(c, k)
              \/ \E r \in 1..MaxLog : Update(c, k, r) \/ Delete(c, k, r)
    \/ RangeFirst \/ RangeRows \/ Relist \/ RangeMore \/ Start \/ CancelRequest \/ CancelAnswered
    \/ \E i \in Ids : Goroutine(i) \/ LoopEnds(i)
    \/ \E how \in {"eof", "broken"} : Disconnect(how)
    \/ Close \/ CloseReturns

\* Once the connection is broken no Send waits for the client, and Recv fails.
\* A channel that is to be closed is.  Nothing is assumed of a stream that is up
\* or half closed, where a Send waits as long as the client does not read.
Fairness ==
    /\ \A i \in Ids : /\ WF_vars(conn = "broken" /\ Goroutine(i))
                      /\ WF_vars(conn = "broken" /\ LoopEndsCancelled(i))
    /\ WF_vars(conn = "broken" /\ CancelAnswered)
    /\ WF_vars(Close) /\ WF_vars(CloseReturns)

Spec == Init /\ [][Next]_vars /\ Fairness

-----------------------------------------------------------------------------
(* Properties.                                                              *)

Quiet == /\ stream = <<Listing, "up", "recv", {}, {}, {}, [i \in Ids |-> "none"]>>
         /\ \A c \in Clients : put[c] = <<>> /\ append[c] = <<>>

Ops(k) == {Op("put", k, TRUE), Op("put", k, FALSE), Op("range", k, TRUE), Op("delete", k, TRUE)}

\* Transactions on one key, as clients build them; no comparison is the target
\* NONE.  Put's options are for create to refuse.
TxnsOf(k) ==
    {t \in [key: {k}, target: {"NONE", "MOD", "VERSION"}, equal: BOOLEAN, rev: 0..MaxLog,
            success: UNION {[1..n -> Ops(k)] : n \in 0..2},
            failure: UNION {[1..n -> {Op("range", k, TRUE), Op("delete", k, TRUE)}] : n \in 0..1}] :
       isUpdate(t) => t.success[1].plain}

NeverDeleted(L, k) == \A i \in DOMAIN L : L[i].key = k => ~ L[i].delete

\* What LimitedServer.Txn recognises among the transactions on one key it carries
\* out as etcd would, from every content of the store, if nothing is written
\* between its read and its write: it writes the same rows and gives the same
\* verdict.  The exceptions: deleting an absent key is a success; a delete that
\* compares with revision 0 deletes what is there; and an update of a key that
\* was deleted before may be turned down, or carried out on top of a tombstone
\* whose revision it names.  What is refused writes nothing.
TxnIsEtcd ==
    Quiet => \A k \in Keys \cup {CompactKey} : \A t \in TxnsOf(k) : \A a \in Txn(log, t) :
        LET e == Etcd(log, t)
        IN IF a.ok = "error" \/ isCompact(t) THEN a.rows = <<>>
           ELSE IF isDelete(t) /\ t.rev = 0 THEN Mod(log \o a.rows, k) = 0 /\ a.ok = "yes"
           ELSE \/ a.rows = e.rows /\ (a.ok = e.ok \/ (isDelete(t) /\ Mod(log, k) = 0 /\ a.ok = "yes"))
                \/ /\ isUpdate(t) /\ ~ NeverDeleted(log, k)
                   /\ a.ok = "yes" => NewestAt(log, k, Len(log)) = t.rev
                   /\ a.ok = "no" => a.rows = <<>>

\* The cache holds of a key what the store had at its revision: pages taken while
\* rows are written, the start of the watch behind the list, and the end of one
\* watch and the beginning of another neither lose a key nor repeat or revive
\* one.  Not so, until the next event of the key, for keys that were deleted
\* before the list, written between its revision and its rows, or passed over.
CacheIsPastState ==
    view.pc \in {"listed", "watch"} =>
        \A k \in Keys \ view.unsure :
            {i \in view.kvs : log[i].key = k} = {i \in LiveAt(log, view.rev) : log[i].key = k}

\* When Close waits, the context of every goroutine that is still to list or to
\* range over its channel is cancelled: the map has lost none of those that
\* neither their client, nor a failed Send, nor the backend had ended.
CloseCancels ==
    serve \in {"closing", "closed"} =>
        \A i \in Ids : go[i] \in {"created", "loop"} => i \in done

\* Close waits for goroutines whose channel is never closed, and for no others.
WaitsForStuck ==
    /\ serve = "closing"
    /\ \A i \in Ids : go[i] \in {"none", "ended"} \/ (go[i] = "loop" /\ i \in stuck)

\* Once the connection is broken, Close gets past its wait: every goroutine of
\* the stream ends, whichever cancels, failed sends and requests came before; but
\* for those that range over a channel which the backend never closes.
CloseEnds == (conn = "broken") ~> (serve = "closed" \/ WaitsForStuck)
=============================================================================
