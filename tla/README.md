# TLA+ verification of the DDS back end of kine

The repository runs kine, the shim that lets Kubernetes use something other
than etcd, on a database built from DDS topics. kine (Go, `src/kine`) speaks
etcd's protocol to the API server and keeps a log of rows; the database (C++,
`src/DdsDatabase`), one process per master, replicates the rows between its
nodes with Cyclone DDS. kine was written for SQL: its correctness leans on a
serial primary key, a unique index and transactions. This project models what
takes their place.

## 1. Inventory

| Component | State | Operations | Hard behaviour |
|---|---|---|---|
| Database, replicated table (`Database.cpp`) | rows by id in each node's DDS reader; maxid samples; matched flags | init, publish with a new id, publish with a given id, dispose, republish | handler threads, nodes without a common lock, late delivery, unsynchronised clocks, a writer's death |
| Database, queries | none of its own; parameter vectors under mutexes | query 1, 3, 4, 9, 11, compaction queries | samples in no order, grouping and limits by hand |
| Controller (`Controller.cpp/.hpp`) | pointer to the database | gRPC handlers | runs before init() is through |
| Generic driver (`generic.go`, `tx.go`) | gRPC clients | Insert, Fill, After, List, Count, deadlines | a deadline passes though the row is written |
| SQLLog (`sql.go`) | notify channel; variables of poll | Append, List, After, Watch, poll, compactStart | gaps between reserved and written ids, dropped notifications, retry, fill, skip |
| Broadcaster | subscriber channels | Subscribe, stream, unsub | slow consumers |
| LogStructured (`logstructured.go`) | none; goroutines for leases | Create, Update, Delete, List, Count, Watch, ttl | read-decide-append in separate calls; joining a list to a stream; expiry against renewal |
| etcd front end (`pkg/server`) | watches by id, with a goroutine each | Range, Txn, Watch | recognising transactions; paging while rows are written; cancellation from three sides, and the wait for the goroutines |
| Client (`pkg/client`) | none | List, Get, Put, Create, Update, Delete | get-then-write |
| NATS driver (`drivers/nats`) | a JetStream bucket; a mutex per folder | the same backend interface | read-then-write under a lock of the process only; readers that delete; two writes per delete; crashes |
| Endpoint, main, SQL drivers | listener, socket path, dqlite's database | New, setup, migrate, Start, Listen | drivers that never connect; starts that overlap, time out, die half way |
| TLS, metrics, rdpmctsc, version, generated code | configuration | none | none |

A request goes: API server → front end → LogStructured → SQLLog → generic
driver → gRPC → Controller → Database → DDS. The other direction is by
polling: poll reads new rows through the same path and hands them to the
Broadcaster, which feeds every watch. The NATS driver takes the place of
everything from LogStructured on.

What makes the components correct: ids are unique and revisions do not go back;
nodes converge; a query answers what its SQL statement would; a watch gets every
event, once, in order, and no missing row stops it; of requests on one key none
silently undoes another; a row outlives its writer; what a client has listed and
watched is what the store held; a process serves with what its start is to
write, and a start comes to its end. `PROJECT.json` lists the hazards, each at its line.

## 2. Modules

| Module | Models | Proofs |
|---|---|---|
| `DdsDatabase` | the replicated table: reservation of ids, inserts, fills, disposals, delivery | `DdsDatabaseProofs` |
| `CommonSubquery` | one query against one content of a reader, beside its SQL | `CommonSubqueryProofs` |
| `WatchPipeline` | Append, notify, poll, Fill, Broadcaster, LogStructured.Watch over the database as kine sees it | `WatchPipelineProofs` |
| `LogStructured` | Create, Update, Delete and lease expiry over the log, and poll's fills | `LogStructuredProofs` |
| `Failover` | the replicated table when processes die and are started | `FailoverProofs` |
| `KVStore` | the abstract store that a backend promises | |
| `Nats` | the NATS driver over its bucket; implements `KVStore` | `NatsProofs` |
| `FrontEnd` | LimitedServer's transactions, Range, the watcher, the client, over the DDS backend | `FrontEndProofs` |
| `Startup` | from `main` to the listener, for every driver | `StartupProofs` |

Each but `KVStore` has an `MC` module that adds the symmetry sets for TLC. Operators whose
comment begins with "Slip" change one definition the way a mistake in the code
would; each property is known to fail under one of them.

### DdsDatabase

`rows[n]` and `maxids[n]` are the two DDS readers of node n, `net` and
`maxidNet` the samples on their way. The middleware is modelled from the QoS in
`init()`: reliable, one writer's samples in order, the writer's own reader
first; rows transient-local, ordered by source timestamp, one sample per key
(no History policy is set on the data topic, so the default KEEP_LAST 1 holds);
maxids volatile. `Start` is init(). `Reserve` and `Insert` are the two halves of `core_publish_returningid`, between which
`mutex_maxidtopic` is not held. Either write may throw: a row that is not
written leaves a gap in the ids; a maximum that is not written back leaves the
topic empty, and ids and revisions start over from 0. The history variable
`lost` records the latter, and what is said of ids and revisions holds until
then. `PublishId` is `core_publish` as Fill uses it,
below an id that exists; `Dispose` is `expose_dispose`. `query_maxid` is an
operator, because it runs entirely under the mutex.

### CommonSubquery

`reader` is any set of samples with distinct ids, `query` any of the four
queries with any parameters. `Iterate` is one turn of the loop of
`query_common_subquery` and takes the samples in any order. Of a name pattern
only the set of names it matches is kept. `SqlResult` is written from the SQL
text in `generic.go`, independently of the loop.

### WatchPipeline

The database is reduced to `maxid` and `rows`, with the two-step insert of
`DdsDatabase`; rows are told apart by id and by being fillers. poll is one
action per step: `PollNotified`/`PollTick` (the select), `PollRead`,
`PollEvent` (an event is taken), `PollGap` (first sight of a gap, or on to
Fill), `PollFill`, `PollSend`. `AppendWrite` may lose the row and `AppendReturn`
may miss the deadline. `Watch`, `WatchMaxId`, `WatchRows` and `WatchNext` are
LogStructured.Watch: the two halves of After are separate because the database
reads the max_id column before the rows. `fate` and `inflight` are history.
A subscriber's channel here stands also for the one of SQLLog.Watch, of the same
capacity, whose filter leaves out other prefixes. `WatchUnconnected` is a first
subscription that cannot read the compact revision: the watch lists, and then
ranges over a nil channel for good.

### LogStructured

Each request is an action that reads and decides (`Create`, `Update`,
`Delete`, `Expire` for ttl) followed by the steps of Append. `MayShow` is what
query 4 shows when deleted rows are excluded, which `CommonSubquery` found to
be any newest row, a tombstone or not. A request that fails its check changes
nothing and is left out; so are values. ttl's goroutines share a mutex, so they
are one process. `asked[i]` is the row that was given id i, `pending` the ids
whose row a handler has yet to write, `stored` those whose row is there: a write
may be lost, and `Fill`, which poll decides on in `PollGap`, puts a filler in the
place of whatever the id has by then. `done`, `basis` and `filled` are history:
which answers had been given, which of them when a request read its key, and
which ids have had a filler.

### Failover

`DdsDatabase` lets processes live; here they die. `writers[n][i]` are the
writers of row i that n takes to be alive: with none left the row is in the
state NO_WRITERS, which every query leaves out. `WriterLost` is the middleware
noticing a death, one reader at a time; it drops what the dead writer had still
under way and puts an invalid sample in the reader. The dead writer's maxid samples may
stay, or be disposed of and purged (`PurgeMaxIds`), as the QoS of that topic asks;
which it is, is the middleware's. `listener_ondataavailable`,
`RepublishRead`, `RepublishRow`, `republish_message_maxid` and `RepublishEnds`
are the listener and the thread that it starts, with `started_republish` as
"not off". The history variable `missed` holds the rows that a death noticed
between the thread's read and the end of its sleep leaves without a writer, and
those whose republishing threw; `behind` the processes that were started after ids had been handed
out, whose last maxid sample died with its sender, or that had it purged, until
they hear of the largest. Rows' contents, Fill and disposal are in `DdsDatabase`.

### KVStore and Nats

`KVStore` is `server.Backend` for create, update, delete and get: a call, one
moment at which it takes effect, an answer, or an error that leaves open
whether it did. `Nats` is the driver: `stream` is the bucket, of which the
driver's calls see the newest entry of a key (`KvGet`), one by revision, the
last `History` ones, or all in order (a watch). `get`, `isKeyExpired`, `write`
and `mark` are the steps of the three writing methods between calls of the
bucket; each may fail, stored or not, and `Crash` ends a process between any
two. `AtomicStore` is the refinement, for the keys that are never written with a
lease: `Request` maps a request to the caller's view of it, with Delete taking
effect at its tombstone. Keys with a lease are in the same folder and bucket,
because their removal by readers is what could disturb the others.

### FrontEnd

`log` is the store, a row for each revision. A backend call reads it and decides,
and `AppendRow` writes its row later, whatever has been written since: `append[c]`
is the call of a client in between. `Txn` is what LimitedServer.Txn decides on, for
a transaction with a key of its own in each operation, as create.go, delete.go and
update.go take one of them each; `Etcd` is what etcd's API says of the same
transaction. `Shown` is what a read without deleted rows may show of a key
(`CommonSubquery`, mode "f").

A cache, as the apiserver keeps one, lists by pages and watches from the next
revision on. The revision of the first page is read in `RangeFirst`, its rows in
`RangeRows`; each list may show a deleted key's rows in any of the ways of
`Shown`, and a batch of a watch may leave out rows. `view.unsure` is history: the
keys of which one of these may have given the cache a wrong row.

`go[i]` is the goroutine of a watch, `done` its cancelled contexts, `stuck` the
watches whose channel the backend never closes (a cancelled one of NATS,
nats.go:913; one whose subscription failed, sql.go:391), `serve` the loop that
receives requests. Where the code sends on the stream the connection may be up,
half closed or broken.

### Startup

`proc[p].pc` follows a process from `main` through the driver's New and the
backend's Start to its listener. The DDS database is reduced to how many rows of
a name queries return (`seen`), how many are without a writer (`hidden`), and
which calls are still to be carried out although their caller has gone
(`late`). `overlap`, `faulty`, `broken` and
`skipped` are history. `Connect` holds the steps of New and of NATS, whose calls
have no deadline, `Listen` those of Start on the DDS database and of the listener.

## 3. Runs

| Run | Result | Question |
|---|---|---|
| `dds_single` | pass | ids, revisions and convergence with one inserting node, two nodes filling and disposing, two handler threads |
| `dds_two` | violated | are ids unique when two nodes take inserts? |
| `failover` | pass | do rows outlive their writers, do survivors agree, does the next process know the ids? |
| `subquery_t` | pass | do queries that include deleted rows return what SQL would? |
| `subquery_f` | violated | do queries that leave out deleted rows return what SQL would? |
| `watch` | pass | does poll account for every revision and get past every gap, and a watch stay in order and complete but for rows in flight? |
| `fill_overwrites` | violated | does an acknowledged row stay? |
| `log_two` | pass | are requests in sequence safe, and create revisions right? |
| `lost_update` | violated | is (name, prev_revision) unique? |
| `nats` | pass | is the NATS driver an atomic store for keys without a lease; what do its lists and watches lose? |
| `frontend` | pass | do transactions on a key mean what etcd says, does a cache hold a past state, does Close return? |
| `startup` | pass | when does a start panic, with which rows does a process serve, and do starts end? |

The four violated runs are places where the DDS database gives kine less
than SQL does; `findings` quotes what the code's comments and schemas say.

What the passing runs say is often as much in their exceptions:

* `DeadRowIsNoticed` and `DeadRowReturns` hold but for `missed`: a second death
  noticed while `started_republish` is held, the sleep of 500 ms included, leaves
  rows hidden until the next death.
* `NextInLineIsCurrent` holds but for `behind`: the maxid topic is volatile, so a
  process started after the first insert knows no id until another writes one; nor
  may one know the last id whose maxid samples were purged with their writer.
* `MissedOnlyInFlight`: a watch that starts while a row is reserved but not
  written, and joins its list behind it, never tells of that row.
* `StreamAscending` is of the list and the stream together, but for rows of the
  list newer than its revision: the max_id column is read before the rows
  (Database.cpp:1303, 1335), so a row written in between is listed, and streamed
  again (logstructured.go:346).
* `NoLostUpdateInSequence` is of rows that are, or will be, in the database. A row
  that was acknowledged and is gone, its write having thrown (Database.cpp:835) or
  a filler having replaced it (sql.go:508), is replaced again unnoticed. For the
  latter reason `CreateRevisionIsCreate` allows a filler in the creation's place.
* `PanicsOnlyAfterOverlap`: two starts that both find no compact_rev_key write
  two, and from then on every start panics. One process that is started again
  is enough, when its first append timed out and is carried out late.
* `MigratedWhole`: a sqlite file that cannot be found, opened or queried is no error
  (dqlite.go:136-150); the start goes on with an empty database, and `skipped`.
* `TxnIsEtcd` is of transactions on one key that nothing overlaps. A delete that
  compares with revision 0 deletes whatever is there, and an update of a key that
  was deleted before may be turned down, or carried out on the tombstone. Of a
  transaction whose comparison and operation name two keys, create and delete
  take the operation's (create.go:17, delete.go:16, 25) and update the
  comparison's (update.go:17-20), where etcd would compare one and write the other;
  the definitions say so, the property leaves them out.
* `CacheIsPastState` leaves out `view.unsure`: keys that had been deleted before the
  list, of which mode "f" may show a tombstone or nothing; keys written between
  the list's revision and its rows; keys of which the watch passed over a row.
* `CloseEnds` says that Close waits for good if a channel is never closed, and
  for no other reason.
* `AtomicStore` is of one process. Two processes on a bucket lose updates, since
  the folder's mutex is local and the put names no revision; nothing in the
  repository says that they may be run so.

Two things are seen in the model that no property says. sqlite (which main.go:36
calls the default), mysql and dqlite never serve: only pgsql makes the connection
that the generic driver uses, and the others panic at their first call
(`StartUnconnected`); scripts/test-run-sqlite:3 and scripts/test-run-mysql:19
provision clusters on them all the same. And a query in mode "f" shows a name by
whichever of its samples was read first (Database.cpp:1171), as `subquery_f`
finds; `LogStructured` and `FrontEnd` take it into account (`MayShow`, `Shown`).

Bounds. `dds_single`: two nodes and two threads are the fewest that interleave
within a node and between nodes; three ids and three timestamps allow two
writes to one key from different nodes that overtake each other. `subquery_*`:
two names and three ids give a name several samples while another has some,
and limits 0, 1, 2 fall below, at and above the number of groups; one name and
two ids are enough for `subquery_f`. `watch`: ids
2 and 3 make a gap (row 3 before row 2); channels of capacity 1 are full after
one item; a batch of 2 reaches the threshold for reading on at once.
`fill_overwrites` runs without write failures and with room in the channels, so
that the counterexample needs neither. `log_two`: three
appends allow create, update or delete, and a third that overlaps both, on one
key or two, one of which makes a gap that is filled; a lease of TRUE only adds the expiry. `failover`: two processes that are
up and a third that starts late, which may be the restart of a dead one; two
deaths are the fewest of which one falls into the republishing after the other;
two ids make a row that is hidden and one that is not. `nats`: a key without and
one with leases in one folder; a bucket that a crash left between the two writes
of a delete; five entries allow a create, an expiry and a renewal, or an update
and a delete by two overlapping requests, beside a list or a watch; two entries
of history, so that previous values are lost. `frontend`: pages of one key, with
two keys, have a second page; three writes fall before, between and after the
pages, and within a call; the second of two watches starts while the first one ends. Transactions
are checked for every content of the store with nothing else going on. `startup`:
two processes on one host, started three times, so that a start is overlapped,
follows one that died, or follows a late append; rows are counted up to two, as
the code tells one from more. Symmetry is used for threads,
clients and names, which no property tells apart, and not with liveness.

Deadlock is not checked where the bound on ids or the end of a single query
stops the model; `WatchPipeline` is checked for deadlock in all runs, its
ticker keeps it going.

Fairness (`WatchPipeline`). Weak fairness of the ticker, of poll's steps, of the
Broadcaster and of the passing of a second: each is a goroutine that nothing
else blocks for good, as stream never waits for a subscriber. Strong fairness of
`PollRead`: the database may fail reads, not every one of them. Nothing is
assumed of appends, of Fill succeeding, or of notifications being delivered.

`Failover`: the middleware calls its listener when a sample waits, and the
detached thread runs on; nothing of when a message or the notice of a death
arrives, nor that writes succeed. `FrontEnd`: once the connection is broken, the
goroutines of the stream and the loop that receives take their next step, as no
Send then waits for the client; Close takes its own. A cancelled watch's channel
is closed unless it is one of `stuck`; nothing is assumed of clients, nor of a
stream that is up or half closed, where a Send may wait for good. `Startup`: a
process takes the steps of `Listen`, where every call has a deadline
(compactStart's and the health key's through tx.go). Nothing is assumed of
`Connect`: the Ping of generic.go:165, the Execs of mysql.go:123-156 and
sqlite.go:132, migrate's context (dqlite.go:127) and NATS have none, so a silent
server hangs a start there. `StartEnds` is of starts that are past it.

## 4. Proofs

The theorems hold for every number of processes, threads, clients, watches,
keys, ids and channel capacities: the bounds of section 3 are constants here.
Their assumptions are the `ASSUME`s of the modules, on the kinds of the
constants (there is a key; no process is called `NoNode`); what a theorem needs
beyond them is a hypothesis of its statement. Every theorem of a property P is
`Spec => []P`, from an invariant that the initial states have and every action
keeps, one lemma per action; the invariants of `Failover`, `Startup`,
`FrontEnd`, `WatchPipeline` and `Nats` were checked with TLC on the instances of
section 3 before they were proved.

* **DdsDatabase.** `RowsInv` carries `Convergence`: what a reader holds of a key
  is a written sample, and every written sample is either no newer than it or
  still on its way. With no two samples of one timestamp, two quiet readers
  hold the same. `CurrentRevisionMonotone` is not inductive but holds of every
  step that does not lose the maximum, since it is written back incremented.
  `IdsUnique` and `RevisionCoversRows` need `SingleWriter` and `IdsInv`: until a
  maximum is lost, the writer's maxid is ahead of every id handed out, held by a
  handler, or written on any node. The last part is there because Fill on
  another node writes ids too.
* **CommonSubquery.** `NewestPerName` is the loop invariant; with `ReadInv` (what
  was read is what the filter admits, and subquery 1 found the largest id of
  the start key), `MapInv` (with "t" every entry is visible) and `CollectInv` it
  gives `ResultIsSql` for queries without a limit.
* **LogStructured.** `LogInv`: a row that is decided on, reserved or stored
  replaces a row of its key with a smaller id, passes on the id of a creation
  that was stored, and is built on every answered row of its key that is there. The last is stable because an
  answered id is never written afterwards, which is why the invariant speaks of
  `pending`: its row is there from then on or gone. Of two rows replacing the same
  revision neither can then have been answered before the other was read, unless
  it is gone.
* **Failover.** `DeadRowIsNoticed` is inductive with little help. For
  `SurvivorsAgree` the invariant says what the middleware keeps true through
  deaths: readers know every writer that lives (`KnowTheLiving`), and what a
  living writer would resend has come to every other process or is on its way
  (`HistoriesReach`). In a settled state every row that is held has a living
  writer, and that writer's history has reached all. For `NextInLineIsCurrent`
  it says that an id that a process does not know of, and is not excused from,
  is on its way from the process that clients use (`ActiveTells`): when that one
  dies and the sample is lost, or the process purges what it had, it becomes
  `behind`.
* **Startup.** `DriverAt` says which drivers can be at which step and, with it,
  who may panic (only pgsql and NATS are ever past `start`); `OneCompactKey` that without an overlap there is at most one
  compact_rev_key, those under way and those still to be written for a caller
  that has gone included; `RowsAt` how far the two rows are at each step;
  `Migration` that an incomplete copy is going on or was interrupted, and that an
  empty one was skipped.
* **FrontEnd.** `CacheExact`: of every key that it is sure of, the cache has what
  the store had at its revision, as far as its pages have got (`UpTo`); and while
  there are pages to come such a key has no tombstone (`Settled`), so that a list
  shows its newest row. The pages are initial segments of what the lists show
  (`ListIs`, `PageMerges`, from what the first n of a set are); `BatchIsExact` is
  the step of a batch that leaves out rows. `CacheFollows`: a
  cache that watches has a watch that was started, and one that lists has none. `CloseCancels` rests on `MapCovers`, that a goroutine before the end of
  its loop is in the watcher's map or cancelled. `TxnIsEtcd` is proved of every
  store and every transaction, not only of those that the clients have reached:
  the cases of `Txn` against those of `Etcd`.
* **WatchPipeline.** `Round` is the invariant of poll's loop: between `last` and
  `rev` every revision is about to be sent or has its fate. `StreamAscending`
  and `MissedOnlyInFlight` need more of each watch: what it has streamed is
  before what is in its channel, and that before what the broadcaster holds,
  all of it sent by poll (`Ordered`, with `SentAreRows`); and up to
  `lastRevision` no row can appear that was neither in the list nor in flight
  when the list was read (`Joined`). That the stream comes after the list is
  `Followed`: nothing up to `lastRevision` is sent on.
* **Nats.** For any number of processes: a watch has got, in order, what is
  before everything it will yet pass on (`InOrder`), and what it will not get
  had been replaced (`MissesReplaced`); a list of the present has what was there
  at its revision but for later entries and ended leases (`Covers`). The other
  two theorems have as hypotheses `OneProcess`, that all writers are of one
  process and every key has a folder (`getTopLevelKey` has none for a key with
  fewer than two slashes), and `SoundBucket`, that the bucket that is found has the
  create revisions such a process would have left and no leases on plain keys;
  the instance of the run satisfies both, and without them the claims are false.
  `OneInv` says what the mutex is for: the key of a request that writes is as the
  request read it, stays deleted between the two writes of a delete, and is
  created by nobody else meanwhile. `ServesAtomically` is the refinement: the
  initial states are those of `KVStore`, and every step is one of its steps or
  changes nothing of it. A read that needs no write takes effect then, a writer
  at its write, also one whose call fails, a delete at the tombstone; its marker
  is no step at all. Lists, watches, keys with a lease and crashes are steps of
  `Abandon`, which lets revisions pass and requests end.

Facts about data (the largest of a set, the ascending list of one, the first n)
are proved without an induction rule from the least-number principle
(`WFMin`): a smallest counterexample has a predecessor.

Only model-checked: `ResultIsSql` with a limit (counting the rows below one
needs induction over finite sets), and liveness (`CatchesUp`, `DeadRowReturns`,
`CloseEnds`, `StartEnds`), which is out of the prover's reach.

## 5. Not modelled

* Compaction: the compactor is never started, its go statement in startWatch
  being commented out, and `query_mass_dispose_compaction`, DisposeRow and
  SetCompactRevision have no other caller. LimitedServer's compact does nothing.
* Fill and disposal across deaths; two processes that both take inserts after a
  death, which is `dds_two`.
* `query_03` and Count: they change no state. The capacity of a read
  (`maximum_messages_`): see the note of its hazard. Integer widths: ids are 64-bit
  in kine and int in the queries (Database.cpp:1555), which takes 2^31 inserts to
  matter.
* NATS: List with a start key, Count, DbSize, limits, values and their codecs.
* Front end: what transactions on two keys do to the store (their decisions are
  defined, no client here sends them); count-only and keys-only ranges, gets at an old revision, leases,
  status. Two goroutines that send on one stream at once, which gRPC forbids and
  the code does, are one after the other here.
* Names as strings: `LIKE 'prefix%'` against a substring search.
* Values, TLS, flags, measurement code, `TESTING_` functions, generated code.
* `query_count_all`, `run` and the listeners' printing change nothing.

## 6. Plan

1. `ResultIsSql` with a limit: that `Resize` after the sort keeps the rows that
   SQL's LIMIT would, by a smallest counterexample as for `First`.
2. `FrontEnd`: what transactions whose comparison and operation name two keys do
   to a store that others write to.
3. `LogStructured`: what overlapping requests can still not do, as an action
   property.
