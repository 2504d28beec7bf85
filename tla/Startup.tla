------------------------------ MODULE Startup ------------------------------
(***************************************************************************)
(* The start of kine (main.go, endpoint.Listen): the driver is chosen by    *)
(* the endpoint, its New connects, the backend's Start writes its first     *)
(* rows, and only then the listener is opened.  Processes start, end and    *)
(* are started again at any time, on one host and on shared storage.        *)
(*                                                                          *)
(* Storage is external: the DDS database behind the gRPC calls of the       *)
(* generic driver, where a call that has passed its deadline may still be   *)
(* carried out; the bucket of the NATS server; the database of dqlite.      *)
(***************************************************************************)
EXTENDS Naturals, FiniteSets

CONSTANTS
    Procs,       \* processes of kine
    Endpoints,   \* --endpoint, by its scheme
    Configs,     \* which process is given which
    Histories,   \* revHistory of a NATS endpoint, as a number; 0 is rejected
    OldRows,     \* rows of ./db/state.db, from which dqlite migrates
    MaxStarts    \* bound: starts of processes

ASSUME StartupAssumption ==
    /\ Configs \subseteq [Procs -> Endpoints]
    /\ Histories \subseteq Nat
    /\ MaxStarts \in Nat

\* The rows that Start writes: compact_rev_key and /registry/health.
Rows == {"compact", "health"}

NoOne == "no one"

\* Rows are counted up to two: what there is beyond one makes no difference.
Two(n) == IF n < 2 THEN n ELSE 2

VARIABLES
    endpoint, \* endpoint[p]: p's --endpoint, the same at every start
    proc,     \* proc[p]: a process
    seen,     \* seen[r]: rows of that name in the DDS database that queries return
    hidden,   \* hidden[r]: and those whose writer is dead, until they are republished
    late,     \* late[r]: RequestPublish calls still to be carried out, the caller gone
    starts,   \* how many starts there were
    bucket,   \* the bucket's history, 0 if there is no bucket
    newRows,  \* rows of dqlite's database
    port,     \* the process that listens on the TCP address
    sock,     \* the process whose socket the unix path is
    overlap,  \* history: a start that found no compact_rev_key overlapped the write of one
    faulty,   \* history: rows that a start failed to write, and served nevertheless
    broken,   \* history: a migration ended half way
    skipped   \* history: a start went on without the old rows it could not read

disk == <<endpoint, bucket, newRows>>
net == <<port, sock>>
table == <<seen, hidden, late>>
history == <<overlap, faulty, broken, skipped>>
vars == <<proc, starts, table, disk, net, history>>

\* sent: the row of a RequestPublish that is to be carried out.
Down == [pc |-> "down", comms |-> FALSE, copied |-> {}, sent |-> "none"]

Ended == {"down", "exited", "panicked", "serving", "etcd"}

Pcs == Ended \cup {"new", "setup", "migrate", "copy", "embed", "bucket", "start",
                   "append", "health", "create", "listen", "bind", "chmod"}

Processes == [pc: Pcs, comms: BOOLEAN, copied: SUBSET OldRows, sent: Rows \cup {"none"}]

TypeOK ==
    /\ proc \in [Procs -> Processes]
    /\ endpoint \in [Procs -> Endpoints]
    /\ seen \in [Rows -> 0..2] /\ hidden \in [Rows -> 0..2]
    /\ late \in [Rows -> 0..2] /\ starts \in 0..MaxStarts
    /\ bucket \in Histories \cup {0} /\ newRows \subseteq OldRows
    /\ port \in Procs \cup {NoOne} /\ sock \in Procs \cup {NoOne}
    /\ overlap \in BOOLEAN /\ faulty \subseteq Rows /\ broken \in BOOLEAN
    /\ skipped \in BOOLEAN

-----------------------------------------------------------------------------

At(p, pc) == proc[p].pc = pc

Go(p, pc) == proc' = [proc EXCEPT ![p].pc = pc]

\* run returns the error, or the process ends by a panic.
Exit(p) == proc' = [proc EXCEPT ![p] = [Down EXCEPT !.pc = "exited"]]
Panic(p) == Go(p, "panicked")

ParseStorageEndpoint(e) ==
    IF e = "" THEN "sqlite" ELSE IF e \in {"http", "https"} THEN "etcd3" ELSE e

driver(p) == ParseStorageEndpoint(endpoint[p])

\* For etcd itself there is nothing to serve; an unknown scheme is an error.
Launch(p) ==
    /\ At(p, "down") /\ starts < MaxStarts
    /\ proc' = [proc EXCEPT ![p] =
         [Down EXCEPT !.pc = IF driver(p) = "etcd3" THEN "etcd"
                             ELSE IF driver(p) = "other" THEN "exited" ELSE "new"]]
    /\ starts' = starts + 1
    /\ UNCHANGED <<table, disk, net, history>>

-----------------------------------------------------------------------------
(* The drivers' New.                                                        *)

News(p, drivers) == At(p, "new") /\ driver(p) \in drivers

Untouched == UNCHANGED <<starts, table, disk, net, history>>

\* A connection string, file, certificate or database that New cannot use.
NewFails(p) ==
    /\ At(p, "new")
    /\ Exit(p)
    /\ Untouched

\* pgsql: the gRPC connection to the DDS database is made.  generic.Open, whose
\* loop ends after the first attempt, returns a nil dialect when the SQL
\* database does not answer; no method that is used touches what it points to.
NewPgsql(p) ==
    /\ News(p, {"postgres"})
    /\ proc' = [proc EXCEPT ![p].pc = "start", ![p].comms = TRUE]
    /\ Untouched

\* mysql and sqlite assign fields of the dialect, which panics when it is nil;
\* neither makes the gRPC connection.
NewMysql(p) ==
    /\ News(p, {"mysql"})
    /\ Go(p, "start") \/ Panic(p)
    /\ Untouched

NewVariant(p) ==
    /\ News(p, {"sqlite", "dqlite"})
    /\ Go(p, "setup") \/ Panic(p)
    /\ Untouched

\* The schema is created, in up to 300 attempts.
setup(p) ==
    /\ At(p, "setup")
    /\ Exit(p) \/ Go(p, IF driver(p) = "dqlite" THEN "migrate" ELSE "start")
    /\ Untouched

\* dqlite: an empty database takes over the rows of the sqlite file.  The count
\* of its own rows, or the transaction, may fail.
migrate(p) ==
    /\ At(p, "migrate")
    /\ Exit(p) \/ Go(p, IF newRows # {} THEN "start" ELSE "copy")
    /\ Untouched

\* The file cannot be found, opened or queried: no error, and the start goes on.
migrateSkips(p) ==
    /\ At(p, "migrate") /\ newRows = {}
    /\ Go(p, "start")
    /\ skipped' = TRUE
    /\ UNCHANGED <<starts, table, disk, net, overlap, faulty, broken>>

\* Slip: rows are numbered anew.
RenumberRow(p, r) ==
    /\ At(p, "copy") /\ r \notin proc[p].copied
    /\ proc' = [proc EXCEPT ![p].copied = @ \cup {r}]
    /\ newRows' = newRows \cup {r - 1}
    /\ UNCHANGED <<starts, table, endpoint, bucket, net, history>>

\* The inserts are made beside the transaction that is begun for them, one by
\* one; a row that is there already is an error.
migrateRow(p, r) ==
    /\ At(p, "copy") /\ r \notin proc[p].copied
    /\ IF r \in newRows THEN Exit(p) /\ UNCHANGED newRows
       ELSE /\ proc' = [proc EXCEPT ![p].copied = @ \cup {r}]
            /\ newRows' = newRows \cup {r}
    /\ broken' = (broken \/ r \in newRows)
    /\ UNCHANGED <<starts, table, endpoint, bucket, net, overlap, faulty, skipped>>

\* The rollback takes nothing back.
migrateFails(p) ==
    /\ At(p, "copy")
    /\ Exit(p)
    /\ broken' = TRUE
    /\ UNCHANGED <<starts, table, disk, net, overlap, faulty, skipped>>

\* Slip: only the first row is read.
EndsEarly(p) ==
    /\ At(p, "copy") /\ proc[p].copied # {}
    /\ Go(p, "start")
    /\ Untouched

migrateEnds(p) ==
    /\ At(p, "copy") /\ proc[p].copied = OldRows
    /\ Go(p, "start")
    /\ Untouched

\* nats, with the server embedded unless the scheme is jetstream.
NewNats(p) ==
    /\ News(p, {"nats", "jetstream"})
    /\ Go(p, IF driver(p) = "nats" THEN "embed" ELSE "bucket")
    /\ Untouched

\* The wait for the embedded server has no bound.
ReadyForConnections(p) ==
    /\ At(p, "embed")
    /\ Go(p, "bucket")
    /\ Untouched

\* parseConnection: 0 stands for what it rejects, or takes for no number.
\* A bucket that exists is used with the history it has; one that another
\* process has just created must be the same.
CreateBucket(p, h) ==
    /\ At(p, "bucket")
    /\ \/ h # 0 /\ (bucket = 0 \/ bucket = h) /\ bucket' = h /\ Go(p, "start")
       \/ bucket # 0 /\ Go(p, "start") /\ UNCHANGED bucket
       \/ Exit(p) /\ UNCHANGED bucket
    /\ UNCHANGED <<starts, table, endpoint, newRows, net, history>>

-----------------------------------------------------------------------------
(* Start of the backend.                                                    *)

\* NATS: the health key is created, or that fails and is logged.
StartNats(p) ==
    /\ At(p, "start") /\ driver(p) \in {"nats", "jetstream"}
    /\ Go(p, "listen")
    /\ Untouched

StartsSql(p) == At(p, "start") /\ driver(p) \notin {"nats", "jetstream"}

\* A call through a client that was never made is one through a nil interface.
StartUnconnected(p) ==
    /\ StartsSql(p) /\ ~ proc[p].comms
    /\ Panic(p)
    /\ Untouched

\* ConnectDdsRequestPublish, on its way.
Send(p, pc, r) == proc' = [proc EXCEPT ![p].pc = pc, ![p].sent = r]

\* The caller waits no longer; the call is not withdrawn.
Abandon(p) ==
    late' = [r \in Rows |-> IF proc[p].sent = r THEN Two(late[r] + 1) ELSE late[r]]

\* Slip: a single row is not enough.
AppendsAnother == seen["compact"] <= 1

Appends == seen["compact"] = 0

\* compactStart: the read of compact_rev_key.  No row: one is appended.  More
\* than one: BeginTx returns no transaction, and the deferred rollback panics.
compactStart(p) ==
    /\ StartsSql(p) /\ proc[p].comms
    /\ IF Appends THEN Send(p, "append", "compact")
       ELSE Go(p, IF seen["compact"] = 1 THEN "health" ELSE "panicked")
    /\ overlap' = \/ overlap
                  \/ seen["compact"] = 0
                       /\ \/ hidden["compact"] # 0 \/ late["compact"] # 0
                          \/ \E q \in Procs : proc[q].sent = "compact"
    /\ UNCHANGED <<starts, table, disk, net, faulty, broken, skipped>>

compactStartFails(p) ==
    /\ StartsSql(p) /\ proc[p].comms
    /\ Exit(p)
    /\ Untouched

Waiting(p, r) == At(p, IF r = "compact" THEN "append" ELSE "create")

\* The call has been carried out, as far as its caller is told.
Answered(p, r) ==
    /\ Waiting(p, r) /\ proc[p].sent = "none"
    /\ Go(p, IF r = "compact" THEN "health" ELSE "listen")
    /\ Untouched

\* Slips: the call has no deadline; the error is only logged.
NoDeadline(p) == FALSE /\ Untouched

DeadlineLogged(p) ==
    /\ Waiting(p, "compact")
    /\ Send(p, "health", "none") /\ Abandon(p)
    /\ UNCHANGED <<starts, seen, hidden, disk, net, history>>

\* The deadline of the append: the error ends the start, not the call.
Deadline(p) ==
    /\ Waiting(p, "compact")
    /\ Exit(p) /\ Abandon(p)
    /\ UNCHANGED <<starts, seen, hidden, disk, net, history>>

\* LogStructured.Create of /registry/health: errors are logged, and Start goes
\* on.
CreateHealth(p) ==
    /\ At(p, "health")
    /\ IF seen["health"] = 0 THEN Send(p, "create", "health") ELSE Go(p, "listen")
    /\ Untouched

CreateHealthFails(p) ==
    /\ At(p, "health") \/ Waiting(p, "health")
    /\ Send(p, "listen", "none") /\ Abandon(p)
    /\ faulty' = faulty \cup {"health"}
    /\ UNCHANGED <<starts, seen, hidden, disk, net, overlap, broken, skipped>>

-----------------------------------------------------------------------------
(* The listener, on a TCP address or a unix path.                           *)

\* The gRPC server cannot be made, or the address cannot be listened on.
ListenFails(p) ==
    /\ At(p, "listen")
    /\ Exit(p)
    /\ Untouched

ListenTcp(p) ==
    /\ At(p, "listen")
    /\ port = NoOne
    /\ port' = p
    /\ Go(p, "serving")
    /\ UNCHANGED <<starts, table, disk, sock, history>>

\* createListener for a unix path: what is there is removed, the socket of a
\* process that serves too.
RemoveSocket(p) ==
    /\ At(p, "listen")
    /\ Go(p, "bind")
    /\ sock' = NoOne
    /\ UNCHANGED <<starts, table, disk, port, history>>

ListenUnix(p) ==
    /\ At(p, "bind")
    /\ IF sock = NoOne THEN sock' = p /\ Go(p, "chmod") ELSE Exit(p) /\ UNCHANGED sock
    /\ UNCHANGED <<starts, table, disk, port, history>>

\* The deferred Chmod fails if another process has removed the path since.
Chmod(p) ==
    /\ At(p, "chmod")
    /\ IF sock = NoOne THEN Exit(p) ELSE Go(p, "serving")
    /\ Untouched

\* A process ends: by its signal, by the metrics server's Fatalf, or otherwise.
\* The socket stays where it is.
Ends(p) ==
    /\ ~ At(p, "down")
    /\ proc' = [proc EXCEPT ![p] = Down] /\ Abandon(p)
    /\ port' = IF port = p THEN NoOne ELSE port
    /\ broken' = (broken \/ At(p, "copy"))
    /\ UNCHANGED <<starts, seen, hidden, disk, sock, overlap, faulty, skipped>>

-----------------------------------------------------------------------------
(* The DDS database.                                                        *)

\* The handler carries out a call.  When the write of the row throws it answers
\* all the same.
RequestPublish(r) ==
    /\ \/ seen' = [seen EXCEPT ![r] = Two(@ + 1)] /\ UNCHANGED faulty
       \/ faulty' = faulty \cup {r} /\ UNCHANGED seen
    /\ UNCHANGED <<starts, hidden, disk, net, overlap, broken, skipped>>

PublishFor(p) ==
    /\ proc[p].sent # "none"
    /\ RequestPublish(proc[p].sent)
    /\ proc' = [proc EXCEPT ![p].sent = "none"]
    /\ UNCHANGED late

PublishLate(r) ==
    /\ late[r] # 0
    /\ RequestPublish(r)
    /\ late' = [late EXCEPT ![r] = @ - 1]
    /\ UNCHANGED proc

\* The writer of the rows dies: queries leave them out until they are
\* republished.
WriterDies ==
    /\ \E r \in Rows : seen[r] # 0
    /\ hidden' = [r \in Rows |-> Two(hidden[r] + seen[r])]
    /\ seen' = [r \in Rows |-> 0]
    /\ UNCHANGED <<proc, starts, late, disk, net, history>>

Republish ==
    /\ \E r \in Rows : hidden[r] # 0
    /\ seen' = [r \in Rows |-> Two(seen[r] + hidden[r])]
    /\ hidden' = [r \in Rows |-> 0]
    /\ UNCHANGED <<proc, starts, late, disk, net, history>>

-----------------------------------------------------------------------------

Init ==
    /\ endpoint \in Configs
    /\ proc = [p \in Procs |-> Down] /\ starts = 0
    /\ seen = [r \in Rows |-> 0] /\ hidden = [r \in Rows |-> 0]
    /\ late = [r \in Rows |-> 0]
    /\ bucket = 0 /\ newRows = {}
    /\ port = NoOne /\ sock = NoOne
    /\ overlap = FALSE /\ faulty = {} /\ broken = FALSE /\ skipped = FALSE

\* What a process does by itself until it serves: New, where calls of the SQL
\* database, of the NATS server and of dqlite have no deadline of kine's.
Connect(p) ==
    \/ NewFails(p) \/ NewPgsql(p) \/ NewMysql(p) \/ NewVariant(p) \/ setup(p)
    \/ migrate(p) \/ migrateSkips(p) \/ migrateFails(p) \/ migrateEnds(p)
    \/ \E r \in OldRows : migrateRow(p, r)
    \/ NewNats(p) \/ StartNats(p) \/ \E h \in Histories : CreateBucket(p, h)

\* And Start with the DDS database, where every call has one, and the listener.
Listen(p) ==
    \/ StartUnconnected(p) \/ compactStart(p) \/ compactStartFails(p)
    \/ Deadline(p) \/ \E r \in Rows : Answered(p, r)
    \/ CreateHealth(p) \/ CreateHealthFails(p)
    \/ ListenFails(p) \/ ListenTcp(p) \/ RemoveSocket(p) \/ ListenUnix(p) \/ Chmod(p)

Next ==
    \/ \E p \in Procs :
         Launch(p) \/ Connect(p) \/ Listen(p) \/ ReadyForConnections(p) \/ Ends(p) \/ PublishFor(p)
    \/ \E r \in Rows : PublishLate(r)
    \/ WriterDies \/ Republish

\* A process takes its next step where none of its calls can hang.  Nothing is
\* assumed of the storage, nor of what New calls.
Fairness == \A p \in Procs : WF_vars(Listen(p))

Spec == Init /\ [][Next]_vars /\ Fairness

-----------------------------------------------------------------------------
(* Properties.                                                              *)

Serves(p) == At(p, "serving")

\* With the DDS database a start panics only if, at some time, a start found no
\* compact_rev_key while one was being written, by a process that had given up
\* on its call, too, or while the row was waiting to be republished.  Starts in
\* sequence, ended anywhere, and a SQL database that does not answer do no harm.
PanicsOnlyAfterOverlap ==
    \A p \in Procs :
        At(p, "panicked") =>
            \/ driver(p) \in {"sqlite", "mysql", "dqlite"}
            \/ driver(p) = "postgres" /\ overlap

\* A process that serves from the DDS database has both rows written, unless
\* their write was lost in the database, or the one of the health key failed,
\* which is tolerated.
ServesWithItsRows ==
    \A p \in Procs :
        Serves(p) /\ driver(p) = "postgres" =>
            \A r \in Rows : seen[r] + hidden[r] # 0 \/ r \in faulty

\* A dqlite database that a start has gone on with holds all of the rows of the
\* sqlite file, unless a migration is going on, or was interrupted: then it is
\* never completed.  If a start could not read the file it may hold none.
MigratedWhole ==
    (\E p \in Procs : driver(p) = "dqlite" /\ At(p, "start")) =>
        \/ newRows = OldRows \/ (newRows = {} /\ skipped)
        \/ broken
        \/ \E p \in Procs : At(p, "copy")

\* Past New.
Connected(p) ==
    \/ At(p, "start") /\ driver(p) \notin {"nats", "jetstream"}
    \/ proc[p].pc \in {"append", "health", "create", "listen", "bind", "chmod"}

\* A start that has its connections comes to its end, with whatever calls lost or
\* delayed: the process serves, or it ends.
StartEnds == \A p \in Procs : Connected(p) ~> proc[p].pc \in Ended
=============================================================================
