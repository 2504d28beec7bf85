----------------------------- MODULE DdsDatabase -----------------------------
(***************************************************************************)
(* The DDS database (src/DdsDatabase/src): one database process per         *)
(* Kubernetes master, each with its own DataWriter and DataReader on two    *)
(* DDS topics.                                                              *)
(*                                                                          *)
(*   DatabaseDataTopic       the rows of the kine table, keyed by id;       *)
(*                           reliable, transient-local, ordered by source   *)
(*                           timestamp, one sample kept per key             *)
(*   IdentifierTrackerTopic  the largest id handed out, keyed by itself;    *)
(*                           reliable but volatile                          *)
(*                                                                          *)
(* A row is inserted in two steps (core_publish_returningid): an id is      *)
(* reserved by taking every maxid sample and writing back the maximum plus  *)
(* one, under a mutex that is local to the process; then, with the mutex    *)
(* released, the row is written.  A write reaches the writer's own reader   *)
(* before it returns and the other nodes later, one writer's samples in the *)
(* order they were written.                                                 *)
(***************************************************************************)
EXTENDS Naturals, FiniteSets

CONSTANTS
    Nodes,       \* database processes, one per master
    Writers,     \* the nodes whose kine is sent inserts
    Threads,     \* gRPC handler threads of a process
    Names,       \* contents of a row, as far as replication tells them apart
    Disposed,    \* content of a disposed row
    NoRow,       \* content of an id that was never received
    MaxIdBound,  \* bound: ids the model hands out
    MaxClock     \* bound: source timestamps

ASSUME DdsAssumption ==
    /\ Writers \subseteq Nodes
    /\ MaxIdBound \in Nat
    /\ MaxClock \in Nat
    /\ Disposed \notin Names
    /\ NoRow \notin Names
    /\ NoRow # Disposed

Ids == 0..MaxIdBound

Contents == Names \cup {Disposed}

\* A sample of DatabaseDataTopic: src is the writing node, ts its clock when
\* it wrote.
Samples == [id: Ids, ts: 1..MaxClock, src: Nodes, name: Contents]

\* What a reader holds of one key.
Cells == [ts: 0..MaxClock, name: Contents \cup {NoRow}]

\* A gRPC handler thread that serves no publish request.
Idle == [pc |-> "idle", id |-> 0]

VARIABLES
    matched,   \* matched[n]: init() has bound n's handles and n matched itself
    maxids,    \* maxids[n]: the maxid samples in n's reader
    maxidNet,  \* maxid samples on their way to another node
    rows,      \* rows[n][i]: the sample of key i in n's reader
    net,       \* row samples on their way to another node
    clock,     \* clock[n]: source timestamp of n's last write
    handler,   \* handler[n][t]: step of a gRPC handler and the id it reserved
    written,   \* history: every row sample ever written
    issued,    \* history: how often each id was handed out, 2 for more than once
    lost       \* history: a maximum was taken and not written back

vars == <<matched, maxids, maxidNet, rows, net, clock, handler, written, issued, lost>>

TypeOK ==
    /\ matched \in [Nodes -> BOOLEAN]
    /\ maxids \in [Nodes -> SUBSET Ids]
    /\ maxidNet \in SUBSET [src: Nodes, dst: Nodes, maxid: Ids]
    /\ rows \in [Nodes -> [Ids -> Cells]]
    /\ net \in SUBSET [dst: Nodes, s: Samples]
    /\ clock \in [Nodes -> 0..MaxClock]
    /\ handler \in [Nodes -> [Threads -> [pc: {"idle", "reserved"}, id: Ids]]]
    /\ written \in SUBSET Samples
    /\ issued \in [Ids -> 0..2]
    /\ lost \in BOOLEAN

-----------------------------------------------------------------------------
(* The middleware, as the QoS that init() sets up configures it.            *)

\* Slip: destination_order left at its default, by reception.
ReceiveByArrival(cells, s) == [cells EXCEPT ![s.id] = [ts |-> s.ts, name |-> s.name]]

\* BY_SOURCE_TIMESTAMP with one sample kept per key: an older sample than the
\* one held is dropped, a newer one replaces it.
Receive(cells, s) ==
    [cells EXCEPT ![s.id] =
        IF s.ts > @.ts THEN [ts |-> s.ts, name |-> s.name] ELSE @]

Receivers(n) == {m \in Nodes \ {n} : matched[m]}

\* writer_->write(msg) on node n.  The timestamp is n's own clock, which need
\* not agree with the others'; two writes never carry the same one.
Write(n, i, c) ==
    \E ts \in (clock[n] + 1)..MaxClock :
        LET s == [id |-> i, ts |-> ts, src |-> n, name |-> c] IN
        /\ \A w \in written : w.ts # ts
        /\ clock' = [clock EXCEPT ![n] = ts]
        /\ written' = written \cup {s}
        /\ rows' = [rows EXCEPT ![n] = Receive(@, s)]
        /\ net' = net \cup {[dst |-> m, s |-> s] : m \in Receivers(n)}

\* writer_maxid_->write(msg) on node n, in a step that leaves held in n's
\* reader: the topic is volatile, so only matched nodes get it.
WriteMaxId(n, held, i) ==
    /\ maxids' = [maxids EXCEPT ![n] = held \cup {i}]
    /\ maxidNet' = maxidNet
          \cup {[src |-> n, dst |-> m, maxid |-> i] : m \in Receivers(n)}

-----------------------------------------------------------------------------
(* Operations of the database.                                              *)

\* The scan for the maximum that query_maxid and query_maxid_and_replace
\* share: it starts from 0.
Largest(S) == CHOOSE m \in S \cup {0} : \A k \in S : k <= m

\* query_maxid, under mutex_maxidtopic.
query_maxid(n) == Largest(maxids[n])

\* The samples are taken and nothing is written.
TakeOnly(n) ==
    /\ maxids' = [maxids EXCEPT ![n] = {}]
    /\ UNCHANGED maxidNet

\* Slips in query_maxid_and_replace: the maximum is written back and returned
\* as it is; is written back only the first time; is written back before the
\* increment.
ReplaceUnincremented(n, i) ==
    /\ i = query_maxid(n)
    /\ WriteMaxId(n, {}, i)
    /\ UNCHANGED lost

WriteBackOnce(n, i) ==
    /\ i = query_maxid(n) + 1
    /\ IF maxids[n] = {} THEN WriteMaxId(n, {}, i) ELSE TakeOnly(n)
    /\ UNCHANGED lost

WriteBackBeforeIncrement(n, i) ==
    /\ i = query_maxid(n) + 1
    /\ WriteMaxId(n, {}, query_maxid(n))
    /\ UNCHANGED lost

\* query_maxid_and_replace: the whole body runs under mutex_maxidtopic.  All
\* samples are taken, and the maximum is written back incremented.  It is not
\* written back if the write throws, or if no reader is matched, when it is
\* not incremented either; the caller uses what is returned all the same.
query_maxid_and_replace(n, i) ==
    /\ i = IF matched[n] THEN query_maxid(n) + 1 ELSE query_maxid(n)
    /\ \/ matched[n] /\ WriteMaxId(n, {}, i) /\ UNCHANGED lost
       \/ TakeOnly(n) /\ lost' = TRUE

\* init(): handles bound, readers and writers matched.  The other writers'
\* transient-local rows are sent to the new reader; maxid samples are not.
Start(n) ==
    /\ ~matched[n]
    /\ matched' = [matched EXCEPT ![n] = TRUE]
    /\ net' = net \cup {[dst |-> n, s |-> s] : s \in {w \in written : w.src # n}}
    /\ UNCHANGED <<maxids, maxidNet, rows, clock, handler, written, issued, lost>>

\* core_publish_returningid, first half: reserve an id.
Reserve(n, t) ==
    /\ n \in Writers
    /\ matched[n]
    /\ handler[n][t].pc = "idle"
    /\ \E i \in Ids :
        /\ query_maxid_and_replace(n, i)
        /\ handler' = [handler EXCEPT ![n][t] = [pc |-> "reserved", id |-> i]]
        /\ issued' = [issued EXCEPT ![i] = IF @ = 0 THEN 1 ELSE 2]
    /\ UNCHANGED <<matched, rows, net, clock, written>>

\* core_publish_returningid, second half: write the row under that id, unless
\* the write throws.
Insert(n, t) ==
    /\ handler[n][t].pc = "reserved"
    /\ \/ \E c \in Names : Write(n, handler[n][t].id, c)
       \/ UNCHANGED <<rows, net, clock, written>>
    /\ handler' = [handler EXCEPT ![n][t] = Idle]
    /\ UNCHANGED <<matched, maxids, maxidNet, issued, lost>>

\* core_publish: kine's Fill writes a row under an id it chose, below the id
\* of a row it has read from this node.
PublishId(n, i) ==
    /\ matched[n]
    /\ \E k \in Ids : k > i /\ rows[n][k].name \in Names
    /\ \E c \in Names : Write(n, i, c)
    /\ UNCHANGED <<matched, maxids, maxidNet, handler, issued, lost>>

\* Slip: a disposed key becomes one that was never received.
DisposeErases(n, i) ==
    /\ matched[n]
    /\ rows[n][i].name \in Names
    /\ Write(n, i, NoRow)
    /\ UNCHANGED <<matched, maxids, maxidNet, handler, issued, lost>>

\* expose_dispose: nothing happens unless a live row has the id.
Dispose(n, i) ==
    /\ matched[n]
    /\ rows[n][i].name \in Names
    /\ Write(n, i, Disposed)
    /\ UNCHANGED <<matched, maxids, maxidNet, handler, issued, lost>>

\* A row sample arrives at its destination, oldest of its writer first.
DeliverRow(p) ==
    /\ \A q \in net : (q.dst = p.dst /\ q.s.src = p.s.src) => q.s.ts >= p.s.ts
    /\ rows' = [rows EXCEPT ![p.dst] = Receive(@, p.s)]
    /\ net' = net \ {p}
    /\ UNCHANGED <<matched, maxids, maxidNet, clock, handler, written, issued, lost>>

\* A maxid sample arrives; the maxids of one writer only grow, so its oldest
\* is its smallest.
DeliverMaxId(p) ==
    /\ \A q \in maxidNet : (q.dst = p.dst /\ q.src = p.src) => q.maxid >= p.maxid
    /\ maxids' = [maxids EXCEPT ![p.dst] = @ \cup {p.maxid}]
    /\ maxidNet' = maxidNet \ {p}
    /\ UNCHANGED <<matched, rows, net, clock, handler, written, issued, lost>>

Init ==
    /\ matched = [n \in Nodes |-> FALSE]
    /\ maxids = [n \in Nodes |-> {}]
    /\ maxidNet = {}
    /\ rows = [n \in Nodes |-> [i \in Ids |-> [ts |-> 0, name |-> NoRow]]]
    /\ net = {}
    /\ clock = [n \in Nodes |-> 0]
    /\ handler = [n \in Nodes |-> [t \in Threads |-> Idle]]
    /\ written = {}
    /\ issued = [i \in Ids |-> 0]
    /\ lost = FALSE

Next ==
    \/ \E n \in Nodes : Start(n)
    \/ \E n \in Nodes, t \in Threads : Reserve(n, t)
    \/ \E n \in Nodes, t \in Threads : Insert(n, t)
    \/ \E n \in Nodes, i \in Ids \ {0} : PublishId(n, i)
    \/ \E n \in Nodes, i \in Ids : Dispose(n, i)
    \/ \E p \in net : DeliverRow(p)
    \/ \E p \in maxidNet : DeliverMaxId(p)

Spec == Init /\ [][Next]_vars

-----------------------------------------------------------------------------
(* Properties.                                                              *)

\* core_publish_returningid hands out "the maximum + 1": no id is handed out
\* twice, whatever the interleaving of handler threads, deliveries and late
\* starts, as long as no maximum was lost (then the ids start over).  It stands
\* in for the SERIAL PRIMARY KEY of the SQL schema.  True of one writer node,
\* false of two, whose mutexes exclude nothing of each other.
IdsUnique == lost \/ \A i \in Ids : issued[i] <= 1

\* CurrentRevision (query_maxid) as a node reports it never goes back: the
\* maxid samples are taken out and written back under the same mutex, so no
\* reader sees the topic in between.  Only a write back that fails sets it back.
CurrentRevisionMonotone ==
    [][lost' \/ \A n \in Nodes : query_maxid(n)' >= query_maxid(n)]_vars

\* Once nothing is on its way to either of two started nodes, they hold the
\* same rows, although samples of one key were written by several nodes with
\* unsynchronised clocks and arrived in different orders.
Quiet(n) == matched[n] /\ \A p \in net : p.dst # n

Convergence ==
    \A m, n \in Nodes : Quiet(m) /\ Quiet(n) => rows[m] = rows[n]

\* On the node that inserts, the revision reported with a list is never
\* behind a row of the list: every row it stores, filler rows of the other
\* nodes included, has an id up to query_maxid, unless a maximum was lost.
RevisionCoversRows ==
    lost \/ \A n \in Writers, i \in Ids :
              rows[n][i].name \in Names => i <= query_maxid(n)

-----------------------------------------------------------------------------
(* The inductive invariants behind these properties.                        *)

\* What a reader holds of a key is the newest of the written samples that are
\* not still on their way to it.
ReaderInv ==
    /\ \A s1, s2 \in written : s1.ts = s2.ts => s1 = s2
    /\ \A s \in written : matched[s.src]
    /\ \A p \in net : p.s \in written
    /\ \A n \in Nodes, i \in Ids :
         \/ rows[n][i] = [ts |-> 0, name |-> NoRow]
         \/ \E s \in written : s.id = i /\ rows[n][i] = [ts |-> s.ts, name |-> s.name]
    /\ \A n \in Nodes, s \in written :
         matched[n] => \/ rows[n][s.id].ts >= s.ts
                       \/ [dst |-> n, s |-> s] \in net

\* Only a started node reserves ids.
HandlerInv ==
    \A n \in Nodes, t \in Threads : handler[n][t].pc = "reserved" => matched[n]

RowsInv == ReaderInv /\ HandlerInv

\* With one writer node, its maxid topic is ahead of every id that was handed
\* out, is about to be written, or was written anywhere.
SingleWriter == \A m, n \in Writers : m = n

IdsAhead ==
    /\ \A i \in Ids : issued[i] <= 1
    /\ \A w \in Writers :
         /\ \A i \in Ids : issued[i] > 0 => i <= query_maxid(w)
         /\ \A n \in Nodes, t \in Threads :
              handler[n][t].pc = "reserved" => handler[n][t].id <= query_maxid(w)
         /\ \A s \in written : s.id <= query_maxid(w)

IdsInv == lost \/ IdsAhead

=============================================================================
