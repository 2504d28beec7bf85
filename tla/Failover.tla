------------------------------ MODULE Failover ------------------------------
(***************************************************************************)
(* The DDS database when its processes die and are started.  A row is       *)
(* alive at a reader as long as one of the writers that have written it is; *)
(* queries leave out the others.  Of a death a reader learns by an invalid  *)
(* sample, and republishes the rows that have no writer: the workaround for *)
(* the TRANSIENT durability that the middleware does not have.              *)
(*                                                                          *)
(* A process that is started again is another process: it has a new writer, *)
(* and a reader that is empty but for what the writers that live resend.    *)
(* What a row holds is left out, as are Fill and disposal (DdsDatabase); a  *)
(* process matches its own reader, so that matched > 0 once init is over.   *)
(* Clients use one process until it dies, and then another.                 *)
(***************************************************************************)
EXTENDS Naturals, FiniteSets, FiniteSetsExt

CONSTANTS
    Nodes,     \* processes of the database, each started at most once
    Founders,  \* those that are up at first, before anything is written
    MaxId,     \* bound: ids
    MaxDeaths  \* bound: deaths

Ids == 1..MaxId

NoNode == "no node"

ASSUME FailoverAssumption ==
    Founders \subseteq Nodes /\ NoNode \notin Nodes /\ MaxId \in Nat /\ MaxDeaths \in Nat

VARIABLES
    status,     \* status[n]: new, up or dead
    active,     \* the process that clients use
    known,      \* known[n]: the processes whose writers the reader of n has matched
    held,       \* held[n]: ids of the rows in the reader of n
    writers,    \* writers[n][i]: the writers of row i that n takes to be alive
    history,    \* history[n]: ids that the writer of n resends to a late reader
    net,        \* rows on their way: <<from, to, id>>
    maxids,     \* maxids[n]: the largest maxid sample in the reader of n, or 0
    registered, \* registered[n]: maxid instances of the writer of n, till the last reader drops it
    maxidNet,   \* maxid samples on their way: <<from, to, maxid>>
    invalid,    \* invalid[n]: an invalid sample waits for the listener of n
    republish,  \* republish[n]: republish_everything, off being not started_republish
    todo,       \* todo[n]: ids of the rows it has read and not yet written
    missed,     \* history: missed[n]: rows without a writer that n will not republish
    issued,     \* history: ids handed out
    behind      \* history: behind[n]: a maxid sample never came to n, or was purged there

table == <<known, held, writers, history, net>>
tracker == <<maxids, registered, maxidNet, issued, behind>>
workaround == <<invalid, republish, todo, missed>>
vars == <<status, active, table, tracker, workaround>>

TypeOK ==
    /\ status \in [Nodes -> {"new", "up", "dead"}]
    /\ active \in Nodes \cup {NoNode}
    /\ known \in [Nodes -> SUBSET Nodes]
    /\ held \in [Nodes -> SUBSET Ids]
    /\ writers \in [Nodes -> [Ids -> SUBSET Nodes]]
    /\ history \in [Nodes -> SUBSET Ids]
    /\ net \subseteq Nodes \X Nodes \X Ids
    /\ maxids \in [Nodes -> 0..MaxId]
    /\ registered \in [Nodes -> SUBSET Ids]
    /\ maxidNet \subseteq Nodes \X Nodes \X (0..MaxId)
    /\ invalid \in [Nodes -> BOOLEAN]
    /\ republish \in [Nodes -> {"off", "read", "write", "sleep"}]
    /\ todo \in [Nodes -> SUBSET Ids]
    /\ \A n \in Nodes : /\ history[n] \subseteq held[n]
                        /\ \A i \in Ids : writers[n][i] \subseteq known[n]
                        /\ todo[n] # {} => republish[n] = "write"
    /\ missed \in [Nodes -> SUBSET Ids]
    /\ issued \subseteq Ids /\ behind \in [Nodes -> BOOLEAN]

Up(n) == status[n] = "up"

\* Rows of n in the state NOT_ALIVE_NO_WRITERS.
NoWriters(n) == {i \in held[n] : writers[n][i] = {}}

Others(n) == {m \in Nodes \ {n} : Up(m) /\ n \in known[m]}

-----------------------------------------------------------------------------
(* The two topics.                                                          *)

\* writer_->write: the own reader has it at once, the others later.
Write(n, i) ==
    /\ history' = [history EXCEPT ![n] = @ \cup {i}]
    /\ held' = [held EXCEPT ![n] = @ \cup {i}]
    /\ writers' = [writers EXCEPT ![n][i] = @ \cup {n}]
    /\ net' = net \cup {<<n, m, i>> : m \in Others(n)}

query_maxid(n) == maxids[n]

\* writer_maxid_->write.  Readers use the largest sample they hold: of the others
\* none is kept, nor sent.
WriteMaxId(n, v) ==
    /\ maxids' = [maxids EXCEPT ![n] = Max({@, v})]
    /\ registered' = [registered EXCEPT ![n] = @ \cup ({v} \ {0})]
    /\ maxidNet' = maxidNet \cup {<<n, m, v>> : m \in {k \in Others(n) : maxids[k] < v}}

\* Slip: rows are volatile, too.
StartVolatile(n) ==
    /\ status[n] = "new"
    /\ status' = [status EXCEPT ![n] = "up"]
    /\ known' = [m \in Nodes |-> IF m = n THEN {k \in Nodes : Up(k) \/ k = n}
                                 ELSE IF Up(m) THEN known[m] \cup {n} ELSE known[m]]
    /\ behind' = [behind EXCEPT ![n] = issued # {}]
    /\ UNCHANGED <<active, held, writers, history, net, maxids, registered, maxidNet, issued,
                   workaround>>

\* init().  Readers and writers match; the rows of the writers that live are
\* sent again, the maxid topic is volatile.
Start(n) ==
    /\ status[n] = "new"
    /\ status' = [status EXCEPT ![n] = "up"]
    /\ known' = [m \in Nodes |-> IF m = n THEN {k \in Nodes : Up(k) \/ k = n}
                                 ELSE IF Up(m) THEN known[m] \cup {n} ELSE known[m]]
    /\ net' = net \cup UNION {{<<m, n, i>> : i \in history[m]} : m \in {k \in Nodes : Up(k)}}
    /\ behind' = [behind EXCEPT ![n] = issued # {}]
    /\ UNCHANGED <<active, held, writers, history, maxids, registered, maxidNet, issued,
                   workaround>>

\* Slip: the samples are only read.
ReplaceUnwritten(n, v) == UNCHANGED <<maxids, registered, maxidNet>>

\* All maxid samples are taken and the next number is written.
query_maxid_and_replace(n, v) == WriteMaxId(n, v)

\* Clients use one process until it dies.
MayInsert(n) == Up(n) /\ active \notin {m \in Nodes \ {n} : Up(m)}

\* core_publish_returningid, at the process that clients use.  The write of the
\* row may throw.  What follows when the process is behind is in DdsDatabase.
Insert(n) ==
    /\ MayInsert(n) /\ query_maxid(n) < MaxId /\ ~ behind[n]
    /\ active' = n
    /\ LET id == query_maxid(n) + 1 IN
       /\ query_maxid_and_replace(n, id)
       /\ issued' = issued \cup {id}
       /\ Write(n, id) \/ UNCHANGED <<held, writers, history, net>>
    /\ UNCHANGED <<status, known, behind, workaround>>

Deliver(m, n, i) ==
    /\ <<m, n, i>> \in net /\ Up(n)
    /\ net' = net \ {<<m, n, i>>}
    /\ held' = [held EXCEPT ![n] = @ \cup {i}]
    /\ writers' = [writers EXCEPT ![n][i] = @ \cup {m}]
    /\ missed' = [missed EXCEPT ![n] = @ \ {i}]
    /\ UNCHANGED <<status, active, known, history, tracker, invalid, republish, todo>>

DeliverMaxId(m, n, v) ==
    /\ <<m, n, v>> \in maxidNet /\ Up(n)
    /\ maxidNet' = {x \in maxidNet : x[2] = n => x[3] > v}
    /\ maxids' = [maxids EXCEPT ![n] = v]
    /\ behind' = [behind EXCEPT ![n] = @ /\ \E i \in issued : i > v]
    /\ UNCHANGED <<status, active, table, registered, issued, workaround>>

-----------------------------------------------------------------------------
(* Deaths.                                                                  *)

\* What the process has sent may arrive until its death is noticed, or not.
\* What it held is gone.
Die(n) ==
    /\ Up(n) /\ Cardinality({m \in Nodes : status[m] = "dead"}) < MaxDeaths
    /\ status' = [status EXCEPT ![n] = "dead"]
    /\ known' = [known EXCEPT ![n] = {}]
    /\ held' = [held EXCEPT ![n] = {}]
    /\ writers' = [writers EXCEPT ![n] = [i \in Ids |-> {}]]
    /\ history' = [history EXCEPT ![n] = {}]
    /\ maxids' = [maxids EXCEPT ![n] = 0]
    /\ invalid' = [invalid EXCEPT ![n] = FALSE]
    /\ republish' = [republish EXCEPT ![n] = "off"]
    /\ todo' = [todo EXCEPT ![n] = {}]
    /\ missed' = [missed EXCEPT ![n] = {}]
    /\ active' = IF active = n THEN NoNode ELSE active
    /\ net' = {x \in net : x[2] # n}
    /\ maxidNet' = {x \in maxidNet : x[2] # n}
    /\ behind' = [m \in Nodes |->
         Up(m) /\ m # n /\ (behind[m] \/ \E x \in maxidNet :
                                           x[1] = n /\ x[2] = m /\ x[3] > query_maxid(m))]
    /\ UNCHANGED <<issued, registered>>

\* Maxid instances that a dead writer has written are disposed of with it, and
\* purged at once (the QoS asks for both); a smaller sample may be left, or none.
PurgeMaxIds(n, m) ==
    /\ query_maxid(n) \in registered[m]
    /\ \E v \in (issued \cup {0}) \ registered[m] :
         v < query_maxid(n) /\ maxids' = [maxids EXCEPT ![n] = v]
    /\ behind' = [behind EXCEPT ![n] = TRUE]

\* The reader of n drops the writer of m.  Rows that have no writer left change
\* their state, which puts an invalid sample in the reader.  Whether the maxid
\* samples stay is the middleware's.
WriterLost(n, m) ==
    /\ Up(n) /\ m \in known[n] /\ status[m] = "dead"
    /\ known' = [known EXCEPT ![n] = @ \ {m}]
    /\ net' = {x \in net : <<x[1], x[2]>> # <<m, n>>}
    /\ writers' = [writers EXCEPT ![n] = [i \in Ids |-> @[i] \ {m}]]
    /\ invalid' = [invalid EXCEPT ![n] = @ \/ \E i \in held[n] : writers[n][i] = {m}]
    /\ maxidNet' = {x \in maxidNet : <<x[1], x[2]>> # <<m, n>>}
    /\ registered' = [registered EXCEPT ![m] =
                        IF \E k \in Nodes \ {n} : m \in known[k] THEN @ ELSE {}]
    /\ PurgeMaxIds(n, m) \/ UNCHANGED <<maxids, behind>>
    /\ UNCHANGED <<status, active, held, history, issued, republish, todo, missed>>

\* Slip: an invalid sample is skipped.
SkipInvalid(n) ==
    /\ Up(n) /\ invalid[n]
    /\ invalid' = [invalid EXCEPT ![n] = FALSE]
    /\ UNCHANGED <<status, active, table, tracker, republish, todo, missed>>

\* The listener reads what is not read.  An invalid sample starts the thread,
\* unless one is running; if that one has read the rows already it will not
\* know of the others.
listener_ondataavailable(n) ==
    /\ Up(n) /\ invalid[n]
    /\ invalid' = [invalid EXCEPT ![n] = FALSE]
    /\ republish' = [republish EXCEPT ![n] = IF @ = "off" THEN "read" ELSE @]
    /\ missed' = [missed EXCEPT ![n] = IF republish[n] \in {"write", "sleep"}
                                       THEN @ \cup (NoWriters(n) \ todo[n]) ELSE @]
    /\ UNCHANGED <<status, active, table, tracker, todo>>

\* Slip: the state asked for is ALIVE.
ReadAlive(n) == held[n] \ NoWriters(n)

\* dds_read without a mask, which takes note of invalid samples as well.
ReadDead(n) == NoWriters(n)

RepublishRead(n) ==
    /\ Up(n) /\ republish[n] = "read"
    /\ republish' = [republish EXCEPT ![n] = "write"]
    /\ todo' = [todo EXCEPT ![n] = ReadDead(n)]
    /\ missed' = [missed EXCEPT ![n] = @ \ ReadDead(n)]
    /\ invalid' = [invalid EXCEPT ![n] = FALSE]
    /\ UNCHANGED <<status, active, table, tracker>>

\* A row is written anew, whoever has done so by now, or that throws.
RepublishRow(n, i) ==
    /\ Up(n) /\ i \in todo[n]
    /\ todo' = [todo EXCEPT ![n] = @ \ {i}]
    /\ \/ Write(n, i) /\ missed' = [missed EXCEPT ![n] = @ \ {i}]
       \/ /\ missed' = [missed EXCEPT ![n] = @ \cup ({i} \cap NoWriters(n))]
          /\ UNCHANGED <<held, writers, history, net>>
    /\ UNCHANGED <<status, active, known, tracker, invalid, republish>>

\* After the last row the maxid, and a sleep, with started_republish still set.
republish_message_maxid(n) ==
    /\ Up(n) /\ republish[n] = "write" /\ todo[n] = {}
    /\ republish' = [republish EXCEPT ![n] = "sleep"]
    /\ WriteMaxId(n, query_maxid(n)) \/ UNCHANGED <<maxids, registered, maxidNet>>
    /\ UNCHANGED <<status, active, table, issued, behind, invalid, todo, missed>>

\* Slip: the flag is cleared when the rows have been read.
RepublishEndsEarly(n) ==
    /\ Up(n) /\ republish[n] \in {"write", "sleep"}
    /\ republish' = [republish EXCEPT ![n] = "off"]
    /\ UNCHANGED <<status, active, table, tracker, invalid, todo, missed>>

RepublishEnds(n) ==
    /\ Up(n) /\ republish[n] = "sleep"
    /\ republish' = [republish EXCEPT ![n] = "off"]
    /\ UNCHANGED <<status, active, table, tracker, invalid, todo, missed>>

-----------------------------------------------------------------------------

Init ==
    /\ status = [n \in Nodes |-> IF n \in Founders THEN "up" ELSE "new"]
    /\ active = NoNode
    /\ known = [n \in Nodes |-> IF n \in Founders THEN Founders ELSE {}]
    /\ held = [n \in Nodes |-> {}]
    /\ writers = [n \in Nodes |-> [i \in Ids |-> {}]] /\ history = [n \in Nodes |-> {}]
    /\ net = {} /\ maxidNet = {}
    /\ maxids = [n \in Nodes |-> 0] /\ registered = [n \in Nodes |-> {}]
    /\ invalid = [n \in Nodes |-> FALSE] /\ republish = [n \in Nodes |-> "off"]
    /\ todo = [n \in Nodes |-> {}] /\ missed = [n \in Nodes |-> {}]
    /\ issued = {} /\ behind = [n \in Nodes |-> FALSE]

republish_everything(n) ==
    \/ RepublishRead(n) \/ \E i \in Ids : RepublishRow(n, i)
    \/ republish_message_maxid(n) \/ RepublishEnds(n)

Next ==
    \/ \E n \in Nodes :
         \/ Start(n) \/ Insert(n) \/ Die(n)
         \/ listener_ondataavailable(n) \/ republish_everything(n)
    \/ \E m, n \in Nodes :
         \/ WriterLost(n, m)
         \/ \E i \in Ids : Deliver(m, n, i)
         \/ \E v \in 0..MaxId : DeliverMaxId(m, n, v)

\* The middleware calls its listener, and the thread runs on.  Nothing is assumed
\* of delivery, of when a death is noticed, nor of writes that may throw.
Fairness ==
    \A n \in Nodes : WF_vars(listener_ondataavailable(n)) /\ WF_vars(republish_everything(n))

Spec == Init /\ [][Next]_vars /\ Fairness

-----------------------------------------------------------------------------
(* Properties.                                                              *)

\* A row that queries leave out because its writers are dead has not been
\* forgotten: an invalid sample waits for the listener, or republish_everything
\* is about to read it or to write it; unless another death fell between its
\* read and the end of its sleep, or its write threw.
DeadRowIsNoticed ==
    \A n \in Nodes : Up(n) =>
        \A i \in NoWriters(n) :
            invalid[n] \/ republish[n] = "read" \/ i \in todo[n] \cup missed[n]

Settled ==
    /\ net = {}
    /\ \A n \in Nodes : Up(n) =>
         /\ \A m \in known[n] : Up(m)
         /\ ~ invalid[n] /\ republish[n] = "off" /\ missed[n] = {}

\* Once deaths have been dealt with, all processes show the same rows: what one
\* of them had got from a process that died in the middle of sending has come
\* to the others too, to those started since as well.
SurvivorsAgree ==
    Settled => \A m, n \in {k \in Nodes : Up(k)} : held[m] = held[n] /\ NoWriters(n) = {}

\* A process that clients use, or turn to after a death, knows of every id that
\* was handed out, and will not hand it out again; unless it was started late, was
\* cut off from the last maxid sample of the dead, or had it purged with its dead
\* writer, and has heard of none as large since.
NextInLineIsCurrent ==
    \A n \in Nodes : MayInsert(n) /\ ~ behind[n] => \A i \in issued : i <= query_maxid(n)

\* Every row that the death of its writers hides from the queries of a process
\* that lives is shown again, but for one whose republishing was missed.
DeadRowReturns ==
    \A n \in Nodes, i \in Ids :
        (i \in NoWriters(n)) ~> (i \notin NoWriters(n) \/ i \in missed[n] \/ ~ Up(n))
=============================================================================
