---------------------------- MODULE WatchPipeline ----------------------------
(***************************************************************************)
(* How a kine process tells its watchers of new rows: SQLLog.Append and its *)
(* notify channel, the poll loop with its handling of missing revisions     *)
(* (sql.go), the Broadcaster, and LogStructured.Watch, which joins a list   *)
(* of the past to the stream.                                               *)
(*                                                                          *)
(* The database is one process as kine sees it over gRPC (see DdsDatabase): *)
(* an insert reserves an id and writes the row under it later; Fill writes  *)
(* whatever id it is given.  compact_rev_key, the first row of every kine   *)
(* database, has id 1, and polling starts after it.  Rows are told apart by *)
(* id and by whether they are fillers; every watch is for a prefix that all *)
(* keys but the fillers' match.                                             *)
(***************************************************************************)
EXTENDS Naturals, Sequences, FiniteSets

CONSTANTS
    MaxAppends,   \* bound: appends in progress at one time
    Watchers,     \* watch requests
    MaxId,        \* bound: ids handed out
    NotifyCap,    \* capacity of the notify channel
    SubCap,       \* capacity of a subscriber's channel, and of SQLLog.Watch's
    BatchSize,    \* pollBatchSize
    MoreAt,       \* events from which poll reads again without waiting
    WriteFails    \* whether writer_->write may throw

ASSUME WatchAssumption ==
    /\ MaxId \in Nat \ {0}
    /\ MaxAppends \in Nat
    /\ NotifyCap \in Nat
    /\ SubCap \in Nat \ {0}
    /\ BatchSize \in Nat \ {0}
    /\ MoreAt \in Nat \ {0}
    /\ WriteFails \in BOOLEAN

PollStart == 1

Ids == (PollStart + 1)..MaxId

Revisions == 0..(MaxId + 1)

VARIABLES
    maxid,      \* query_maxid of the database
    rows,       \* rows[i]: "none", "row", or "gap" for a filler row
    reserved,   \* ids of inserts whose row is not written yet
    answered,   \* ids of inserts that are, and whose Append has not returned
    notify,     \* SQLLog.notify
    pollPc,     \* step of the poll loop, "off" before the first subscription
    last, skip, \* its variables of the same names
    expired,    \* more than a second has passed since skipTime
    batch,      \* events of the current round still to be looked at
    rev, sequential, saveLast, waitForMore,
    input,      \* what Broadcaster.stream has received and not handed out
    fate,       \* history: what became of each revision
    watch       \* watch[w]: a watch request and its subscription

db == <<maxid, rows, reserved, answered>>
loop == <<batch, rev, sequential, saveLast>>
poll == <<pollPc, last, skip, expired, loop, waitForMore, fate>>
vars == <<db, notify, poll, input, watch>>

Events == [id: Ids, gap: BOOLEAN]

Watches ==
    [status: {"new", "list", "read", "stream", "closed"},
     readChan: BOOLEAN,           \* SQLLog.Watch returned a channel, not nil
     subscribed: BOOLEAN,         \* the channel is in Broadcaster.subs
     ending: BOOLEAN,             \* a goroutine is about to unsub it
     queue: Seq(SUBSET Ids),      \* the channel
     from: Revisions,             \* revision, after the decrement
     max: Revisions,              \* MaxId column of the list
     lastRevision: Revisions,
     listed: SUBSET Ids,          \* events of the list
     inflight: SUBSET Ids,        \* history: ids reserved, not written, at the list
     streamed: Seq(Ids)]          \* events sent on from the stream

TypeOK ==
    /\ maxid \in PollStart..MaxId
    /\ rows \in [Ids -> {"none", "row", "gap"}]
    /\ reserved \in SUBSET Ids
    /\ answered \in SUBSET Ids
    /\ notify \in Seq(Revisions) /\ Len(notify) <= NotifyCap
    /\ pollPc \in {"off", "wait", "read", "scan", "fill", "send"}
    /\ last \in PollStart..MaxId
    /\ skip \in Revisions
    /\ expired \in BOOLEAN
    /\ batch \in SUBSET Events
    /\ rev \in Revisions
    /\ sequential \in SUBSET Ids
    /\ saveLast \in BOOLEAN
    /\ waitForMore \in BOOLEAN
    /\ input \in SUBSET Ids
    /\ fate \in [Ids -> {"none", "sent", "filled", "skipped"}]
    /\ watch \in [Watchers -> Watches]

\* Slip: the send of an unbounded channel.
NotifyUnbounded(r) == notify' = Append(notify, r)

\* select { case s.notify <- r: default: }
Notify(r) == notify' = IF Len(notify) < NotifyCap THEN Append(notify, r) ELSE notify

-----------------------------------------------------------------------------
(* SQLLog.Append over the database.                                         *)

\* The database reserves the id.
AppendReserve ==
    /\ Cardinality(reserved \cup answered) < MaxAppends
    /\ maxid < MaxId
    /\ maxid' = maxid + 1
    /\ reserved' = reserved \cup {maxid + 1}
    /\ UNCHANGED <<rows, answered, notify, poll, input, watch>>

\* The database writes the row.  An exception of the write is caught and the
\* id is returned all the same.
AppendWrite(i) ==
    /\ i \in reserved
    /\ \/ rows' = [rows EXCEPT ![i] = "row"]
       \/ WriteFails /\ UNCHANGED rows
    /\ reserved' = reserved \ {i}
    /\ answered' = answered \cup {i}
    /\ UNCHANGED <<maxid, notify, poll, input, watch>>

\* Append returns: with the id and a notification, or, when the answer missed
\* the deadline of ConnectDdsRequestPublish, with an error and without one.
AppendReturn(i) ==
    /\ i \in answered
    /\ Notify(i) \/ UNCHANGED notify
    /\ answered' = answered \ {i}
    /\ UNCHANGED <<maxid, rows, reserved, poll, input, watch>>

\* SQLLog.List of any key ends with a notification of the revision it got: the
\* MaxId column of its rows, 0 if it has none.
List ==
    /\ \E r \in {0, maxid} : Notify(r)
    /\ UNCHANGED <<db, poll, input, watch>>

-----------------------------------------------------------------------------
(* SQLLog.poll.                                                             *)

\* select: a notification, passed over when it is about nothing new, or the
\* ticker.
PollNotified ==
    /\ pollPc = "wait"
    /\ notify # <<>>
    /\ notify' = Tail(notify)
    /\ pollPc' = IF Head(notify) <= last THEN "wait" ELSE "read"
    /\ UNCHANGED <<db, last, skip, expired, loop, waitForMore, fate, input, watch>>

PollTick ==
    /\ pollPc = "wait"
    /\ pollPc' = "read"
    /\ UNCHANGED <<db, notify, last, skip, expired, loop, waitForMore, fate, input, watch>>

\* d.After(ctx, "%", last, pollBatchSize): the first rows after last, which
\* may leave out rows that are reserved and not written yet; or an error.
PollRead ==
    /\ pollPc = "read"
    /\ LET later == {i \in Ids : i > last /\ rows[i] # "none"}
           first == {i \in later : Cardinality({j \in later : j < i}) < BatchSize}
       IN  IF first = {}
           THEN /\ pollPc' = "wait"
                /\ waitForMore' = TRUE
                /\ UNCHANGED loop
           ELSE /\ pollPc' = "scan"
                /\ batch' = {[id |-> i, gap |-> rows[i] = "gap"] : i \in first}
                /\ waitForMore' = (Cardinality(first) < MoreAt)
                /\ rev' = last
                /\ sequential' = {}
                /\ saveLast' = FALSE
    /\ UNCHANGED <<db, notify, last, skip, expired, fate, input, watch>>

PollReadFails ==
    /\ pollPc = "read"
    /\ pollPc' = "wait"
    /\ waitForMore' = TRUE
    /\ UNCHANGED <<db, notify, last, skip, expired, loop, fate, input, watch>>

next == rev + 1

\* Slip: a missing revision is waited for until Fill succeeds.
NeverSkip == FALSE

canSkipRevision == next = skip /\ expired

\* Take the first event of the round.
Take(e) ==
    /\ pollPc = "scan"
    /\ \A f \in batch : e.id <= f.id
    /\ batch' = batch \ {e}
    /\ rev' = e.id
    /\ saveLast' = TRUE
    /\ sequential' = IF e.gap THEN sequential ELSE sequential \cup {e.id}
    /\ fate' = [i \in Ids |-> IF canSkipRevision /\ i \in next..(e.id - 1) THEN "skipped"
                              ELSE IF i = e.id /\ e.gap THEN "filled"
                              ELSE fate[i]]
    /\ UNCHANGED <<db, notify, pollPc, last, skip, expired, waitForMore, input, watch>>

\* Slip: events are taken as they come, gap or no gap.
TakeAny(e) == Take(e)

\* It is the next revision, or comes after a gap that has been there for more
\* than a second.
PollEvent(e) == Take(e) /\ (e.id = next \/ canSkipRevision)

\* The next event comes after a gap.  The first time that revision is missed,
\* remember it, ask for another round and leave the loop; after that, fill it.
PollGap(e) ==
    /\ pollPc = "scan"
    /\ \A f \in batch : e.id <= f.id
    /\ e.id # next
    /\ ~ canSkipRevision
    /\ IF skip # next
       THEN /\ skip' = next
            /\ expired' = FALSE
            /\ Notify(next)
            /\ pollPc' = "send"
       ELSE /\ pollPc' = "fill"
            /\ UNCHANGED <<skip, expired, notify>>
    /\ batch' = {}
    /\ UNCHANGED <<db, last, rev, sequential, saveLast, waitForMore, fate, input, watch>>

\* d.Fill: core_publish writes the filler row under the missing id, whatever
\* has happened to that id since the read.
PollFill ==
    /\ pollPc = "fill"
    /\ rows' = [rows EXCEPT ![next] = "gap"]
    /\ Notify(next)
    /\ pollPc' = "send"
    /\ UNCHANGED <<maxid, reserved, answered, last, skip, expired, loop, waitForMore, fate, input, watch>>

PollFillFails ==
    /\ pollPc = "fill"
    /\ pollPc' = "send"
    /\ UNCHANGED <<db, notify, last, skip, expired, loop, waitForMore, fate, input, watch>>

\* The variables declared inside the loop.
OutOfScope == batch' = {} /\ rev' = 0 /\ sequential' = {} /\ saveLast' = FALSE

SaveLast == last' = IF saveLast THEN rev ELSE last

\* The events are done with: save last and hand them on; the channel has no
\* buffer, so this waits for the broadcaster.
PollSend ==
    /\ pollPc = "send" \/ (pollPc = "scan" /\ batch = {})
    /\ IF saveLast /\ sequential # {}
       THEN /\ input = {}
            /\ input' = sequential
       ELSE UNCHANGED input
    /\ SaveLast
    /\ fate' = [i \in Ids |-> IF saveLast /\ i \in sequential THEN "sent" ELSE fate[i]]
    /\ pollPc' = IF waitForMore THEN "wait" ELSE "read"
    /\ OutOfScope
    /\ UNCHANGED <<db, notify, skip, expired, waitForMore, watch>>

\* A second passes after a gap was first seen.
Expire ==
    /\ skip # 0
    /\ ~ expired
    /\ expired' = TRUE
    /\ UNCHANGED <<db, notify, pollPc, last, skip, loop, waitForMore, fate, input, watch>>

-----------------------------------------------------------------------------
(* Broadcaster.                                                             *)

\* Slip: a full channel loses the item and stays subscribed.
OfferOrLose(w, item) ==
    IF Len(watch[w].queue) < SubCap THEN [watch[w] EXCEPT !.queue = Append(@, item)]
    ELSE watch[w]

\* select { case sub <- item: default: go b.unsub(sub, true) }
Offer(w, item) ==
    IF Len(watch[w].queue) < SubCap THEN [watch[w] EXCEPT !.queue = Append(@, item)]
    ELSE [watch[w] EXCEPT !.ending = TRUE]

\* stream, under the lock: every subscriber is offered the item.
Stream ==
    /\ input # {}
    /\ input' = {}
    /\ watch' = [w \in Watchers |-> IF watch[w].subscribed THEN Offer(w, input) ELSE watch[w]]
    /\ UNCHANGED <<db, notify, poll>>

\* unsub: because the channel was full, or because the context is done (After
\* returned an error, or the client cancelled, which it may at any time).
Unsub(w) ==
    /\ watch[w].subscribed
    /\ watch' = [watch EXCEPT ![w].subscribed = FALSE]
    /\ UNCHANGED <<db, notify, poll, input>>

-----------------------------------------------------------------------------
(* LogStructured.Watch.                                                     *)

\* LogStructured.Start watches "/" for expiring leases: the first subscription
\* starts the poll loop, unless a client's watch does.
StartTtl ==
    /\ pollPc = "off"
    /\ pollPc' = "wait"
    /\ UNCHANGED <<db, notify, last, skip, expired, loop, waitForMore, fate, input, watch>>

\* A watch with nothing in it.
Blank(status) ==
    [status |-> status, readChan |-> FALSE, subscribed |-> FALSE, ending |-> FALSE,
     queue |-> <<>>, from |-> 0, max |-> 0, lastRevision |-> 0, listed |-> {},
     inflight |-> {}, streamed |-> <<>>]

NewWatch == Blank("new")

\* Subscribe.  revision is what the client asked for less one.
Watch(w, revision) ==
    /\ watch[w].status = "new"
    /\ revision <= maxid
    /\ watch' = [watch EXCEPT ![w].status = "list", ![w].readChan = TRUE,
                              ![w].subscribed = TRUE, ![w].from = revision]
    /\ pollPc' = IF pollPc = "off" THEN "wait" ELSE pollPc
    /\ UNCHANGED <<db, notify, last, skip, expired, loop, waitForMore, fate, input>>

\* The first subscription reads the compact revision; when that fails Subscribe
\* returns the error, SQLLog.Watch a nil channel, and the watch goes on with it:
\* it lists, and then waits for good, whether it is cancelled or not.
WatchUnconnected(w, revision) ==
    /\ watch[w].status = "new"
    /\ revision <= maxid
    /\ pollPc = "off"
    /\ watch' = [watch EXCEPT ![w].status = "list", ![w].from = revision]
    /\ UNCHANGED <<db, notify, poll, input>>

\* After, first half (query_find_common_values): the MaxId column.
WatchMaxId(w) ==
    /\ watch[w].status = "list"
    /\ watch' = [watch EXCEPT ![w].status = "read", ![w].max = maxid]
    /\ UNCHANGED <<db, notify, poll, input>>

\* After, second half (dds_read): the rows.  The list goes to the client first.
WatchRows(w) ==
    /\ watch[w].status = "read"
    /\ LET kvs == {i \in Ids : i > watch[w].from /\ rows[i] = "row"}
       IN  watch' = [watch EXCEPT
             ![w].status = "stream",
             ![w].listed = kvs,
             ![w].lastRevision = IF kvs # {} THEN watch[w].max ELSE watch[w].from,
             ![w].inflight = reserved]
    /\ UNCHANGED <<db, notify, poll, input>>

\* After returns an error: it is logged and the context cancelled, but the
\* goroutine that reads the stream starts all the same.
WatchListFails(w) ==
    /\ watch[w].status \in {"list", "read"}
    /\ watch' = [watch EXCEPT ![w].status = "stream", ![w].ending = TRUE,
                              ![w].lastRevision = watch[w].from]
    /\ UNCHANGED <<db, notify, poll, input>>

\* The events of an item, in the order of their ids.
Ascending(S) ==
    CHOOSE s \in [1..Cardinality(S) -> S] : \A i, j \in 1..Cardinality(S) : i < j => s[i] < s[j]

\* Slip: all of an item is sent on, what the list had too.
WatchNextAll(w) ==
    /\ watch[w].status = "stream"
    /\ watch[w].queue # <<>>
    /\ watch' = [watch EXCEPT ![w].queue = Tail(@),
                              ![w].streamed = @ \o Ascending(Head(watch[w].queue))]
    /\ UNCHANGED <<db, notify, poll, input>>

\* One item of the stream, less the leading events up to lastRevision.
WatchNext(w) ==
    /\ watch[w].status = "stream"
    /\ watch[w].queue # <<>>
    /\ LET events == {i \in Head(watch[w].queue) : i > watch[w].lastRevision}
       IN  watch' = [watch EXCEPT ![w].queue = Tail(@),
                                  ![w].streamed = @ \o Ascending(events)]
    /\ UNCHANGED <<db, notify, poll, input>>

\* The channel is closed and drained: the watch is over, with what it held.
WatchEnd(w) ==
    /\ watch[w].status = "stream"
    /\ watch[w].readChan /\ ~ watch[w].subscribed
    /\ watch[w].queue = <<>>
    /\ watch' = [watch EXCEPT ![w] = Blank("closed")]
    /\ UNCHANGED <<db, notify, poll, input>>

-----------------------------------------------------------------------------

Init ==
    /\ maxid = PollStart
    /\ rows = [i \in Ids |-> "none"]
    /\ reserved = {} /\ answered = {}
    /\ notify = <<>>
    /\ pollPc = "off"
    /\ last = PollStart
    /\ skip = 0
    /\ expired = FALSE
    /\ batch = {}
    /\ rev = 0
    /\ sequential = {}
    /\ saveLast = FALSE
    /\ waitForMore = TRUE
    /\ input = {}
    /\ fate = [i \in Ids |-> "none"]
    /\ watch = [w \in Watchers |-> NewWatch]

Next ==
    \/ AppendReserve
    \/ \E i \in Ids : AppendWrite(i)
    \/ \E i \in Ids : AppendReturn(i)
    \/ List
    \/ PollNotified
    \/ PollTick
    \/ PollRead
    \/ PollReadFails
    \/ \E e \in batch : PollEvent(e)
    \/ \E e \in batch : PollGap(e)
    \/ PollFill
    \/ PollFillFails
    \/ PollSend
    \/ Expire
    \/ Stream
    \/ \E w \in Watchers : Unsub(w)
    \/ StartTtl
    \/ \E w \in Watchers, r \in PollStart..MaxId : Watch(w, r)
    \/ \E w \in Watchers, r \in PollStart..MaxId : WatchUnconnected(w, r)
    \/ \E w \in Watchers : WatchMaxId(w)
    \/ \E w \in Watchers : WatchRows(w)
    \/ \E w \in Watchers : WatchListFails(w)
    \/ \E w \in Watchers : WatchNext(w)
    \/ \E w \in Watchers : WatchEnd(w)

\* The goroutines of poll and of the broadcaster keep running, a second
\* passes, and the database does not fail every read.
Fairness ==
    /\ WF_vars(PollTick)
    /\ SF_vars(PollRead)
    /\ WF_vars(\E e \in batch : PollEvent(e) \/ PollGap(e))
    /\ WF_vars(PollFill \/ PollFillFails)
    /\ WF_vars(PollSend)
    /\ WF_vars(Expire)
    /\ WF_vars(Stream)

Spec == Init /\ [][Next]_vars /\ Fairness

-----------------------------------------------------------------------------
(* Properties.                                                              *)

\* Everything a watcher has been or is about to be told of.
Told(w) ==
    watch[w].listed \cup input
      \cup {watch[w].streamed[i] : i \in 1..Len(watch[w].streamed)}
      \cup UNION {watch[w].queue[i] : i \in 1..Len(watch[w].queue)}

\* poll reports rows "in a sequential fashion": a revision it has moved past
\* was handed to the broadcaster, was a filler row, or was given up after a
\* second; no row is passed over because another was written first.
EveryRevisionAccounted ==
    \A i \in Ids : i <= last => fate[i] # "none"

\* A watch that is not being closed misses only rows that were reserved and
\* not yet written while its list was read: subscribing before listing loses
\* no other row that poll reports, whatever is in the channels.
MissedOnlyInFlight ==
    \A w \in Watchers :
        (watch[w].status = "stream" /\ watch[w].subscribed /\ ~ watch[w].ending)
          => \A i \in Ids : (fate[i] = "sent" /\ i > watch[w].from)
                              => i \in Told(w) \cup watch[w].inflight

\* What a watch gets, first the list and then the stream, is in ascending order
\* of revision without repeats, although poll reads the same rows again after
\* every gap; but for rows of the list that got their id after the revision of
\* the list had been read: the stream tells of them again, and may tell of an
\* earlier one after them.
StreamAscending ==
    \A w \in Watchers : \A j \in 1..Len(watch[w].streamed) :
        /\ \A i \in 1..(j - 1) : watch[w].streamed[i] < watch[w].streamed[j]
        /\ \A i \in watch[w].listed : i <= watch[w].max => i < watch[w].streamed[j]

\* poll never pauses the watches for good: it gets past every row, also when
\* an earlier id is never written, filling it fails, or the notification was
\* dropped.
CatchesUp ==
    \A i \in Ids : (rows[i] # "none" /\ pollPc # "off") ~> (last >= i)

\* A row stays once its insert is over, as it does under SQL's primary key,
\* where Fill of an id that is taken fails.  False: Fill overwrites the row of
\* an id that was missing when poll read and written and acknowledged since.
AckedRowKept ==
    [][\A i \in Ids \ (reserved \cup answered) : rows[i] = "row" => rows'[i] = "row"]_vars
=============================================================================
