-------------------------------- MODULE Nats --------------------------------
(***************************************************************************)
(* The NATS driver (drivers/nats): keys are kept in a JetStream bucket, a   *)
(* stream of entries numbered in order.  Create, Update and Delete read the *)
(* key and write it in separate calls, under a mutex of the key's folder    *)
(* that is local to the process; Delete writes a tombstone and then the     *)
(* bucket's own delete marker.  Readers take no lock, yet remove a key      *)
(* whose lease they find to be over, by an unconditional delete.            *)
(*                                                                          *)
(* The bucket is external: newest entry per key, entries of the past up to  *)
(* a number, create only if there is no newest entry but a marker.  Any of  *)
(* its calls may fail, a write then being stored or not; a process may end  *)
(* at any time, also by the panic that follows when a watch cannot be       *)
(* opened.  Values are not represented; every list and watch is of all keys.*)
(***************************************************************************)
EXTENDS Integers, FiniteSets, Sequences, FiniteSetsExt, Functions

CONSTANTS
    Nodes,      \* processes of kine on one bucket
    Writers,    \* requests in progress: Create, Update, Delete
    Readers,    \* and Get, List
    NodeOf,     \* the process that serves a request
    Watchers,   \* watches, of any process
    Keys,
    Plain,      \* keys that are never written with a lease
    FolderOf,   \* getTopLevelKey; NoFolder for a key that has none
    NoFolder,
    Bucket,     \* the entries that an earlier run left
    History,    \* entries of a key that the bucket keeps (revHistory)
    MaxSeq,     \* bound: entries written
    MaxReading  \* bound: reads and watches at a time

Clients == Writers \cup Readers

Revisions == 0..MaxSeq

\* An entry: JSValue of a put; a marker of the bucket is none.  prev is
\* PrevRevision; created and updated rows have their own revision only once
\* they are read back.
Entries == [key: Keys, put: BOOLEAN, create: BOOLEAN, delete: BOOLEAN,
            prev: Revisions, createRevision: Revisions, lease: BOOLEAN]

ASSUME NatsAssumption ==
    /\ MaxSeq \in Nat /\ MaxReading \in Nat
    /\ History \in Nat \ {0}
    /\ Keys # {} /\ Plain \subseteq Keys
    /\ NodeOf \in [Clients -> Nodes]
    /\ DOMAIN FolderOf = Keys
    /\ Bucket \in Seq(Entries) /\ Len(Bucket) <= MaxSeq

VARIABLES
    stream,   \* the bucket's entries; an entry's number is its revision
    over,     \* revisions whose lease is over
    op,       \* op[p]: a request in progress
    watch     \* watch[w]: a watch

vars == <<stream, over, op, watch>>

Marker(k) == [key |-> k, put |-> FALSE, create |-> FALSE, delete |-> FALSE,
              prev |-> 0, createRevision |-> 0, lease |-> FALSE]

Idle == [pc |-> "idle", kind |-> "get", key |-> CHOOSE k \in Keys : TRUE, revision |-> 0,
         lease |-> FALSE, found |-> 0, answer |-> "no", result |-> 0, listed |-> {},
         reap |-> {}]

Off == [pc |-> "off", from |-> 0, revision |-> 0, listedAt |-> 0,
        todo |-> {}, got |-> <<>>, reap |-> {}]

\* The records of op and of watch, when the bucket has n entries.
Ops == [pc: {"idle", "read", "expire", "write", "mark", "snap", "sweep", "answer"},
        kind: {"create", "update", "delete", "get", "list"}, key: Keys,
        revision: Revisions, lease: BOOLEAN, found: Revisions,
        answer: {"yes", "no", "error"}, result: Revisions, listed: SUBSET Revisions,
        reap: SUBSET Keys]

Watches(n) == [pc: {"off", "list", "run"}, from: Revisions, revision: Revisions,
               listedAt: Revisions, todo: SUBSET (1..n), got: Seq(1..n), reap: SUBSET Keys]

TypeOK ==
    /\ stream \in Seq(Entries) /\ Len(stream) <= MaxSeq
    /\ over \subseteq DOMAIN stream
    /\ op \in [Clients -> Ops]
    /\ watch \in [Watchers -> Watches(Len(stream))]

Room == Cardinality({p \in Readers : op[p] # Idle}) + Cardinality({w \in Watchers : watch[w] # Off})
          < MaxReading

-----------------------------------------------------------------------------
(* The bucket.                                                              *)

Of(k) == {i \in DOMAIN stream : stream[i].key = k}

Newest(S) == Max(S \cup {0})

\* History: the newest entries of k, as many as the bucket keeps.
Kept(k) == {i \in Of(k) : Cardinality({j \in Of(k) : j > i}) < History}

Put(i) == i # 0 /\ stream[i].put

\* kv.Get: the newest entry of k, 0 if it is a marker or there is none.
KvGet(k) ==
    Newest({i \in Of(k) : stream[i].put /\ \A j \in (i + 1)..Len(stream) : stream[j].key # k})

KvGetRevision(k, r) == IF r \in Kept(k) /\ Put(r) THEN r ELSE 0

\* Watch with IgnoreDeletes, up to the nil that ends the present: getKeyValues.
LastPerKey == {KvGet(k) : k \in Keys} \ {0}

currentRevision == Len(stream)

\* An entry is stored and is sent to every open watch that does not ignore it.
Store(e) ==
    /\ Len(stream) < MaxSeq
    /\ stream' = Append(stream, e)
    /\ watch' = [w \in Watchers |->
         IF watch[w].pc # "off" /\ e.put
         THEN [watch[w] EXCEPT !.todo = @ \cup {Len(stream) + 1}]
         ELSE watch[w]]
    /\ UNCHANGED over

NotStored == UNCHANGED <<stream, over, watch>>

-----------------------------------------------------------------------------
(* Requests.                                                                *)

Locks(kind) == kind \in {"create", "update", "delete"}

\* Slip: the mutex is taken for reading (an RWMutex).
RLockFolder(p, k) == TRUE

\* No request of the same process is between its lockFolder and its return, on
\* a key of the folder.
lockFolder(p, k) ==
    \A q \in Clients :
        op[q] # Idle /\ Locks(op[q].kind) /\ NodeOf[q] = NodeOf[p]
          => FolderOf[op[q].key] # FolderOf[k] \/ FolderOf[k] = NoFolder

\* A request that has its lock; until then it has done nothing.
Call(p, kind, k, r, lease) ==
    /\ op[p].pc = "idle"
    /\ IF Locks(kind) THEN lockFolder(p, k) ELSE Room
    /\ op' = [op EXCEPT ![p] = [Idle EXCEPT !.pc = "read", !.kind = kind, !.key = k,
                                            !.revision = r, !.lease = lease]]
    /\ UNCHANGED <<stream, over, watch>>

Answer(o, answer, r) ==
    [o EXCEPT !.pc = "answer", !.answer = answer, !.result = r, !.found = 0, !.lease = FALSE,
              !.revision = IF Locks(o.kind) THEN 0 ELSE @]

Writes(o, i) == [o EXCEPT !.pc = "write", !.found = i]

\* What each method does with the entry i that its get returned, 0 for not
\* found.
DecideCreate(o, i) ==
    IF i # 0 /\ ~ stream[i].delete THEN Answer(o, "no", 0) ELSE Writes(o, i)

DecideUpdate(o, i) ==
    IF i = 0 \/ i # o.revision THEN Answer(o, "no", 0) ELSE Writes(o, i)

DecideDelete(o, i) ==
    IF i = 0 \/ stream[i].delete THEN Answer(o, "yes", 0)
    ELSE IF o.revision \notin {0, i} THEN Answer(o, "no", 0) ELSE Writes(o, i)

Decide(o, i) ==
    CASE o.kind = "create" -> DecideCreate(o, i)
      [] o.kind = "update" -> DecideUpdate(o, i)
      [] o.kind = "delete" -> DecideDelete(o, i)
      [] o.kind = "get" -> Answer(o, "yes", i)

\* d.get: the entry asked for, if it may be shown, and whether it is expired.
Expired(i) == stream[i].lease /\ i \in over

get(p) ==
    /\ op[p].pc = "read" /\ op[p].kind # "list"
    /\ LET o == op[p]
           i == IF o.kind = "get" /\ o.revision > 0 THEN KvGetRevision(o.key, o.revision)
                                                    ELSE KvGet(o.key)
           shown == i # 0 /\ (o.kind \in {"create", "delete"} \/ ~ stream[i].delete)
       IN op' = [op EXCEPT ![p] = IF shown /\ Expired(i) THEN [o EXCEPT !.pc = "expire"]
                                  ELSE Decide(o, IF shown THEN i ELSE 0)]
    /\ UNCHANGED <<stream, over, watch>>

\* isKeyExpired removes the key, whatever its newest entry is by now, and the
\* entry counts as not found whether or not the removal works.
isKeyExpired(p) ==
    /\ op[p].pc = "expire"
    /\ Store(Marker(op[p].key)) \/ NotStored
    /\ op' = [op EXCEPT ![p] = Decide(op[p], 0)]

\* Slip: every update passes on the revision it replaces.
PrevRevision(o) == o.found

\* A tombstone holds the whole value that it deletes; an update of a created
\* value, which has no create revision, names that value's revision.
CreateRevision(o) ==
    IF o.kind = "create" THEN 0
    ELSE IF o.kind = "update" /\ stream[o.found].createRevision = 0 THEN o.found
    ELSE stream[o.found].createRevision

\* The value that Create, Update and Delete write.
Value(o) ==
    [key |-> o.key, put |-> TRUE, create |-> o.kind = "create", delete |-> o.kind = "delete",
     prev |-> o.found, createRevision |-> CreateRevision(o),
     lease |-> IF o.kind = "delete" THEN stream[o.found].lease ELSE o.lease]

\* kv.Create of a key that was not found is refused if it is there again.
Refused(o) == o.kind = "create" /\ o.found = 0 /\ KvGet(o.key) # 0

write(p) ==
    /\ op[p].pc = "write" /\ ~ Refused(op[p])
    /\ Store(Value(op[p]))
    /\ op' = [op EXCEPT ![p] = IF @.kind = "delete" THEN [@ EXCEPT !.pc = "mark"]
                               ELSE Answer(@, "yes", Len(stream) + 1)]

\* The write fails, stored or not: Delete answers false without an error.
writeFails(p) ==
    /\ op[p].pc = "write"
    /\ NotStored \/ (~ Refused(op[p]) /\ Store(Value(op[p])))
    /\ op' = [op EXCEPT ![p] = Answer(@, IF @.kind = "delete" THEN "no" ELSE "error", 0)]

\* Delete's second write.
mark(p) ==
    /\ op[p].pc = "mark"
    /\ \/ Store(Marker(op[p].key)) /\ op' = [op EXCEPT ![p] = Answer(@, "yes", 0)]
       \/ /\ NotStored \/ Store(Marker(op[p].key))
          /\ op' = [op EXCEPT ![p] = Answer(@, "no", 0)]

\* Another call of the bucket fails: the error is returned at once.
Fails(p) ==
    /\ op[p].pc \in {"read", "snap"}
    /\ op' = [op EXCEPT ![p] = Idle]
    /\ UNCHANGED <<stream, over, watch>>

Return(p) ==
    /\ op[p].pc = "answer"
    /\ op' = [op EXCEPT ![p] = Idle]
    /\ UNCHANGED <<stream, over, watch>>

-----------------------------------------------------------------------------
(* List, without a start key, of the present (revision 0) or of the past.   *)

\* The revision of the answer is read before the keys are.
ListRevision(p) ==
    /\ op[p].pc = "read" /\ op[p].kind = "list"
    /\ op' = [op EXCEPT ![p].pc = "snap",
                        ![p].result = IF op[p].revision = 0 THEN currentRevision
                                      ELSE op[p].revision]
    /\ UNCHANGED <<stream, over, watch>>

\* The present: entries whose lease is over are left out, and are removed.
ListPresent(o) ==
    [o EXCEPT !.pc = "sweep",
              !.listed = {i \in LastPerKey : ~ Expired(i)},
              !.reap = {stream[i].key : i \in {j \in LastPerKey : Expired(j)}}]

\* The past, of the keys K that are there now and whose history could be read:
\* another one is left out without an error.  An entry listed may be a marker.
ListPast(o, K) ==
    [o EXCEPT !.pc = "answer", !.answer = "yes",
              !.listed = {Newest({i \in Kept(k) : i <= o.revision}) : k \in K} \ {0}]

ListRead(p) ==
    /\ op[p].pc = "snap"
    /\ \/ op[p].revision = 0 /\ op' = [op EXCEPT ![p] = ListPresent(@)]
       \/ /\ op[p].revision # 0
          /\ \E K \in SUBSET {stream[i].key : i \in LastPerKey} :
               op' = [op EXCEPT ![p] = ListPast(@, K)]
    /\ UNCHANGED <<stream, over, watch>>

ListExpire(p) ==
    /\ op[p].pc = "sweep"
    /\ \E k \in op[p].reap :
         /\ Store(Marker(k)) \/ NotStored
         /\ op' = [op EXCEPT ![p].reap = @ \ {k}]

\* Slip: the revision of the end.
StampedLate(o) == Answer(o, "yes", currentRevision)

Stamped(o) == Answer(o, "yes", o.result)

ListDone(p) ==
    /\ op[p].pc = "sweep" /\ op[p].reap = {}
    /\ op' = [op EXCEPT ![p] = Stamped(@)]
    /\ UNCHANGED <<stream, over, watch>>

-----------------------------------------------------------------------------
(* Watch.                                                                   *)

\* Filling in PrevKV reads the previous revision of an event (the newest if it
\* has none), and removes the key if the lease of what it reads is over.
PrevExpired(i) ==
    LET e == stream[i]
        j == IF e.prev = 0 THEN KvGet(e.key) ELSE KvGetRevision(e.key, e.prev)
    IN j # 0 /\ ~ stream[j].delete /\ Expired(j)

Reap(S) == {stream[i].key : i \in {j \in S : PrevExpired(j)}}

\* Slips: the revision is decremented whatever it is; the filter stays as it
\* was; a value that has been replaced is passed over.
Decremented(r) == r - 1
Unmoved(w, S) == watch[w].revision
PassesNewest(w, i) == i > watch[w].revision /\ i = KvGet(stream[i].key)

\* Events from the revision r on are those after r - 1.
After(r) == IF r > 0 THEN r - 1 ELSE 0

\* After the events S of the list, the stream goes on behind the last of them.
Resume(w, S) == Newest(S \cup {watch[w].revision})

Passes(w, i) == i > watch[w].revision

WatchStart(w, r) ==
    /\ watch[w] = Off /\ Room
    /\ watch' = [watch EXCEPT ![w] =
         [Off EXCEPT !.pc = "list", !.from = After(r), !.revision = After(r),
                     !.listedAt = Len(stream), !.todo = LastPerKey]]
    /\ UNCHANGED <<stream, over, op>>

\* The bucket sends entries in their order, and the list keeps it
\* (getKeyValues, not sorted by key).
Ascending(S) ==
    CHOOSE s \in [1..Cardinality(S) -> S] : \A i, j \in 1..Cardinality(S) : i < j => s[i] < s[j]

\* The first events: the entries that are newest of their key, and newer than
\* the revision.
listAfter(w) ==
    /\ watch[w].pc = "list"
    /\ LET S == {i \in LastPerKey : i > watch[w].revision}
       IN watch' = [watch EXCEPT ![w] =
            [@ EXCEPT !.pc = "run", !.listedAt = Len(stream), !.reap = Reap(S),
                      !.got = Ascending(S), !.revision = Resume(w, S)]]
    /\ UNCHANGED <<stream, over, op>>

\* The watch goes on without its list.
listAfterFails(w) ==
    /\ watch[w].pc = "list"
    /\ watch' = [watch EXCEPT ![w].pc = "run"]
    /\ UNCHANGED <<stream, over, op>>

WatchNext(w) ==
    /\ watch[w].pc = "run" /\ watch[w].reap = {} /\ watch[w].todo # {}
    /\ LET i == Min(watch[w].todo)
       IN watch' = [watch EXCEPT ![w].todo = @ \ {i},
                                 ![w].got = IF Passes(w, i) THEN Append(@, i) ELSE @,
                                 ![w].reap = IF Passes(w, i) THEN Reap({i}) ELSE {}]
    /\ UNCHANGED <<stream, over, op>>

\* The removal stores a marker, which no watch is sent.
WatchExpire(w) ==
    /\ \E k \in watch[w].reap :
         /\ stream' \in {stream} \cup (IF Len(stream) < MaxSeq THEN {Append(stream, Marker(k))} ELSE {})
         /\ watch' = [watch EXCEPT ![w].reap = @ \ {k}]
    /\ UNCHANGED <<over, op>>

WatchCancel(w) ==
    /\ watch[w].pc # "off"
    /\ watch' = [watch EXCEPT ![w] = Off]
    /\ UNCHANGED <<stream, over, op>>

-----------------------------------------------------------------------------

\* Leases have one length.
LeaseOver(i) ==
    /\ i \notin over /\ stream[i].lease
    /\ \A j \in 1..(i - 1) : stream[j].lease => j \in over
    /\ over' = over \cup {i}
    /\ UNCHANGED <<stream, op, watch>>

\* A process ends; its watches end with WatchCancel.
Crash(n) ==
    /\ \E p \in Clients : NodeOf[p] = n /\ op[p] # Idle
    /\ op' = [p \in Clients |-> IF NodeOf[p] = n THEN Idle ELSE op[p]]
    /\ UNCHANGED <<stream, over, watch>>

Init ==
    /\ stream = Bucket
    /\ over = {}
    /\ op = [p \in Clients |-> Idle]
    /\ watch = [w \in Watchers |-> Off]

\* The revisions that requests name were given out before: for writes those of
\* the key, for reads the newest, which may be old when it is used, and for
\* watches the one that follows a list.
Calls ==
    \/ \E p \in Writers, k \in Keys :
        \/ Call(p, "create", k, 0, k \notin Plain)
        \/ \E r \in Of(k) : Call(p, "update", k, r, k \notin Plain)
        \/ \E r \in Of(k) \cup {0} : Call(p, "delete", k, r, FALSE)
    \/ \E p \in Readers, k \in Keys :
        \/ \E r \in {0, Newest(Of(k))} : Call(p, "get", k, r, FALSE)
        \/ k = Idle.key /\ \E r \in {0, currentRevision} : Call(p, "list", k, r, FALSE)

Next ==
    \/ Calls
    \/ \E p \in Clients :
         \/ get(p) \/ isKeyExpired(p) \/ write(p) \/ writeFails(p)
         \/ mark(p) \/ Fails(p) \/ Return(p)
         \/ ListRevision(p) \/ ListRead(p) \/ ListExpire(p) \/ ListDone(p)
    \/ \E w \in Watchers :
         \/ \E r \in {0, currentRevision + 1} : WatchStart(w, r)
         \/ listAfter(w) \/ listAfterFails(w) \/ WatchNext(w) \/ WatchExpire(w) \/ WatchCancel(w)
    \/ \E i \in DOMAIN stream : LeaseOver(i)
    \/ \E n \in Nodes : Crash(n)

Spec == Init /\ [][Next]_vars

-----------------------------------------------------------------------------
(* Properties.                                                              *)

Live(i) == Put(i) /\ ~ stream[i].delete

\* The requests on plain keys, as the abstract store sees them: Delete has
\* taken effect once its tombstone is written, the others at their answer.
Request(p) ==
    LET o == op[p] IN
    IF o.pc = "idle" \/ o.key \notin Plain \/ o.kind = "list" \/ (o.kind = "get" /\ o.revision # 0)
    THEN [pc |-> "idle"]
    ELSE IF o.pc \in {"mark", "answer"}
    THEN [pc |-> "done", kind |-> o.kind, key |-> o.key,
          answer |-> IF o.pc = "mark" THEN "yes" ELSE o.answer, result |-> o.result]
    ELSE [pc |-> "called", kind |-> o.kind, key |-> o.key, revision |-> o.revision]

Requested == [p \in Clients |-> Request(p)]

\* The revision of each plain key that is there.
Stored == [k \in Plain |-> LET i == KvGet(k) IN IF Live(i) THEN i ELSE 0]

KV == INSTANCE KVStore WITH
    Procs <- Clients, Keys <- Plain, MaxRev <- MaxSeq,
    rev <- Len(stream), store <- Stored, call <- Requested

\* One process serves the keys that have no lease as an atomic store: a key is
\* only created when absent, updated and deleted at the revision compared with,
\* and read as it is, through failed and lost writes, the two writes of a
\* delete, crashes, and readers that remove expired keys of the same folder.
AtomicStore == KV!Spec

\* A watch gets events in the order of their revisions, none twice and none
\* from before the revision asked for, over the join of its list and stream.
WatchAscending ==
    \A w \in Watchers :
        LET got == watch[w].got IN
        /\ \A i \in DOMAIN got : got[i] > watch[w].from
        /\ \A i, j \in DOMAIN got : i < j => got[i] < got[j]

\* What a watch passes over is a value of its key that had been replaced, or
\* removed, by the time the list was read; it is told of every later one.
WatchMissesOnlyReplaced ==
    \A w \in Watchers : watch[w].pc = "run" =>
        \A i \in DOMAIN stream :
            Put(i) /\ i > watch[w].from /\ i \notin watch[w].todo /\ i \notin Range(watch[w].got)
              => \E j \in Of(stream[i].key) : i < j /\ j <= watch[w].listedAt

\* A list of the present lacks no key that was there at the revision it gives,
\* unless an entry of the key follows that revision, for a watch from there to
\* tell, or its lease is over.
ListCoversRevision ==
    \A p \in Clients :
        LET o == op[p] IN
        o.kind = "list" /\ o.pc = "answer" /\ o.answer = "yes" /\ o.revision = 0 =>
            \A k \in Keys :
                LET i == Newest({j \in Of(k) : j <= o.result}) IN
                Live(i) => \/ i \in o.listed
                           \/ i \in over
                           \/ \E j \in Of(k) : j > o.result

\* The create revision that an update or a tombstone passes on is that of the
\* newest creation of the key, through any number of updates and recreations.
CreateRevisionIsCreate ==
    \A i \in DOMAIN stream :
        stream[i].createRevision # 0 =>
            stream[i].createRevision =
                Newest({j \in Of(stream[i].key) : j < i /\ stream[j].create})
=============================================================================
