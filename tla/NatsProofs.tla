----------------------------- MODULE NatsProofs -----------------------------
(***************************************************************************)
(* Proofs about the NATS driver, for every number of processes, requests,   *)
(* watches, keys and entries.  What needs a lock that reaches every writer  *)
(* is proved of one process, of keys that have a folder.                    *)
(***************************************************************************)
EXTENDS Nats, TLAPS, FiniteSetTheorems, SequenceTheorems, WellFoundedInduction

-----------------------------------------------------------------------------
(* Numbers, and sets in ascending order.                                    *)

\* A set of numbers that is not empty has a least one.
LEMMA NatMin == ASSUME NEW T \in SUBSET Nat, T # {} PROVE \E x \in T : \A y \in T : x <= y
<1> DEFINE R == {ss \in Nat \X Nat : ss[1] < ss[2]}
<1>1. IsWellFoundedOn(R, Nat)
  BY NatLessThanWellFounded DEF OpToRel
<1>2. \A x, y \in Nat : <<y, x>> \in R <=> y < x
  OBVIOUS
<1>3. ASSUME NEW Q, IsWellFoundedOn(Q, Nat), \A x, y \in Nat : <<y, x>> \in Q <=> y < x
      PROVE  \E x \in T : \A y \in T : x <= y
  <2>1. PICK x \in T : \A y \in T : ~ (<<y, x>> \in Q)
    BY <1>3, WFMin
  <2>2. ASSUME NEW y \in T PROVE x <= y
    <3>1. ~ (<<y, x>> \in Q) /\ x \in Nat /\ y \in Nat
      BY <2>1
    <3>2. ~ (y < x)
      BY <1>3, <3>1
    <3> QED
      BY <3>1, <3>2
  <2> QED
    BY <2>2
<1> HIDE DEF R
<1> QED
  BY <1>1, <1>2, <1>3

\* Max returns the largest of a set of numbers that is not empty and has a bound.
LEMMA MaxIs == ASSUME NEW S \in SUBSET Nat, NEW n \in Nat, S # {}, \A x \in S : x <= n
               PROVE Max(S) \in S /\ \A y \in S : y <= Max(S)
<1> DEFINE T == {k \in Nat : \E x \in S : k = n - x}
<1>1. T \in SUBSET Nat 
  OBVIOUS
<1>1a. T # {}
  <2>1. PICK x \in S : TRUE
    OBVIOUS
  <2>2. n - x \in Nat
    OBVIOUS
  <2> QED BY <2>2
<1> HIDE DEF T
<1>2. PICK t \in T : \A y \in T : t <= y
  BY <1>1, <1>1a, NatMin
<1>3. PICK m \in S : t = n - m
  BY <1>2 DEF T
<1>4. \A y \in S : m >= y
  <2> TAKE y \in S
  <2>1. n - y \in T BY DEF T
  <2> QED BY <2>1, <1>2, <1>3
<1> QED
  BY <1>4 DEF Max

\* s lists the set S in ascending order.
Lists(s, S) ==
    /\ s \in [1..Cardinality(S) -> S]
    /\ \A i, j \in 1..Cardinality(S) : i < j => s[i] < s[j]

\* Every finite set of numbers can be listed so: no smallest size is without.
LEMMA ListExists ==
    ASSUME NEW b \in Nat, NEW S \in SUBSET (0..b)
    PROVE  \E s : Lists(s, S)
<1> DEFINE Bad == {n \in Nat : \E T \in SUBSET (0..b) : Cardinality(T) = n /\ ~ \E s : Lists(s, T)}
<1>1. \A T \in SUBSET (0..b) : IsFiniteSet(T) /\ Cardinality(T) \in Nat
  <2>1. IsFiniteSet(0..b)
    BY FS_Interval
  <2> QED
    BY <2>1, FS_Subset, FS_CardinalityType
<1>2. ASSUME Bad # {} PROVE FALSE
  <2>1. Bad \in SUBSET Nat
    OBVIOUS
  <2>2. PICK n \in Bad : \A m \in Bad : n <= m
    BY <1>2, <2>1, NatMin
  <2>3. PICK T \in SUBSET (0..b) : Cardinality(T) = n /\ ~ \E s : Lists(s, T)
    BY <2>2
  <2>4. CASE T = {}
    <3>1. Cardinality(T) = 0
      BY <2>4, FS_EmptySet
    <3>2. [i \in 1..0 |-> 0] \in [1..0 -> T]
      OBVIOUS
    <3>3. Lists([i \in 1..0 |-> 0], T)
      BY <3>1, <3>2 DEF Lists
    <3> QED
      BY <3>3, <2>3
  <2>5. CASE T # {}
    <3>1. T \in SUBSET Nat
      OBVIOUS
    <3>2. PICK x \in T : \A y \in T : x <= y
      BY <2>5, <3>1, NatMin
    <3> DEFINE U == T \ {x}
               m == Cardinality(U)
    <3>3. m = n - 1 /\ m \in Nat /\ n \in Nat
      BY <1>1, <2>3, FS_RemoveElement
    <3>4. m \notin Bad
      BY <2>2, <3>3
    <3>5. PICK s : Lists(s, U)
      BY <3>3, <3>4
    <3>6. s \in [1..m -> U] /\ \A i, j \in 1..m : i < j => s[i] < s[j]
      BY <3>5 DEF Lists
    <3>7. \A y \in U : x < y
      BY <3>1, <3>2
    <3> HIDE DEF m, U
    <3> DEFINE r == [i \in 1..n |-> IF i = 1 THEN x ELSE s[i - 1]]
    <3>8. \A i \in 1..n : i # 1 => i - 1 \in 1..m
      BY <3>3
    <3>9. \A i \in 1..n : i # 1 => s[i - 1] \in U
      BY <3>6, <3>8
    <3>10. r \in [1..n -> T]
      BY <3>9 DEF U
    <3>11. ASSUME NEW i \in 1..n, NEW j \in 1..n, i < j PROVE r[i] < r[j]
      <4>1. j # 1 /\ r[j] = s[j - 1] /\ j - 1 \in 1..m
        BY <3>3, <3>8, <3>11
      <4>2. CASE i = 1
        BY <4>1, <4>2, <3>7, <3>9
      <4>3. CASE i # 1
        <5>1. r[i] = s[i - 1] /\ i - 1 \in 1..m /\ i - 1 < j - 1
          BY <3>3, <3>8, <3>11, <4>3
        <5> QED
          BY <4>1, <5>1, <3>6
      <4> QED
        BY <4>2, <4>3
    <3>12. Lists(r, T)
      BY <2>3, <3>10, <3>11 DEF Lists
    <3> QED
      BY <2>3, <3>12
  <2> QED
    BY <2>4, <2>5
<1> QED
  BY <1>1, <1>2

\* Ascending returns such a list, and it names all of the set.
LEMMA AscendingIs ==
    ASSUME NEW b \in Nat, NEW S \in SUBSET (0..b)
    PROVE  /\ Ascending(S) \in Seq(S)
           /\ \A i, j \in 1..Len(Ascending(S)) : i < j => Ascending(S)[i] < Ascending(S)[j]
           /\ \A x \in S : \E i \in 1..Len(Ascending(S)) : Ascending(S)[i] = x
<1> DEFINE n == Cardinality(S)
           a == Ascending(S)
<1>1. b \in Nat /\ S \in SUBSET (0..b)
  OBVIOUS
<1>2. IsFiniteSet(S) /\ n \in Nat
  <2>1. IsFiniteSet(0..b)
    BY <1>1, FS_Interval
  <2> QED
    BY <1>1, <2>1, FS_Subset, FS_CardinalityType
<1>3. Lists(a, S)
  <2>1. \E s : Lists(s, S)
    BY <1>1, ListExists
  <2> QED
    BY <2>1 DEF Lists, Ascending
<1>4. a \in [1..n -> S] /\ \A i, j \in 1..n : i < j => a[i] < a[j]
  BY <1>3 DEF Lists
<1> HIDE DEF a
<1>5. a \in Seq(S) /\ Len(a) = n
  BY <1>2, <1>4
<1>6. ASSUME NEW x \in S, \A i \in 1..n : a[i] # x PROVE FALSE
  <2>1. a \in [1..n -> S \ {x}]
    BY <1>4, <1>6
  <2>2. IsFiniteSet(S \ {x}) /\ Cardinality(S \ {x}) = n - 1
    BY <1>2, FS_RemoveElement
  <2>3. IsFiniteSet(1..n) /\ Cardinality(1..n) = n
    BY <1>2, FS_Interval
  <2>4. PICK i, j \in 1..n : i # j /\ a[i] = a[j]
    <3>1. Cardinality(S \ {x}) < Cardinality(1..n)
      BY <1>2, <2>2, <2>3
    <3>2. ASSUME NEW A, NEW B, NEW f \in [A -> B], IsFiniteSet(A), IsFiniteSet(B),
                 Cardinality(B) < Cardinality(A)
          PROVE  \E i, j \in A : i # j /\ f[i] = f[j]
      BY <3>2, FS_PigeonHole, Zenon
    <3> QED
      BY <2>1, <2>2, <2>3, <3>1, <3>2
  <2>5. a[i] \in Nat /\ a[j] \in Nat /\ (i < j \/ j < i)
    <3>1. a[i] \in S /\ a[j] \in S /\ i \in Nat /\ j \in Nat
      BY <1>2, <1>4
    <3>2. a[i] \in Nat /\ a[j] \in Nat
      <4>1. \A y \in S : y \in Nat
        BY <1>1
      <4> QED
        BY <3>1, <4>1
    <3>3. i # j
      BY <2>4
    <3> QED
      BY <3>1, <3>2, <3>3
  <2> QED
    BY <1>4, <2>4, <2>5
<1> QED
  BY <1>4, <1>5, <1>6 DEF a

-----------------------------------------------------------------------------
(* The inductive invariant.                                                 *)

\* Entry i of the stream s is a put, and the last entry of the key k.
NewestPut(s, k, i) ==
    /\ i \in DOMAIN s /\ s[i].key = k /\ s[i].put
    /\ \A j \in DOMAIN s : j > i => s[j].key # k

\* The request holds the mutex of its folder.
Holds(o) == o.pc # "idle" /\ Locks(o.kind)

\* Where a request may be, and what it has read by then.
Stage(o, s) ==
    /\ o.pc = "expire" => o.kind # "list"
    /\ o.pc = "write" => Locks(o.kind)
    /\ o.pc = "mark" => o.kind = "delete"
    /\ o.pc \in {"snap", "sweep"} => o.kind = "list"
    /\ o.pc = "snap" /\ o.revision = 0 => o.result <= Len(s)
    /\ o.pc = "sweep" => o.revision = 0
    /\ o.kind # "list" /\ o.pc \in {"read", "expire", "write", "mark"} => o.result = 0
    /\ o.pc = "write" /\ o.kind # "create" => o.found # 0
    /\ o.pc = "write" /\ o.found # 0 =>
         /\ o.found \in DOMAIN s /\ s[o.found].key = o.key /\ s[o.found].put
         /\ o.kind = "create" => s[o.found].delete
         /\ o.kind # "create" => ~ s[o.found].delete
         /\ o.kind = "update" => o.revision = o.found
         /\ o.kind = "delete" => o.revision \in {0, o.found}

\* A list of the present has what was there at its revision, but for what has a
\* later entry or an expired lease.
Listing(o) == o.kind = "list" /\ o.revision = 0 /\ (o.pc = "sweep" \/ (o.pc = "answer" /\ o.answer = "yes"))

Covers(o, s, ov) ==
    Listing(o) =>
        /\ o.result <= Len(s)
        /\ \A i \in DOMAIN s :
             i <= o.result /\ s[i].put /\ ~ s[i].delete =>
                 i \in o.listed \/ i \in ov \/ \E j \in DOMAIN s : s[j].key = s[i].key /\ j > i

\* A request of a writer's kind is one of a writer, and no two of a process hold
\* the mutex of one folder.
WritersWrite == \A p \in Clients : Locks(op[p].kind) => p \in Writers

Exclusive ==
    \A p, q \in Clients :
        /\ p # q /\ Holds(op[p]) /\ Holds(op[q]) /\ NodeOf[p] = NodeOf[q]
        /\ FolderOf[op[p].key] = FolderOf[op[q].key]
        => FolderOf[op[p].key] = NoFolder

\* A watch has got, in order, events before those that it will yet pass on.
InOrder(r) ==
    /\ r.pc # "run" => r.got = <<>> /\ r.revision = r.from
    /\ r.from <= r.revision
    /\ \A i \in 1..Len(r.got) : r.got[i] > r.from
    /\ \A i, j \in 1..Len(r.got) : i < j => r.got[i] < r.got[j]
    /\ \A i \in 1..Len(r.got) : \A t \in r.todo : t > r.revision => r.got[i] < t

\* Entry i had been replaced when the list was read.
Replaced(r, s, i) == \E j \in DOMAIN s : s[j].key = s[i].key /\ i < j /\ j <= r.listedAt

\* What a watch will not get any more: until it has its list, what was replaced
\* when it started; then also what is not after the last event of the list.
Told(r, i) == \E k \in 1..Len(r.got) : r.got[k] = i

MissesReplaced(r, s) ==
    r.pc # "off" =>
        /\ r.revision <= Len(s)
        /\ \A i \in DOMAIN s :
             (s[i].put /\ i > r.from /\ (i \notin r.todo \/ i <= r.revision) /\ ~ Told(r, i))
               => Replaced(r, s, i)

\* The bucket and the watches; with the requests, the whole.
Base ==
    /\ stream \in Seq(Entries) /\ Len(stream) <= MaxSeq
    /\ over \subseteq DOMAIN stream
    /\ watch \in [Watchers -> Watches(Len(stream))]
    /\ \A w \in Watchers : InOrder(watch[w]) /\ MissesReplaced(watch[w], stream)

IndInv ==
    /\ Base
    /\ op \in [Clients -> Ops]
    /\ \A p \in Clients : Stage(op[p], stream) /\ Covers(op[p], stream, over)
    /\ WritersWrite
    /\ Exclusive

-----------------------------------------------------------------------------
(* One process.                                                             *)

\* All writers are of one process, and every key has a folder.
OneProcess ==
    /\ \A p, q \in Writers : NodeOf[p] = NodeOf[q]
    /\ \A k \in Keys : FolderOf[k] # NoFolder

\* Entry c is the newest creation of its key before entry i.
CreatedAt(s, i, c) ==
    /\ c \in DOMAIN s /\ c < i /\ s[c].key = s[i].key /\ s[c].create
    /\ \A j \in DOMAIN s : c < j /\ j < i /\ s[j].key = s[i].key => ~ s[j].create

\* The create revisions of a stream.
Chained(s) ==
    \A i \in DOMAIN s :
        /\ s[i].create => s[i].put /\ ~ s[i].delete /\ s[i].createRevision = 0
        /\ s[i].put /\ ~ s[i].delete /\ s[i].createRevision = 0 => s[i].create
        /\ s[i].createRevision # 0 => CreatedAt(s, i, s[i].createRevision)

\* No entry of a plain key has a lease.
Unleased(s) == \A i \in DOMAIN s : s[i].key \in Plain => ~ s[i].lease

\* What an earlier run of one process leaves.
SoundBucket == Chained(Bucket) /\ Unleased(Bucket)

\* No key is created between the read and the write of an update or delete.
NotCreated(o, s) ==
    o.pc = "write" /\ o.kind # "create" =>
        \A j \in DOMAIN s : j > o.found /\ s[j].key = o.key => ~ s[j].create

\* The plain key of a request that writes is as the request read it, and stays
\* deleted between the two writes of a delete.
AsRead(o, s) ==
    o.key \in Plain =>
        /\ ~ o.lease /\ o.pc # "expire"
        /\ o.pc = "write" => \A i \in Nat : NewestPut(s, o.key, i) => o.found = i
        /\ o.pc = "write" /\ o.found # 0 => NewestPut(s, o.key, o.found)
        /\ o.pc = "mark" => \A i \in Nat : NewestPut(s, o.key, i) => s[i].delete

OneOp(o, s) == NotCreated(o, s) /\ AsRead(o, s) /\ o.reap \cap Plain = {}

OneInv ==
    /\ Chained(stream) /\ Unleased(stream)
    /\ \A p \in Clients : OneOp(op[p], stream)
    /\ \A w \in Watchers : watch[w].reap \cap Plain = {}

-----------------------------------------------------------------------------
(* The bucket.                                                              *)

\* The numbers among the constants.
LEMMA Numbers ==
    /\ MaxSeq \in Nat /\ Revisions = 0..MaxSeq
    /\ \A i \in Revisions : i \in Nat /\ i <= MaxSeq
    /\ \A i \in Nat : i <= MaxSeq => i \in Revisions
BY NatsAssumption DEF Revisions

\* Newest returns the largest of a set, 0 if there is none.
LEMMA NewestIs ==
    ASSUME NEW b \in Nat, NEW S \in SUBSET (0..b)
    PROVE  /\ Newest(S) \in 0..b /\ Newest(S) \in S \cup {0}
           /\ \A y \in S : y <= Newest(S)
<1> DEFINE T == S \cup {0}
<1>1. T \in SUBSET Nat /\ T # {} /\ \A x \in T : x <= b
  OBVIOUS
<1> HIDE DEF T
<1>2. Max(T) \in T /\ \A y \in T : y <= Max(T)
  BY <1>1, MaxIs
<1>3. Newest(S) = Max(T)
  BY DEF Newest, T
<1>4. Max(T) \in S \cup {0} /\ \A y \in S : y <= Max(T)
  BY <1>2 DEF T
<1>5. Max(T) \in Nat /\ Max(T) <= b
  BY <1>1, <1>2
<1> QED
  BY <1>3, <1>4, <1>5

\* KvGet as a function of the stream.
GetOf(s, k) ==
    Newest({i \in {j \in DOMAIN s : s[j].key = k} :
              s[i].put /\ \A j \in (i + 1)..Len(s) : s[j].key # k})

\* It is the newest entry of the key if that is a put, and else 0.
GetSpec(s, k, g) ==
    /\ g \in 0..Len(s)
    /\ g # 0 => NewestPut(s, k, g)
    /\ \A i \in Nat : NewestPut(s, k, i) => i = g

\* kv.Get returns the newest entry of the key, if that is a put.
LEMMA GetOfIs == ASSUME NEW s \in Seq(Entries), NEW k PROVE GetSpec(s, k, GetOf(s, k))
<1> DEFINE S == {i \in {j \in DOMAIN s : s[j].key = k} :
                   s[i].put /\ \A j \in (i + 1)..Len(s) : s[j].key # k}
<1>1. DOMAIN s = 1..Len(s) /\ Len(s) \in Nat
  OBVIOUS
<1>2. \A i \in Nat : i \in S <=> NewestPut(s, k, i)
  <2> TAKE i \in Nat
  <2>1. i \in DOMAIN s => ((\A j \in (i + 1)..Len(s) : s[j].key # k)
                            <=> (\A j \in DOMAIN s : j > i => s[j].key # k))
    BY <1>1
  <2> QED
    BY <2>1 DEF NewestPut
<1>3. S \in SUBSET (0..Len(s)) /\ 0 \notin S
  BY <1>1
<1>4. GetOf(s, k) = Newest(S)
  BY DEF GetOf
<1> HIDE DEF S
<1> DEFINE g == GetOf(s, k)
<1>5. g \in 0..Len(s) /\ g \in S \cup {0} /\ \A y \in S : y <= g
  BY <1>1, <1>3, <1>4, NewestIs
<1> HIDE DEF g
<1>6. g # 0 => NewestPut(s, k, g)
  BY <1>1, <1>2, <1>5
<1>7. ASSUME NEW i \in Nat, NewestPut(s, k, i) PROVE i = g
  <2>1. i \in S /\ i # 0 /\ i <= g
    BY <1>2, <1>3, <1>5, <1>7
  <2>2. g # 0 /\ g \in DOMAIN s /\ s[g].key = k /\ g \in Nat
    BY <1>1, <1>5, <1>6, <2>1 DEF NewestPut
  <2>3. ~ (g > i)
    BY <1>7, <2>2 DEF NewestPut
  <2> QED
    BY <2>1, <2>2, <2>3
<1> QED
  BY <1>5, <1>6, <1>7 DEF g, GetSpec

\* The same of the stream as it is.
LEMMA KvGetIs == ASSUME stream \in Seq(Entries), NEW k PROVE GetSpec(stream, k, KvGet(k))
<1>1. KvGet(k) = GetOf(stream, k)
  BY DEF KvGet, GetOf, Of
<1> QED
  BY <1>1, GetOfIs

\* The keys that are there.
LEMMA LastPerKeyIs ==
    ASSUME stream \in Seq(Entries), NEW i \in Nat
    PROVE  i \in LastPerKey <=> \E k \in Keys : NewestPut(stream, k, i)
<1>1. \A k : GetSpec(stream, k, KvGet(k))
  BY KvGetIs
<1>2. ASSUME i \in LastPerKey PROVE \E k \in Keys : NewestPut(stream, k, i)
  BY <1>1, <1>2 DEF LastPerKey, GetSpec
<1>3. ASSUME NEW k \in Keys, NewestPut(stream, k, i) PROVE i \in LastPerKey
  <2>1. i = KvGet(k) /\ i # 0
    <3>1. i \in DOMAIN stream
      BY <1>3 DEF NewestPut
    <3> QED
      BY <1>1, <1>3, <3>1 DEF GetSpec
  <2> QED
    BY <2>1 DEF LastPerKey
<1> QED
  BY <1>2, <1>3

\* t is the stream s and an entry e behind it.
Grown(s, t, e) ==
    /\ t \in Seq(Entries) /\ Len(t) = Len(s) + 1 /\ Len(s) \in Nat
    /\ DOMAIN s = 1..Len(s) /\ DOMAIN t = 1..(Len(s) + 1)
    /\ t[Len(s) + 1] = e
    /\ \A i \in DOMAIN s : t[i] = s[i]

\* An entry that is appended is behind the others.
LEMMA AppendGrows ==
    ASSUME NEW s \in Seq(Entries), NEW e \in Entries
    PROVE  Grown(s, Append(s, e), e)
BY DEF Grown

\* What a request has read stays so as the stream grows.
LEMMA StageStays ==
    ASSUME NEW s \in Seq(Entries), NEW t, NEW e \in Entries, Grown(s, t, e), NEW o \in Ops, Stage(o, s)
    PROVE  Stage(o, t)
<1>1. o.result \in Nat
  BY Numbers DEF Ops
<1>2. \A i \in DOMAIN s : i \in DOMAIN t /\ t[i] = s[i]
  BY DEF Grown
<1>3. Len(s) \in Nat /\ Len(t) = Len(s) + 1
  BY DEF Grown
<1>4. o.pc = "write" /\ o.found # 0 =>
         /\ o.found \in DOMAIN t /\ t[o.found].key = o.key /\ t[o.found].put
         /\ o.kind = "create" => t[o.found].delete
         /\ o.kind # "create" => ~ t[o.found].delete
         /\ o.kind = "update" => o.revision = o.found
         /\ o.kind = "delete" => o.revision \in {0, o.found}
  BY <1>2 DEF Stage
<1>5. o.pc = "snap" /\ o.revision = 0 => o.result <= Len(t)
  BY <1>1, <1>3 DEF Stage
<1> QED
  BY <1>4, <1>5 DEF Stage

\* So does what a list covers: a later entry is after its revision.
LEMMA CoversStays ==
    ASSUME NEW s \in Seq(Entries), NEW t, NEW e \in Entries, Grown(s, t, e), NEW o \in Ops,
           NEW ov, Covers(o, s, ov)
    PROVE  Covers(o, t, ov)
<1> SUFFICES ASSUME Listing(o)
             PROVE  /\ o.result <= Len(t)
                    /\ \A i \in DOMAIN t :
                         i <= o.result /\ t[i].put /\ ~ t[i].delete =>
                             i \in o.listed \/ i \in ov \/ \E j \in DOMAIN t : t[j].key = t[i].key /\ j > i
  BY DEF Covers
<1>1. o.result \in Nat /\ Len(s) \in Nat /\ Len(t) = Len(s) + 1 /\ o.result <= Len(s)
  BY Numbers DEF Ops, Covers, Grown
<1>2. ASSUME NEW i \in DOMAIN t, i <= o.result, t[i].put, ~ t[i].delete
      PROVE  i \in o.listed \/ i \in ov \/ \E j \in DOMAIN t : t[j].key = t[i].key /\ j > i
  <2>1. i \in DOMAIN s /\ t[i] = s[i]
    BY <1>1, <1>2 DEF Grown
  <2>2. i \in o.listed \/ i \in ov \/ \E j \in DOMAIN s : s[j].key = s[i].key /\ j > i
    BY <1>2, <2>1 DEF Covers
  <2>3. \A j \in DOMAIN s : j \in DOMAIN t /\ t[j] = s[j]
    BY DEF Grown
  <2> QED
    BY <2>1, <2>2, <2>3
<1> QED
  BY <1>1, <1>2

\* A watch with the event of a new entry before it.
Notified(r, n, e) == IF r.pc # "off" /\ e.put THEN [r EXCEPT !.todo = @ \cup {n + 1}] ELSE r

\* A watch that is sent the new entry has its events in order, and misses only
\* what was replaced.
LEMMA NotifiedStays ==
    ASSUME NEW s \in Seq(Entries), NEW t, NEW e \in Entries, Grown(s, t, e),
           NEW r \in Watches(Len(s)), InOrder(r), MissesReplaced(r, s),
           NEW q, q = Notified(r, Len(s), e)
    PROVE  q \in Watches(Len(t)) /\ InOrder(q) /\ MissesReplaced(q, t)
<1> DEFINE n == Len(s)
<1>1. n \in Nat /\ Len(t) = n + 1 /\ DOMAIN s = 1..n /\ DOMAIN t = 1..(n + 1)
  BY DEF Grown
<1>2. /\ q.pc = r.pc /\ q.from = r.from /\ q.revision = r.revision /\ q.listedAt = r.listedAt
      /\ q.got = r.got /\ q.reap = r.reap
      /\ q.todo = r.todo \/ q.todo = r.todo \cup {n + 1}
      /\ q.pc # "off" /\ e.put => n + 1 \in q.todo
  BY DEF Notified, Watches
<1>3. /\ r.got \in Seq(1..n) /\ r.todo \in SUBSET (1..n)
      /\ r.revision \in Nat /\ r.from \in Nat /\ r.listedAt \in Nat
  BY Numbers DEF Watches
<1>4. q \in Watches(n + 1)
  <2>1. r.got \in Seq(1..(n + 1))
    <3>1. 1..n \subseteq 1..(n + 1)
      BY <1>1
    <3> QED
      BY <1>3, <3>1
  <2>2. r.todo \in SUBSET (1..(n + 1)) /\ r.todo \cup {n + 1} \in SUBSET (1..(n + 1))
    BY <1>1, <1>3
  <2> QED
    BY <2>1, <2>2 DEF Notified, Watches
<1>5. InOrder(q)
  <2>1. \A i \in 1..Len(r.got) : r.got[i] \in 1..n
    BY <1>3
  <2>2. ASSUME NEW i \in 1..Len(q.got), NEW x \in q.todo, x > q.revision
        PROVE  q.got[i] < x
    <3>1. CASE x \in r.todo
      BY <1>2, <2>2, <3>1 DEF InOrder
    <3>2. CASE x = n + 1
      BY <1>1, <1>2, <2>1, <3>2
    <3> QED
      BY <1>2, <3>1, <3>2
  <2> QED
    BY <1>2, <2>2 DEF InOrder
<1>6. MissesReplaced(q, t)
  <2> SUFFICES ASSUME q.pc # "off"
               PROVE  /\ q.revision <= Len(t)
                      /\ \A i \in DOMAIN t :
                           (t[i].put /\ i > q.from /\ (i \notin q.todo \/ i <= q.revision) /\ ~ Told(q, i))
                             => Replaced(q, t, i)
    BY DEF MissesReplaced
  <2>1. r.revision <= n
    BY <1>2 DEF MissesReplaced
  <2>2. ASSUME NEW i \in DOMAIN t, t[i].put, i > q.from, i \notin q.todo \/ i <= q.revision, ~ Told(q, i)
        PROVE  Replaced(q, t, i)
    <3>1. i # n + 1
      <4>1. t[n + 1] = e
        BY DEF Grown
      <4> QED
        BY <1>1, <1>2, <1>3, <2>1, <2>2, <4>1
    <3>2. i \in DOMAIN s /\ t[i] = s[i]
      BY <1>1, <3>1 DEF Grown
    <3>3. ~ Told(r, i)
      BY <1>2, <2>2 DEF Told
    <3>4. Replaced(r, s, i)
      BY <1>2, <2>2, <3>2, <3>3 DEF MissesReplaced
    <3>5. \A j \in DOMAIN s : j \in DOMAIN t /\ t[j] = s[j]
      BY DEF Grown
    <3> QED
      BY <1>2, <3>2, <3>4, <3>5 DEF Replaced
  <2> QED
    BY <1>1, <1>2, <1>3, <2>1, <2>2
<1> QED
  BY <1>1, <1>4, <1>5, <1>6

\* What the stream holds.
LEMMA EntryIs ==
    ASSUME Base
    PROVE  /\ DOMAIN stream = 1..Len(stream) /\ Len(stream) \in Nat /\ Len(stream) <= MaxSeq
           /\ \A i \in DOMAIN stream : stream[i] \in Entries /\ stream[i].key \in Keys
<1>1. stream \in Seq(Entries)
  BY DEF Base
<1>2. \A i \in DOMAIN stream : stream[i] \in Entries
  BY <1>1
<1>3. \A e \in Entries : e.key \in Keys
  BY DEF Entries
<1> QED
  BY <1>1, <1>2, <1>3 DEF Base

\* What every request carries over a step.
Carries ==
    \A o \in Ops : /\ Stage(o, stream) => Stage(o, stream')
                   /\ Covers(o, stream, over) => Covers(o, stream', over')

\* A marker is an entry.
LEMMA MarkerIs == ASSUME NEW k \in Keys PROVE Marker(k) \in Entries /\ ~ Marker(k).put
BY Numbers DEF Marker, Entries

\* A write keeps the watches and the requests right, whether it is stored or not.
LEMMA StoreKeeps ==
    ASSUME Base, NEW e \in Entries, Store(e)
    PROVE  Base' /\ Carries /\ Len(stream) < MaxSeq /\ Grown(stream, stream', e)
<1>1. stream \in Seq(Entries) /\ stream' = Append(stream, e) /\ Len(stream) < MaxSeq /\ over' = over
  BY DEF Store, Base
<1>2. Grown(stream, stream', e)
  BY <1>1, AppendGrows
<1>3. stream' \in Seq(Entries) /\ Len(stream') <= MaxSeq /\ over' \subseteq DOMAIN stream'
  BY <1>1, <1>2, Numbers DEF Grown, Base
<1>4. watch' = [w \in Watchers |-> Notified(watch[w], Len(stream), e)]
  BY DEF Store, Notified
<1>5. ASSUME NEW w \in Watchers
      PROVE  /\ watch'[w] \in Watches(Len(stream'))
             /\ InOrder(watch'[w]) /\ MissesReplaced(watch'[w], stream')
  <2>1. watch'[w] = Notified(watch[w], Len(stream), e)
    BY <1>4
  <2>2. watch[w] \in Watches(Len(stream)) /\ InOrder(watch[w]) /\ MissesReplaced(watch[w], stream)
    BY DEF Base
  <2> QED
    BY <1>1, <1>2, <2>1, <2>2, NotifiedStays
<1>6. Base'
  BY <1>3, <1>4, <1>5 DEF Base
<1>7. Carries
  BY <1>1, <1>2, StageStays, CoversStays DEF Carries
<1> QED
  BY <1>1, <1>2, <1>6, <1>7

\* A write that is not stored changes nothing.
LEMMA NotStoredKeeps == ASSUME Base, NotStored PROVE Base' /\ Carries
BY DEF Base, NotStored, Carries

\* One request moves on: it takes no lock, and keeps its key as long as it has
\* one.
LEMMA OpMoves ==
    ASSUME IndInv, Base', Carries, NEW p \in Clients, NEW o \in Ops,
           op' = [op EXCEPT ![p] = o], Stage(o, stream), Covers(o, stream, over),
           Locks(o.kind) => Locks(op[p].kind),
           Holds(o) => Holds(op[p]) /\ o.key = op[p].key
    PROVE  IndInv'
<1>1. op \in [Clients -> Ops]
  BY DEF IndInv
<1>2. op' \in [Clients -> Ops] /\ \A q \in Clients : op'[q] = IF q = p THEN o ELSE op[q]
  BY <1>1
<1>3. ASSUME NEW q \in Clients PROVE Stage(op'[q], stream') /\ Covers(op'[q], stream', over')
  <2>1. op'[q] \in Ops /\ Stage(op'[q], stream) /\ Covers(op'[q], stream, over)
    BY <1>1, <1>2 DEF IndInv
  <2> QED
    BY <2>1 DEF Carries
<1>4. WritersWrite'
  BY <1>2 DEF IndInv, WritersWrite
<1>5. ASSUME NEW q \in Clients, NEW r \in Clients, q # r, Holds(op'[q]), Holds(op'[r]),
             NodeOf[q] = NodeOf[r], FolderOf[op'[q].key] = FolderOf[op'[r].key]
      PROVE  FolderOf[op'[q].key] = NoFolder
  <2>1. Holds(op[q]) /\ op[q].key = op'[q].key /\ Holds(op[r]) /\ op[r].key = op'[r].key
    BY <1>2, <1>5
  <2>2. Exclusive
    BY DEF IndInv
  <2> QED
    BY <1>5, <2>1, <2>2 DEF Exclusive
<1>6. Exclusive'
  BY <1>5 DEF Exclusive
<1> QED
  BY <1>2, <1>3, <1>4, <1>6 DEF IndInv

\* One watch moves on.
LEMMA WatchMoves ==
    ASSUME IndInv, NEW w \in Watchers, NEW r \in Watches(Len(stream)),
           watch' = [watch EXCEPT ![w] = r], InOrder(r), MissesReplaced(r, stream),
           UNCHANGED <<stream, over, op>>
    PROVE  IndInv'
<1>1. watch \in [Watchers -> Watches(Len(stream))]
  BY DEF IndInv, Base
<1>2. /\ watch' \in [Watchers -> Watches(Len(stream))]
      /\ \A v \in Watchers : watch'[v] = IF v = w THEN r ELSE watch[v]
  BY <1>1
<1>3. Base'
  BY <1>2 DEF IndInv, Base
<1> QED
  BY <1>3 DEF IndInv, WritersWrite, Exclusive

-----------------------------------------------------------------------------
(* Requests.                                                                *)

\* A request that is over, or that holds nothing.
LEMMA IdleIs ==
    /\ Idle \in Ops /\ Idle.pc = "idle" /\ Idle.kind = "get" /\ Idle.reap = {}
    /\ \A s, ov : Stage(Idle, s) /\ Covers(Idle, s, ov)
    /\ ~ Holds(Idle) /\ ~ Locks(Idle.kind)
<1>1. (CHOOSE k \in Keys : TRUE) \in Keys
  BY NatsAssumption
<1>2. Idle \in Ops /\ Idle.pc = "idle" /\ Idle.kind = "get" /\ Idle.found = 0 /\ Idle.reap = {}
  BY <1>1, Numbers DEF Idle, Ops
<1> QED
  BY <1>2 DEF Stage, Covers, Listing, Holds, Locks

\* The answer a of a request o.
Answered(o, a, q) ==
    /\ q \in Ops /\ q.pc = "answer" /\ q.answer = a
    /\ q.kind = o.kind /\ q.key = o.key /\ q.listed = o.listed /\ q.reap = o.reap
    /\ ~ q.lease /\ (~ Locks(o.kind) => q.revision = o.revision)

\* Answer gives a request its answer, and keeps its kind and key.
LEMMA AnswerIs ==
    ASSUME NEW o \in Ops, NEW a \in {"yes", "no", "error"}, NEW r \in Revisions
    PROVE  Answered(o, a, Answer(o, a, r)) /\ Answer(o, a, r).result = r
<1>1. 0 \in Revisions
  BY Numbers
<1> QED
  BY <1>1 DEF Answer, Ops, Answered

\* An answer but for that of a list covers nothing.
LEMMA AnswerStage ==
    ASSUME NEW o, NEW a, NEW q, Answered(o, a, q)
    PROVE  /\ \A s : Stage(q, s)
           /\ o.kind # "list" \/ a # "yes" => \A s, ov : Covers(q, s, ov)
BY DEF Answered, Stage, Covers, Listing

\* A request that will write.
LEMMA WritesIs ==
    ASSUME NEW o \in Ops, NEW i \in Revisions
    PROVE  /\ Writes(o, i) \in Ops /\ Writes(o, i).pc = "write" /\ Writes(o, i).found = i
           /\ Writes(o, i).kind = o.kind /\ Writes(o, i).key = o.key
           /\ Writes(o, i).revision = o.revision /\ Writes(o, i).lease = o.lease
           /\ Writes(o, i).result = o.result /\ Writes(o, i).reap = o.reap
BY DEF Writes, Ops

\* The entry i that a method is given by get.
Given(o, i) ==
    /\ i \in 0..Len(stream)
    /\ i # 0 => /\ stream[i].key = o.key /\ stream[i].put
                /\ o.kind \in {"update", "get"} => ~ stream[i].delete

\* What follows the read: the answer, or the write.
Decided(o, q) ==
    /\ q \in Ops /\ q.kind = o.kind /\ q.key = o.key /\ q.reap = o.reap
    /\ q.pc \in {"answer", "write"} /\ Stage(q, stream) /\ Covers(q, stream, over)

\* Whatever get returned, the request answers, or will write on that entry.
LEMMA DecideIs ==
    ASSUME Base, NEW o \in Ops, o.kind # "list", o.result = 0, NEW i, Given(o, i)
    PROVE  Decided(o, Decide(o, i))
<1>1. 0 \in Revisions /\ i \in Revisions /\ i \in Nat
  BY Numbers DEF Base, Given
<1>2. o.kind \in {"create", "update", "delete", "get"}
  BY DEF Ops
<1>3. ASSUME NEW a \in {"yes", "no"}, NEW r \in Revisions
      PROVE  Decided(o, Answer(o, a, r))
  <2>1. Answered(o, a, Answer(o, a, r))
    BY <1>3, AnswerIs
  <2>2. Stage(Answer(o, a, r), stream) /\ Covers(Answer(o, a, r), stream, over)
    BY <2>1, AnswerStage
  <2> QED
    BY <2>1, <2>2 DEF Decided, Answered
<1>4. ASSUME o.kind # "get", o.kind # "create" => i # 0,
             i # 0 /\ o.kind = "create" => stream[i].delete,
             i # 0 /\ o.kind # "create" => ~ stream[i].delete,
             o.kind = "update" => o.revision = i, o.kind = "delete" => o.revision \in {0, i}
      PROVE  Decided(o, Writes(o, i))
  <2> DEFINE q == Writes(o, i)
  <2>1. /\ q \in Ops /\ q.pc = "write" /\ q.found = i /\ q.kind = o.kind /\ q.key = o.key
        /\ q.result = o.result /\ q.reap = o.reap /\ q.revision = o.revision
    BY <1>1, WritesIs
  <2> HIDE DEF q
  <2>2. i # 0 => i \in DOMAIN stream
    BY DEF Given, Base
  <2>3. Stage(q, stream)
    BY <1>2, <1>4, <2>1, <2>2 DEF Stage, Given, Locks
  <2>4. Covers(q, stream, over)
    BY <2>1 DEF Covers, Listing
  <2> QED
    BY <2>1, <2>3, <2>4 DEF Decided, q
<1>5. CASE o.kind = "create"
  <2>1. Decide(o, i) = DecideCreate(o, i)
    BY <1>5 DEF Decide
  <2> QED
    BY <1>1, <1>3, <1>4, <1>5, <2>1 DEF DecideCreate
<1>6. CASE o.kind = "update"
  <2>1. Decide(o, i) = DecideUpdate(o, i)
    BY <1>6 DEF Decide
  <2> QED
    BY <1>1, <1>3, <1>4, <1>6, <2>1 DEF DecideUpdate, Given
<1>7. CASE o.kind = "delete"
  <2>1. Decide(o, i) = DecideDelete(o, i)
    BY <1>7 DEF Decide
  <2> QED
    BY <1>1, <1>3, <1>4, <1>7, <2>1 DEF DecideDelete
<1>8. CASE o.kind = "get"
  <2>1. Decide(o, i) = Answer(o, "yes", i)
    BY <1>8 DEF Decide
  <2> QED
    BY <1>1, <1>3, <2>1
<1> QED
  BY <1>2, <1>5, <1>6, <1>7, <1>8

\* An entry of the past is one that the bucket has.
LEMMA KvGetRevisionIs ==
    ASSUME Base, NEW k, NEW r
    PROVE  LET i == KvGetRevision(k, r) IN
           i \in 0..Len(stream) /\ (i # 0 => stream[i].key = k /\ stream[i].put)
BY DEF KvGetRevision, Kept, Of, Put, Base

\* The entry get looks at, and whether it may be shown.
Looked(o) == IF o.kind = "get" /\ o.revision > 0 THEN KvGetRevision(o.key, o.revision) ELSE KvGet(o.key)

Shown(o, i) == i # 0 /\ (o.kind \in {"create", "delete"} \/ ~ stream[i].delete)

\* get looks at an entry of the key, and passes on one that the method may see.
LEMMA LookedIs ==
    ASSUME Base, NEW o \in Ops
    PROVE  /\ Looked(o) \in 0..Len(stream)
           /\ Looked(o) # 0 => stream[Looked(o)].key = o.key /\ stream[Looked(o)].put
           /\ Given(o, IF Shown(o, Looked(o)) THEN Looked(o) ELSE 0)
<1>1. GetSpec(stream, o.key, KvGet(o.key))
  BY KvGetIs DEF Base
<1>2. /\ KvGet(o.key) \in 0..Len(stream)
      /\ KvGet(o.key) # 0 => stream[KvGet(o.key)].key = o.key /\ stream[KvGet(o.key)].put
  BY <1>1 DEF GetSpec, NewestPut
<1>3. LET i == KvGetRevision(o.key, o.revision) IN
      i \in 0..Len(stream) /\ (i # 0 => stream[i].key = o.key /\ stream[i].put)
  BY KvGetRevisionIs
<1>4. /\ Looked(o) \in 0..Len(stream)
      /\ Looked(o) # 0 => stream[Looked(o)].key = o.key /\ stream[Looked(o)].put
  BY <1>2, <1>3 DEF Looked
<1>5. 0 \in 0..Len(stream)
  BY DEF Base
<1>6. Given(o, IF Shown(o, Looked(o)) THEN Looked(o) ELSE 0)
  BY <1>4, <1>5 DEF Given, Shown
<1> QED
  BY <1>4, <1>6

\* The read of a request.
LEMMA GetKeeps == ASSUME IndInv, NEW p \in Clients, get(p) PROVE IndInv'
<1> DEFINE o == op[p]
           i == IF Shown(o, Looked(o)) THEN Looked(o) ELSE 0
           q == IF Shown(o, Looked(o)) /\ Expired(Looked(o)) THEN [o EXCEPT !.pc = "expire"]
                ELSE Decide(o, i)
<1>1. /\ o \in Ops /\ o.pc = "read" /\ o.kind # "list" /\ Base
      /\ op' = [op EXCEPT ![p] = q] /\ NotStored
  BY DEF IndInv, get, Looked, Shown, NotStored
<1>2. o.result = 0
  BY <1>1 DEF IndInv, Stage
<1>3. Base' /\ Carries
  BY <1>1, NotStoredKeeps
<1>4. Decided(o, Decide(o, i))
  BY <1>1, <1>2, LookedIs, DecideIs
<1>5. /\ [o EXCEPT !.pc = "expire"] \in Ops /\ [o EXCEPT !.pc = "expire"].kind = o.kind
      /\ [o EXCEPT !.pc = "expire"].key = o.key
      /\ Stage([o EXCEPT !.pc = "expire"], stream) /\ Covers([o EXCEPT !.pc = "expire"], stream, over)
  BY <1>1, <1>2 DEF Ops, Stage, Covers, Listing
<1>6. q \in Ops /\ q.kind = o.kind /\ q.key = o.key /\ Stage(q, stream) /\ Covers(q, stream, over)
  BY <1>4, <1>5 DEF Decided
<1>7. Holds(q) => Holds(o)
  BY <1>1, <1>6 DEF Holds
<1> HIDE DEF q
<1> QED
  BY <1>1, <1>3, <1>6, <1>7, OpMoves

\* A reader removes the key.
LEMMA IsKeyExpiredKeeps == ASSUME IndInv, NEW p \in Clients, isKeyExpired(p) PROVE IndInv'
<1> DEFINE o == op[p]
           q == Decide(o, 0)
<1>1. /\ o \in Ops /\ o.pc = "expire" /\ Base /\ op' = [op EXCEPT ![p] = q]
      /\ Store(Marker(o.key)) \/ NotStored
  BY DEF IndInv, isKeyExpired
<1>2. o.result = 0 /\ o.kind # "list" /\ o.key \in Keys
  BY <1>1 DEF IndInv, Stage, Ops
<1>3. Base' /\ Carries
  BY <1>1, <1>2, NotStoredKeeps, StoreKeeps, MarkerIs
<1>4. Given(o, 0)
  BY <1>1 DEF Given, Base
<1>5. Decided(o, q)
  BY <1>1, <1>2, <1>4, DecideIs
<1>6. q \in Ops /\ q.kind = o.kind /\ q.key = o.key /\ Stage(q, stream) /\ Covers(q, stream, over)
  BY <1>5 DEF Decided
<1>7. Holds(q) => Holds(o)
  BY <1>1, <1>6 DEF Holds
<1> HIDE DEF q
<1> QED
  BY <1>1, <1>3, <1>6, <1>7, OpMoves

\* What is written is an entry of the key.
LEMMA ValueIs ==
    ASSUME Base, NEW o \in Ops, o.pc = "write", Stage(o, stream)
    PROVE  /\ Value(o) \in Entries /\ Value(o).key = o.key /\ Value(o).put
           /\ Value(o).create <=> o.kind = "create"
           /\ Value(o).delete <=> o.kind = "delete"
           /\ Value(o).createRevision = CreateRevision(o)
           /\ Value(o).lease = IF o.kind = "delete" THEN stream[o.found].lease ELSE o.lease
<1>1. o.kind # "create" => o.found \in DOMAIN stream
  BY DEF Stage
<1>2. \A i \in DOMAIN stream : stream[i] \in Entries
  BY DEF Base
<1>3. CreateRevision(o) \in Revisions
  BY <1>1, <1>2, Numbers DEF CreateRevision, Ops, Entries
<1>4. (IF o.kind = "delete" THEN stream[o.found].lease ELSE o.lease) \in BOOLEAN
  BY <1>1, <1>2 DEF Ops, Entries
<1>5. o.key \in Keys /\ o.found \in Revisions
  BY DEF Ops
<1> HIDE DEF CreateRevision
<1> QED
  BY <1>3, <1>4, <1>5 DEF Value, Entries

\* The write of Create, Update or Delete keeps the invariant.
LEMMA WriteKeeps == ASSUME IndInv, NEW p \in Clients, write(p) PROVE IndInv'
<1> DEFINE o == op[p]
           q == IF o.kind = "delete" THEN [o EXCEPT !.pc = "mark"] ELSE Answer(o, "yes", Len(stream) + 1)
<1>1. /\ o \in Ops /\ o.pc = "write" /\ Base /\ Stage(o, stream) /\ op' = [op EXCEPT ![p] = q]
      /\ Store(Value(o))
  BY DEF IndInv, write
<1>2. o.result = 0 /\ o.kind # "list" /\ Holds(o)
  BY <1>1 DEF Stage, Locks, Holds
<1>3. Base' /\ Carries /\ Len(stream) < MaxSeq
  BY <1>1, ValueIs, StoreKeeps
<1>4. Len(stream) + 1 \in Revisions
  BY <1>1, <1>3, Numbers DEF Base
<1>5. CASE o.kind = "delete"
  <2>1. q = [o EXCEPT !.pc = "mark"]
    BY <1>5
  <2>2. q \in Ops /\ q.kind = o.kind /\ q.key = o.key /\ Stage(q, stream) /\ Covers(q, stream, over)
    BY <1>1, <1>2, <1>5, <2>1 DEF Ops, Stage, Covers, Listing
  <2> HIDE DEF q
  <2> QED
    BY <1>1, <1>2, <1>3, <2>2, OpMoves
<1>6. CASE o.kind # "delete"
  <2>1. q = Answer(o, "yes", Len(stream) + 1)
    BY <1>6
  <2> HIDE DEF q
  <2>2. Answered(o, "yes", q)
    BY <1>1, <1>4, <2>1, AnswerIs
  <2>3. Stage(q, stream) /\ Covers(q, stream, over)
    BY <1>2, <2>2, AnswerStage
  <2>4. q \in Ops /\ q.kind = o.kind /\ q.key = o.key
    BY <2>2 DEF Answered
  <2> QED
    BY <1>1, <1>2, <1>3, <2>3, <2>4, OpMoves
<1> QED
  BY <1>5, <1>6

\* A request ends in an answer that is not a list's.
LEMMA AnswerMoves ==
    ASSUME IndInv, Base', Carries, NEW p \in Clients, NEW a \in {"yes", "no", "error"},
           NEW r \in Revisions, op' = [op EXCEPT ![p] = Answer(op[p], a, r)],
           op[p].kind # "list" \/ a # "yes", op[p].pc # "idle"
    PROVE  IndInv'
<1> DEFINE o == op[p]
           q == Answer(o, a, r)
<1>1. o \in Ops
  BY DEF IndInv
<1>2. Answered(o, a, q)
  BY <1>1, AnswerIs
<1>3. Stage(q, stream) /\ Covers(q, stream, over)
  BY <1>2, AnswerStage
<1>4. q \in Ops /\ q.kind = o.kind /\ q.key = o.key
  BY <1>2 DEF Answered
<1>5. Holds(q) => Holds(o)
  BY <1>4 DEF Holds
<1> HIDE DEF q
<1> QED
  BY <1>3, <1>4, <1>5, OpMoves DEF q

\* A write that fails, stored or not, keeps it.
LEMMA WriteFailsKeeps == ASSUME IndInv, NEW p \in Clients, writeFails(p) PROVE IndInv'
<1> DEFINE o == op[p]
           a == IF o.kind = "delete" THEN "no" ELSE "error"
<1>1. /\ o \in Ops /\ o.pc = "write" /\ Base /\ Stage(o, stream)
      /\ op' = [op EXCEPT ![p] = Answer(o, a, 0)]
      /\ NotStored \/ Store(Value(o))
  BY DEF IndInv, writeFails
<1>2. Base' /\ Carries
  BY <1>1, ValueIs, StoreKeeps, NotStoredKeeps
<1>3. a \in {"yes", "no", "error"} /\ a # "yes" /\ 0 \in Revisions
  BY Numbers
<1> HIDE DEF a
<1> QED
  BY <1>1, <1>2, <1>3, AnswerMoves

\* The second write of Delete, stored or not, keeps it.
LEMMA MarkKeeps == ASSUME IndInv, NEW p \in Clients, mark(p) PROVE IndInv'
<1> DEFINE o == op[p]
<1>1. /\ o \in Ops /\ o.pc = "mark" /\ Base /\ o.kind = "delete" /\ o.key \in Keys
      /\ Store(Marker(o.key)) \/ NotStored
  BY DEF IndInv, mark, Stage, Ops
<1>2. PICK a \in {"yes", "no"} : op' = [op EXCEPT ![p] = Answer(o, a, 0)]
  BY DEF mark
<1>3. Base' /\ Carries
  BY <1>1, MarkerIs, StoreKeeps, NotStoredKeeps
<1>4. a \in {"yes", "no", "error"} /\ 0 \in Revisions
  BY <1>2, Numbers
<1> QED
  BY <1>1, <1>2, <1>3, <1>4, AnswerMoves

\* A request is over.
LEMMA IdleMoves ==
    ASSUME IndInv, NEW p \in Clients, op' = [op EXCEPT ![p] = Idle], UNCHANGED <<stream, over, watch>>
    PROVE  IndInv'
<1>1. NotStored /\ Base
  BY DEF NotStored, IndInv
<1>2. Base' /\ Carries
  BY <1>1, NotStoredKeeps
<1> QED
  BY <1>2, IdleIs, OpMoves

\* A read that fails keeps the invariant.
LEMMA FailsKeeps == ASSUME IndInv, NEW p \in Clients, Fails(p) PROVE IndInv'
BY IdleMoves DEF Fails

\* An answer that is returned keeps the invariant.
LEMMA ReturnKeeps == ASSUME IndInv, NEW p \in Clients, Return(p) PROVE IndInv'
BY IdleMoves DEF Return

\* A request takes the lock of its folder, if that is free in its process.
LEMMA CallKeeps ==
    ASSUME IndInv, NEW p \in Clients, NEW kind \in {"create", "update", "delete", "get", "list"},
           NEW k \in Keys, NEW r \in Revisions, NEW lease \in BOOLEAN,
           Call(p, kind, k, r, lease), Locks(kind) => p \in Writers
    PROVE  IndInv'
<1> DEFINE o == [Idle EXCEPT !.pc = "read", !.kind = kind, !.key = k, !.revision = r, !.lease = lease]
<1>1. /\ op' = [op EXCEPT ![p] = o] /\ NotStored /\ Base /\ op \in [Clients -> Ops]
      /\ Locks(kind) => lockFolder(p, k)
  BY DEF Call, NotStored, IndInv
<1>2. /\ o \in Ops /\ o.pc = "read" /\ o.kind = kind /\ o.key = k /\ o.result = 0
      /\ o.revision = r /\ o.lease = lease
  BY IdleIs, Numbers DEF Ops, Idle
<1>3. Stage(o, stream) /\ Covers(o, stream, over)
  BY <1>2 DEF Stage, Covers, Listing
<1> HIDE DEF o
<1>4. op' \in [Clients -> Ops] /\ \A q \in Clients : op'[q] = IF q = p THEN o ELSE op[q]
  BY <1>1, <1>2
<1>5. Base' /\ Carries
  BY <1>1, NotStoredKeeps
<1>6. ASSUME NEW q \in Clients PROVE Stage(op'[q], stream') /\ Covers(op'[q], stream', over')
  <2>1. op'[q] \in Ops /\ Stage(op'[q], stream) /\ Covers(op'[q], stream, over)
    BY <1>3, <1>4 DEF IndInv
  <2> QED
    BY <1>5, <2>1 DEF Carries
<1>7. WritersWrite'
  BY <1>2, <1>4 DEF IndInv, WritersWrite
<1>8. ASSUME NEW q \in Clients, q # p, Holds(op[q]), Locks(kind), NodeOf[q] = NodeOf[p],
             FolderOf[op[q].key] = FolderOf[k]
      PROVE  FolderOf[k] = NoFolder
  <2>1. op[q] # Idle /\ Locks(op[q].kind)
    BY <1>8, IdleIs DEF Holds
  <2> QED
    BY <1>1, <1>8, <2>1 DEF lockFolder
<1>9. ASSUME NEW q \in Clients, NEW u \in Clients, q # u, Holds(op'[q]), Holds(op'[u]),
             NodeOf[q] = NodeOf[u], FolderOf[op'[q].key] = FolderOf[op'[u].key]
      PROVE  FolderOf[op'[q].key] = NoFolder
  <2>1. CASE q = p
    <3>1. op'[q] = o /\ op'[u] = op[u]
      BY <1>4, <1>9, <2>1
    <3>2. Locks(kind)
      BY <1>2, <1>9, <3>1 DEF Holds
    <3> QED
      BY <1>2, <1>8, <1>9, <2>1, <3>1, <3>2
  <2>2. CASE u = p
    <3>1. op'[u] = o /\ op'[q] = op[q]
      BY <1>4, <1>9, <2>2
    <3>2. Locks(kind)
      BY <1>2, <1>9, <3>1 DEF Holds
    <3> QED
      BY <1>2, <1>8, <1>9, <2>2, <3>1, <3>2
  <2>3. CASE q # p /\ u # p
    BY <1>4, <1>9, <2>3 DEF IndInv, Exclusive
  <2> QED
    BY <2>1, <2>2, <2>3
<1>10. Exclusive'
  BY <1>9 DEF Exclusive
<1> QED
  BY <1>4, <1>5, <1>6, <1>7, <1>10 DEF IndInv

\* The revisions that requests name are ones of the stream.
LEMMA CallsKeep == ASSUME IndInv, Calls PROVE IndInv'
<1>1. Base /\ \A k : Of(k) \subseteq DOMAIN stream
  BY DEF Of, IndInv
<1>2. \A i \in DOMAIN stream : i \in Revisions
  BY <1>1, Numbers DEF Base
<1>3. 0 \in Revisions /\ currentRevision \in Revisions
  BY <1>1, Numbers DEF currentRevision, Base
<1>4. ASSUME NEW k PROVE Newest(Of(k)) \in Revisions
  <2>1. Of(k) \in SUBSET (0..MaxSeq) /\ MaxSeq \in Nat
    BY <1>1, <1>2, Numbers
  <2> QED
    BY <2>1, NewestIs, Numbers
<1>5. CASE \E p \in Writers, k \in Keys :
             \/ Call(p, "create", k, 0, k \notin Plain)
             \/ \E r \in Of(k) : Call(p, "update", k, r, k \notin Plain)
             \/ \E r \in Of(k) \cup {0} : Call(p, "delete", k, r, FALSE)
  <2>1. PICK p \in Writers, k \in Keys :
             \/ Call(p, "create", k, 0, k \notin Plain)
             \/ \E r \in Of(k) : Call(p, "update", k, r, k \notin Plain)
             \/ \E r \in Of(k) \cup {0} : Call(p, "delete", k, r, FALSE)
    BY <1>5
  <2>2. p \in Clients
    BY DEF Clients
  <2>3. CASE Call(p, "create", k, 0, k \notin Plain)
    BY <1>3, <2>2, <2>3, CallKeeps
  <2>4. ASSUME NEW r \in Of(k), Call(p, "update", k, r, k \notin Plain) PROVE IndInv'
    BY <1>1, <1>2, <2>2, <2>4, CallKeeps
  <2>5. ASSUME NEW r \in Of(k) \cup {0}, Call(p, "delete", k, r, FALSE) PROVE IndInv'
    BY <1>1, <1>2, <1>3, <2>2, <2>5, CallKeeps
  <2> QED
    BY <2>1, <2>3, <2>4, <2>5
<1>6. CASE \E p \in Readers, k \in Keys :
             \/ \E r \in {0, Newest(Of(k))} : Call(p, "get", k, r, FALSE)
             \/ k = Idle.key /\ \E r \in {0, currentRevision} : Call(p, "list", k, r, FALSE)
  <2>1. PICK p \in Readers, k \in Keys :
             \E r \in {0, Newest(Of(k)), currentRevision} :
                 Call(p, "get", k, r, FALSE) \/ Call(p, "list", k, r, FALSE)
    BY <1>6
  <2>2. PICK r \in {0, Newest(Of(k)), currentRevision} :
             Call(p, "get", k, r, FALSE) \/ Call(p, "list", k, r, FALSE)
    BY <2>1
  <2>3. p \in Clients /\ r \in Revisions /\ ~ Locks("get") /\ ~ Locks("list")
    BY <1>3, <1>4, <2>2 DEF Clients, Locks
  <2> QED
    BY <2>2, <2>3, CallKeeps
<1> QED
  BY <1>5, <1>6 DEF Calls

-----------------------------------------------------------------------------
(* Lists.                                                                   *)

\* The revision of a list is one that the stream has reached.
LEMMA ListRevisionKeeps == ASSUME IndInv, NEW p \in Clients, ListRevision(p) PROVE IndInv'
<1> DEFINE o == op[p]
           r == IF o.revision = 0 THEN currentRevision ELSE o.revision
           q == [o EXCEPT !.pc = "snap", !.result = r]
<1>1. /\ o \in Ops /\ o.pc = "read" /\ o.kind = "list" /\ Base /\ NotStored
      /\ op' = [op EXCEPT ![p] = q]
  BY DEF IndInv, ListRevision, NotStored
<1>2. r \in Revisions /\ (o.revision = 0 => r <= Len(stream))
  BY <1>1, Numbers DEF Base, currentRevision, Ops
<1> HIDE DEF r
<1>3. /\ q \in Ops /\ q.pc = "snap" /\ q.kind = o.kind /\ q.key = o.key
      /\ q.revision = o.revision /\ q.result = r
  BY <1>1, <1>2 DEF Ops
<1> HIDE DEF q
<1>4. Stage(q, stream) /\ Covers(q, stream, over)
  BY <1>1, <1>2, <1>3 DEF Stage, Covers, Listing
<1>5. ~ Locks(q.kind)
  BY <1>1, <1>3 DEF Locks
<1>6. Base' /\ Carries
  BY <1>1, NotStoredKeeps
<1> QED
  BY <1>1, <1>3, <1>4, <1>5, <1>6, OpMoves DEF Holds

\* A list of the present covers its revision when it is read.
LEMMA ListPresentIs ==
    ASSUME Base, NEW o \in Ops, o.pc = "snap", o.revision = 0, Stage(o, stream)
    PROVE  LET q == ListPresent(o) IN
           /\ q \in Ops /\ q.kind = "list" /\ q.pc = "sweep"
           /\ Stage(q, stream) /\ Covers(q, stream, over)
<1> DEFINE q == ListPresent(o)
<1>1. stream \in Seq(Entries) /\ Len(stream) <= MaxSeq /\ DOMAIN stream = 1..Len(stream)
  BY DEF Base
<1>2. LastPerKey \subseteq 1..Len(stream)
  <2>1. \A k : KvGet(k) \in 0..Len(stream)
    BY <1>1, KvGetIs DEF GetSpec
  <2> QED
    BY <2>1 DEF LastPerKey
<1>3. 1..Len(stream) \subseteq Revisions
  BY <1>1, Numbers
<1>4. \A i \in LastPerKey : stream[i].key \in Keys
  BY <1>1, <1>2, EntryIs
<1>5. /\ {i \in LastPerKey : ~ Expired(i)} \in SUBSET Revisions
      /\ {stream[i].key : i \in {j \in LastPerKey : Expired(j)}} \in SUBSET Keys
  BY <1>2, <1>3, <1>4
<1>6. /\ q \in Ops /\ q.kind = o.kind /\ q.pc = "sweep" /\ q.revision = 0 /\ q.result = o.result
      /\ q.listed = {i \in LastPerKey : ~ Expired(i)}
  BY <1>5 DEF ListPresent, Ops
<1> HIDE DEF q
<1>7. o.kind = "list" /\ o.result <= Len(stream)
  BY DEF Stage
<1>8. Stage(q, stream)
  BY <1>6, <1>7 DEF Stage
<1>9. ASSUME NEW i \in DOMAIN stream, stream[i].put,
             ~ \E j \in DOMAIN stream : stream[j].key = stream[i].key /\ j > i
      PROVE  i \in q.listed \/ i \in over
  <2>1. stream[i].key \in Keys /\ i \in Nat
    BY <1>1, EntryIs
  <2>2. NewestPut(stream, stream[i].key, i)
    BY <1>9 DEF NewestPut
  <2>3. i \in LastPerKey
    BY <1>1, <2>1, <2>2, LastPerKeyIs
  <2> QED
    BY <1>6, <2>3 DEF Expired
<1>10. Covers(q, stream, over)
  BY <1>6, <1>7, <1>9 DEF Covers
<1> QED
  BY <1>6, <1>7, <1>8, <1>10 DEF q

\* A list of the past answers for its own revision.
LEMMA ListPastIs ==
    ASSUME Base, NEW o \in Ops, o.pc = "snap", o.revision # 0, Stage(o, stream), NEW K \in SUBSET Keys
    PROVE  LET q == ListPast(o, K) IN
           /\ q \in Ops /\ q.kind = "list" /\ q.pc = "answer" /\ q.reap = o.reap
           /\ Stage(q, stream) /\ Covers(q, stream, over)
<1> DEFINE q == ListPast(o, K)
<1>1. DOMAIN stream = 1..Len(stream) /\ Len(stream) \in Nat /\ Len(stream) <= MaxSeq
  BY DEF Base
<1>2. ASSUME NEW k PROVE Newest({i \in Kept(k) : i <= o.revision}) \in Revisions
  <2>1. {i \in Kept(k) : i <= o.revision} \in SUBSET (0..Len(stream))
    BY <1>1 DEF Kept, Of
  <2>2. Newest({i \in Kept(k) : i <= o.revision}) \in 0..Len(stream)
    BY <1>1, <2>1, NewestIs
  <2> QED
    BY <1>1, <2>2, Numbers
<1>3. {Newest({i \in Kept(k) : i <= o.revision}) : k \in K} \ {0} \in SUBSET Revisions
  BY <1>2
<1>4. q \in Ops /\ q.kind = o.kind /\ q.pc = "answer" /\ q.revision = o.revision /\ q.reap = o.reap
  BY <1>3 DEF ListPast, Ops
<1> HIDE DEF q
<1> QED
  BY <1>4 DEF q, Stage, Covers, Listing

\* A list is read after its revision, and so has what was there at it.
LEMMA ListReadKeeps == ASSUME IndInv, NEW p \in Clients, ListRead(p) PROVE IndInv'
<1> DEFINE o == op[p]
<1>1. o \in Ops /\ o.pc = "snap" /\ Base /\ Stage(o, stream) /\ NotStored
  BY DEF IndInv, ListRead, NotStored
<1>2. Base' /\ Carries
  BY <1>1, NotStoredKeeps
<1>3. \E q \in Ops : /\ op' = [op EXCEPT ![p] = q] /\ q.kind = "list"
                     /\ Stage(q, stream) /\ Covers(q, stream, over)
  <2>1. CASE o.revision = 0 /\ op' = [op EXCEPT ![p] = ListPresent(@)]
    <3> DEFINE q == ListPresent(o)
    <3>1. q \in Ops /\ q.kind = "list" /\ Stage(q, stream) /\ Covers(q, stream, over)
      BY <1>1, <2>1, ListPresentIs
    <3>2. op' = [op EXCEPT ![p] = q]
      BY <2>1
    <3> HIDE DEF q
    <3> QED
      BY <3>1, <3>2
  <2>2. CASE /\ o.revision # 0
             /\ \E K \in SUBSET {stream[i].key : i \in LastPerKey} : op' = [op EXCEPT ![p] = ListPast(@, K)]
    <3>1. PICK K \in SUBSET {stream[i].key : i \in LastPerKey} : op' = [op EXCEPT ![p] = ListPast(@, K)]
      BY <2>2
    <3>2. K \in SUBSET Keys
      <4>1. \A k : KvGet(k) \in 0..Len(stream)
        BY <1>1, KvGetIs DEF GetSpec, Base
      <4>2. \A i \in LastPerKey : i \in DOMAIN stream
        BY <1>1, <4>1 DEF LastPerKey, Base
      <4>3. \A i \in DOMAIN stream : stream[i].key \in Keys
        BY <1>1, EntryIs
      <4> QED
        BY <4>2, <4>3
    <3> DEFINE q == ListPast(o, K)
    <3>3. q \in Ops /\ q.kind = "list" /\ Stage(q, stream) /\ Covers(q, stream, over)
      BY <1>1, <2>2, <3>2, ListPastIs
    <3>4. op' = [op EXCEPT ![p] = q]
      BY <3>1
    <3> HIDE DEF q
    <3> QED
      BY <3>3, <3>4
  <2> QED
    BY <2>1, <2>2 DEF ListRead
<1>4. PICK q \in Ops : /\ op' = [op EXCEPT ![p] = q] /\ q.kind = "list"
                       /\ Stage(q, stream) /\ Covers(q, stream, over)
  BY <1>3
<1>5. ~ Locks(q.kind) /\ ~ Holds(q)
  BY <1>4 DEF Locks, Holds
<1> QED
  BY <1>2, <1>4, <1>5, OpMoves

\* A list that removes an expired key keeps the invariant.
LEMMA ListExpireKeeps == ASSUME IndInv, NEW p \in Clients, ListExpire(p) PROVE IndInv'
<1> DEFINE o == op[p]
<1>1. o \in Ops /\ o.pc = "sweep" /\ Base /\ Stage(o, stream) /\ Covers(o, stream, over)
  BY DEF IndInv, ListExpire
<1>2. PICK k \in o.reap : /\ Store(Marker(k)) \/ NotStored
                          /\ op' = [op EXCEPT ![p] = [o EXCEPT !.reap = @ \ {k}]]
  BY <1>1 DEF ListExpire
<1> DEFINE q == [o EXCEPT !.reap = @ \ {k}]
<1>3. k \in Keys
  BY <1>1 DEF Ops
<1>4. Base' /\ Carries
  BY <1>1, <1>2, <1>3, MarkerIs, StoreKeeps, NotStoredKeeps
<1>5. /\ q \in Ops /\ q.pc = o.pc /\ q.kind = o.kind /\ q.key = o.key /\ q.revision = o.revision
      /\ q.result = o.result /\ q.listed = o.listed /\ q.found = o.found
  BY <1>1 DEF Ops
<1> HIDE DEF q
<1>6. Stage(q, stream) /\ Covers(q, stream, over)
  BY <1>1, <1>5 DEF Stage, Covers, Listing
<1>7. Holds(q) => Holds(o)
  BY <1>5 DEF Holds
<1> QED
  BY <1>2, <1>4, <1>5, <1>6, <1>7, OpMoves DEF q

\* The answer of a list has the revision from before it was read.
LEMMA ListDoneKeeps == ASSUME IndInv, NEW p \in Clients, ListDone(p) PROVE IndInv'
<1> DEFINE o == op[p]
           q == Answer(o, "yes", o.result)
<1>1. /\ o \in Ops /\ o.pc = "sweep" /\ Base /\ Stage(o, stream) /\ Covers(o, stream, over)
      /\ op' = [op EXCEPT ![p] = q] /\ NotStored
  BY DEF IndInv, ListDone, NotStored, Stamped
<1>2. Base' /\ Carries
  BY <1>1, NotStoredKeeps
<1>3. o.result \in Revisions
  BY <1>1 DEF Ops
<1>4. Answered(o, "yes", q) /\ q.result = o.result
  BY <1>1, <1>3, AnswerIs
<1> HIDE DEF q
<1>5. o.kind = "list" /\ o.revision = 0 /\ ~ Locks(o.kind)
  BY <1>1 DEF Stage, Locks
<1>6. /\ q \in Ops /\ q.kind = "list" /\ q.key = o.key /\ q.revision = 0 /\ q.listed = o.listed
      /\ Stage(q, stream)
  BY <1>4, <1>5, AnswerStage DEF Answered
<1>7. Covers(q, stream, over)
  BY <1>1, <1>4, <1>5, <1>6 DEF Covers, Listing
<1>8. ~ Holds(q) /\ ~ Locks(q.kind)
  BY <1>6 DEF Holds, Locks
<1> QED
  BY <1>1, <1>2, <1>6, <1>7, <1>8, OpMoves

-----------------------------------------------------------------------------
(* Watches.                                                                 *)

\* A watch that is over.
LEMMA OffIs ==
    /\ \A n \in Nat : Off \in Watches(n)
    /\ InOrder(Off) /\ (\A s : MissesReplaced(Off, s)) /\ Off.reap = {}
<1>1. ASSUME NEW n \in Nat PROVE Off \in Watches(n)
  <2>1. <<>> \in Seq(1..n) /\ 0 \in Revisions
    BY Numbers
  <2> QED
    BY <2>1 DEF Off, Watches
<1>2. Len(<<>>) = 0
  OBVIOUS
<1> QED
  BY <1>1, <1>2 DEF Off, InOrder, MissesReplaced

\* A watch starts with the newest put of every key before it: what is not among
\* them has been replaced.
LEMMA WatchStartKeeps ==
    ASSUME IndInv, NEW w \in Watchers, NEW r \in {0, currentRevision + 1}, WatchStart(w, r)
    PROVE  IndInv'
<1> DEFINE q == [Off EXCEPT !.pc = "list", !.from = After(r), !.revision = After(r),
                            !.listedAt = Len(stream), !.todo = LastPerKey]
<1>1. /\ Base /\ UNCHANGED <<stream, over, op>> /\ watch' = [watch EXCEPT ![w] = q]
  BY DEF IndInv, WatchStart
<1>2. DOMAIN stream = 1..Len(stream) /\ Len(stream) \in Nat /\ Len(stream) <= MaxSeq
  BY <1>1, EntryIs
<1>3. After(r) \in 0..Len(stream)
  BY <1>2 DEF After, currentRevision
<1>4. After(r) \in Revisions /\ Len(stream) \in Revisions
  BY <1>2, <1>3, Numbers
<1>5. LastPerKey \in SUBSET (1..Len(stream))
  <2>1. \A k : KvGet(k) \in 0..Len(stream)
    BY <1>1, KvGetIs DEF GetSpec, Base
  <2> QED
    BY <1>2, <2>1 DEF LastPerKey
<1>6. Off \in Watches(Len(stream)) /\ Off.got = <<>>
  BY <1>2, OffIs DEF Off
<1> HIDE DEF LastPerKey, After, Off
<1>7. /\ q \in Watches(Len(stream)) /\ q.pc = "list" /\ q.from = After(r) /\ q.revision = After(r)
      /\ q.listedAt = Len(stream) /\ q.todo = LastPerKey /\ q.got = <<>>
  BY <1>4, <1>5, <1>6 DEF Watches
<1> HIDE DEF q
<1>8. Len(q.got) = 0
  BY <1>7
<1>9. InOrder(q)
  BY <1>3, <1>7, <1>8 DEF InOrder
<1>10. ASSUME NEW i \in DOMAIN stream, stream[i].put, i > q.from, i \notin q.todo \/ i <= q.revision
       PROVE  Replaced(q, stream, i)
  <2>1. i \notin LastPerKey /\ i \in Nat
    BY <1>2, <1>3, <1>7, <1>10
  <2>2. stream[i].key \in Keys /\ stream \in Seq(Entries)
    BY <1>1, EntryIs DEF Base
  <2>3. ~ NewestPut(stream, stream[i].key, i)
    BY <2>1, <2>2, LastPerKeyIs
  <2>4. PICK j \in DOMAIN stream : j > i /\ stream[j].key = stream[i].key
    BY <1>10, <2>3 DEF NewestPut
  <2> QED
    BY <1>2, <1>7, <2>4 DEF Replaced
<1>11. MissesReplaced(q, stream)
  BY <1>3, <1>7, <1>10 DEF MissesReplaced
<1> QED
  BY <1>1, <1>7, <1>9, <1>11, WatchMoves

\* The keys that are removed while events are filled in are keys.
LEMMA ReapIs == ASSUME Base, NEW S \in SUBSET DOMAIN stream PROVE Reap(S) \in SUBSET Keys
<1>1. \A i \in DOMAIN stream : stream[i].key \in Keys
  BY EntryIs
<1> QED
  BY <1>1 DEF Reap

\* The list of a watch: what it passes over has been replaced.
LEMMA ListAfterKeeps == ASSUME IndInv, NEW w \in Watchers, listAfter(w) PROVE IndInv'
<1> DEFINE r == watch[w]
           S == {i \in LastPerKey : i > r.revision}
           a == Ascending(S)
           m == Resume(w, S)
           R == Reap(S)
           q == [r EXCEPT !.pc = "run", !.listedAt = Len(stream), !.reap = R, !.got = a, !.revision = m]
<1>1. /\ Base /\ r \in Watches(Len(stream)) /\ InOrder(r) /\ MissesReplaced(r, stream) /\ r.pc = "list"
      /\ UNCHANGED <<stream, over, op>> /\ watch' = [watch EXCEPT ![w] = q]
  BY DEF IndInv, listAfter, Base
<1>2. /\ DOMAIN stream = 1..Len(stream) /\ Len(stream) \in Nat /\ Len(stream) <= MaxSeq
      /\ Len(stream) \in Revisions
  BY <1>1, EntryIs, Numbers
<1>3. r.revision \in 0..Len(stream) /\ r.from = r.revision
  BY <1>1, Numbers DEF Watches, MissesReplaced, InOrder
<1>4. S \in SUBSET (1..Len(stream)) /\ S \in SUBSET (0..Len(stream))
  <2>1. \A k : KvGet(k) \in 0..Len(stream)
    BY <1>1, KvGetIs DEF GetSpec, Base
  <2> QED
    BY <1>2, <2>1 DEF LastPerKey
<1>5. \A i \in S : i \in Nat /\ i > r.revision
  BY <1>4
<1>6. ASSUME NEW i \in DOMAIN stream, stream[i].put, i > r.revision, i \notin S
      PROVE  \E j \in DOMAIN stream : j > i /\ stream[j].key = stream[i].key
  <2>1. i \notin LastPerKey /\ i \in Nat
    BY <1>2, <1>6
  <2>2. stream[i].key \in Keys /\ stream \in Seq(Entries)
    BY <1>1, EntryIs DEF Base
  <2>3. ~ NewestPut(stream, stream[i].key, i)
    BY <2>1, <2>2, LastPerKeyIs
  <2> QED
    BY <1>6, <2>3 DEF NewestPut
<1>7. R \in SUBSET Keys
  BY <1>1, <1>2, <1>4, ReapIs
<1> HIDE DEF S, R
<1>8. /\ a \in Seq(S)
      /\ \A i, j \in 1..Len(a) : i < j => a[i] < a[j]
      /\ \A x \in S : \E i \in 1..Len(a) : a[i] = x
  BY <1>2, <1>4, AscendingIs
<1>9. m \in 0..Len(stream) /\ r.revision <= m /\ \A i \in S : i <= m
  <2>1. S \cup {r.revision} \in SUBSET (0..Len(stream))
    BY <1>3, <1>4
  <2>2. m = Newest(S \cup {r.revision})
    BY DEF Resume
  <2> QED
    BY <1>2, <2>1, <2>2, NewestIs
<1> HIDE DEF a, m
<1>10. \A i \in 1..Len(a) : a[i] \in S
  BY <1>8
<1>11. a \in Seq(1..Len(stream)) /\ m \in Revisions
  <2>1. m \in Revisions
    BY <1>2, <1>9, Numbers
  <2>2. Len(a) \in Nat /\ a = [k \in 1..Len(a) |-> a[k]] /\ \A k \in 1..Len(a) : a[k] \in 1..Len(stream)
    BY <1>4, <1>8, <1>10
  <2>3. a \in Seq(1..Len(stream))
    BY <2>2
  <2> QED
    BY <2>1, <2>3
<1>12. /\ q \in Watches(Len(stream)) /\ q.pc = "run" /\ q.from = r.from /\ q.todo = r.todo
       /\ q.listedAt = Len(stream) /\ q.got = a /\ q.revision = m
  BY <1>1, <1>2, <1>7, <1>11 DEF Watches
<1> HIDE DEF q
<1>13. InOrder(q)
  <2>1. \A i \in 1..Len(a) : a[i] \in Nat /\ a[i] > r.from /\ a[i] <= m
    BY <1>3, <1>5, <1>9, <1>10
  <2>2. \A t \in q.todo : t \in Nat
    BY <1>1, <1>12 DEF Watches
  <2>3. ASSUME NEW i \in 1..Len(a), NEW t \in q.todo, t > m PROVE a[i] < t
    BY <1>9, <2>1, <2>2, <2>3
  <2> QED
    BY <1>3, <1>8, <1>9, <1>12, <2>1, <2>3 DEF InOrder
<1>14. ASSUME NEW i \in DOMAIN stream, stream[i].put, i > q.from,
              i \notin q.todo \/ i <= q.revision, ~ Told(q, i)
       PROVE  Replaced(q, stream, i)
  <2>1. i \notin S
    BY <1>8, <1>12, <1>14 DEF Told
  <2>2. PICK j \in DOMAIN stream : j > i /\ stream[j].key = stream[i].key
    BY <1>3, <1>6, <1>12, <1>14, <2>1
  <2> QED
    BY <1>2, <1>12, <2>2 DEF Replaced
<1>15. MissesReplaced(q, stream)
  BY <1>9, <1>12, <1>14 DEF MissesReplaced
<1> QED
  BY <1>1, <1>12, <1>13, <1>15, WatchMoves

\* Without its list, a watch still has all of its stream before it.
LEMMA ListAfterFailsKeeps == ASSUME IndInv, NEW w \in Watchers, listAfterFails(w) PROVE IndInv'
<1> DEFINE r == watch[w]
           q == [r EXCEPT !.pc = "run"]
<1>1. /\ Base /\ r \in Watches(Len(stream)) /\ InOrder(r) /\ MissesReplaced(r, stream) /\ r.pc = "list"
      /\ UNCHANGED <<stream, over, op>> /\ watch' = [watch EXCEPT ![w] = q]
  BY DEF IndInv, listAfterFails, Base
<1>2. /\ q \in Watches(Len(stream)) /\ q.pc = "run" /\ q.from = r.from /\ q.todo = r.todo
      /\ q.listedAt = r.listedAt /\ q.got = r.got /\ q.revision = r.revision
  BY <1>1 DEF Watches
<1> HIDE DEF q
<1>3. InOrder(q)
  BY <1>1, <1>2 DEF InOrder
<1>4. MissesReplaced(q, stream)
  BY <1>1, <1>2 DEF MissesReplaced, Told, Replaced
<1> QED
  BY <1>1, <1>2, <1>3, <1>4, WatchMoves

\* The next event of the stream: it is after all that the watch got, and before
\* all that it has yet to get.
LEMMA WatchNextKeeps == ASSUME IndInv, NEW w \in Watchers, WatchNext(w) PROVE IndInv'
<1> DEFINE r == watch[w]
           i == Min(r.todo)
           pass == i > r.revision
           g == IF pass THEN Append(r.got, i) ELSE r.got
           R == IF pass THEN Reap({i}) ELSE {}
           q == [r EXCEPT !.todo = @ \ {i}, !.got = g, !.reap = R]
<1>1. /\ Base /\ r \in Watches(Len(stream)) /\ InOrder(r) /\ MissesReplaced(r, stream) /\ r.pc = "run"
      /\ r.todo # {} /\ UNCHANGED <<stream, over, op>> /\ watch' = [watch EXCEPT ![w] = q]
  <2>1. UNCHANGED <<stream, over, op>> /\ r.pc = "run" /\ r.todo # {}
    BY DEF WatchNext
  <2>2. watch' = [watch EXCEPT ![w] = q]
    BY DEF WatchNext, Passes
  <2> HIDE DEF q
  <2> QED
    BY <2>1, <2>2 DEF IndInv, Base
<1>2. DOMAIN stream = 1..Len(stream) /\ Len(stream) \in Nat
  BY <1>1, EntryIs
<1>3. r.todo \in SUBSET (1..Len(stream)) /\ r.got \in Seq(1..Len(stream)) /\ r.revision \in Nat
  BY <1>1, Numbers DEF Watches
<1>4. i \in r.todo /\ \A x \in r.todo : i <= x
  <2>1. r.todo \in SUBSET Nat
    BY <1>3
  <2>2. \E x \in r.todo : \A y \in r.todo : x <= y
    BY <1>1, <2>1, NatMin
  <2> QED
    BY <2>2 DEF Min
<1> HIDE DEF i
<1>5. i \in 1..Len(stream) /\ i \in Nat
  BY <1>2, <1>3, <1>4
<1>6. R \in SUBSET Keys
  BY <1>1, <1>2, <1>5, ReapIs
<1> HIDE DEF R
<1>7. g \in Seq(1..Len(stream))
  <2>1. Append(r.got, i) \in Seq(1..Len(stream))
    BY <1>3, <1>5
  <2> QED
    BY <1>3, <2>1
<1>8. /\ q \in Watches(Len(stream)) /\ q.pc = "run" /\ q.from = r.from /\ q.todo = r.todo \ {i}
      /\ q.listedAt = r.listedAt /\ q.got = g /\ q.revision = r.revision
  <2> HIDE DEF g
  <2> QED
    BY <1>1, <1>3, <1>6, <1>7 DEF Watches
<1> HIDE DEF q
<1>9. r.from \in Nat /\ r.from <= r.revision
  BY <1>1, Numbers DEF Watches, InOrder
<1>10. CASE pass
  <2> DEFINE n == Len(r.got)
  <2>1. /\ Len(g) = n + 1 /\ n \in Nat /\ g[n + 1] = i
        /\ \A k \in 1..n : g[k] = r.got[k] /\ r.got[k] \in Nat
    BY <1>3, <1>5, <1>10
  <2>2. \A k \in 1..n : r.got[k] < i
    BY <1>1, <1>4, <1>10 DEF InOrder
  <2>3. ASSUME NEW k \in 1..Len(g) PROVE g[k] > r.from
    <3>1. CASE k = n + 1
      BY <1>3, <1>5, <1>9, <1>10, <2>1, <3>1
    <3>2. CASE k # n + 1
      <4>1. k \in 1..n
        BY <2>1, <3>2
      <4> QED
        BY <1>1, <2>1, <4>1 DEF InOrder
    <3> QED
      BY <3>1, <3>2
  <2>4. ASSUME NEW k \in 1..Len(g), NEW l \in 1..Len(g), k < l PROVE g[k] < g[l]
    <3>1. k \in 1..n
      BY <2>1, <2>4
    <3>2. CASE l = n + 1
      BY <2>1, <2>2, <3>1, <3>2
    <3>3. CASE l # n + 1
      <4>1. l \in 1..n
        BY <2>1, <3>3
      <4> QED
        BY <1>1, <2>1, <2>4, <3>1, <4>1 DEF InOrder
    <3> QED
      BY <3>2, <3>3
  <2>5. ASSUME NEW k \in 1..Len(g), NEW t \in r.todo \ {i}, t > r.revision PROVE g[k] < t
    <3>1. CASE k = n + 1
      <4>1. i <= t /\ i # t /\ t \in Nat
        BY <1>3, <1>4
      <4> QED
        BY <1>5, <2>1, <3>1, <4>1
    <3>2. CASE k # n + 1
      <4>1. k \in 1..n
        BY <2>1, <3>2
      <4> QED
        BY <1>1, <2>1, <2>5, <4>1 DEF InOrder
    <3> QED
      BY <3>1, <3>2
  <2>6. InOrder(q)
    <3> HIDE DEF g
    <3> QED
      BY <1>8, <1>9, <2>3, <2>4, <2>5 DEF InOrder
  <2>7. ASSUME NEW x \in DOMAIN stream, stream[x].put, x > q.from, x \notin q.todo \/ x <= q.revision,
               ~ Told(q, x)
        PROVE  Replaced(q, stream, x)
    <3>1. n + 1 \in 1..Len(g) /\ \A k \in 1..n : k \in 1..Len(g)
      BY <2>1
    <3>2. x # i
      BY <1>8, <2>1, <2>7, <3>1 DEF Told
    <3>3. ~ Told(r, x)
      BY <1>8, <2>1, <2>7, <3>1 DEF Told
    <3>4. Replaced(r, stream, x)
      BY <1>1, <1>8, <2>7, <3>2, <3>3 DEF MissesReplaced
    <3> QED
      BY <1>8, <3>4 DEF Replaced
  <2>8. MissesReplaced(q, stream)
    BY <1>1, <1>8, <2>7 DEF MissesReplaced
  <2> QED
    BY <1>1, <1>8, <2>6, <2>8, WatchMoves
<1>11. CASE ~ pass
  <2>1. q.got = r.got /\ i <= r.revision
    BY <1>3, <1>5, <1>8, <1>11
  <2>2. InOrder(q)
    BY <1>1, <1>8, <2>1 DEF InOrder
  <2>3. ASSUME NEW x \in DOMAIN stream, stream[x].put, x > q.from, x \notin q.todo \/ x <= q.revision,
               ~ Told(q, x)
        PROVE  Replaced(q, stream, x)
    <3>1. x \notin r.todo \/ x <= r.revision
      BY <1>8, <2>1, <2>3
    <3>2. ~ Told(r, x)
      BY <2>1, <2>3 DEF Told
    <3>3. Replaced(r, stream, x)
      BY <1>1, <1>8, <2>3, <3>1, <3>2 DEF MissesReplaced
    <3> QED
      BY <1>8, <3>3 DEF Replaced
  <2>4. MissesReplaced(q, stream)
    BY <1>1, <1>8, <2>3 DEF MissesReplaced
  <2> QED
    BY <1>1, <1>8, <2>2, <2>4, WatchMoves
<1> QED
  BY <1>10, <1>11

\* Filling in an event removes a key: no watch is sent the marker.
LEMMA WatchExpireKeeps == ASSUME IndInv, NEW w \in Watchers, WatchExpire(w) PROVE IndInv'
<1>1. PICK k \in watch[w].reap :
        /\ stream' \in {stream} \cup (IF Len(stream) < MaxSeq THEN {Append(stream, Marker(k))} ELSE {})
        /\ watch' = [watch EXCEPT ![w].reap = @ \ {k}] /\ UNCHANGED <<over, op>>
  BY DEF WatchExpire
<1> DEFINE r == watch[w]
           q == [r EXCEPT !.reap = @ \ {k}]
<1>2. /\ Base /\ watch \in [Watchers -> Watches(Len(stream))] /\ r \in Watches(Len(stream))
      /\ InOrder(r) /\ MissesReplaced(r, stream)
  BY DEF IndInv, Base
<1>3. k \in Keys /\ watch' = [watch EXCEPT ![w] = q]
  BY <1>1, <1>2 DEF Watches
<1>4. /\ q \in Watches(Len(stream)) /\ q.pc = r.pc /\ q.from = r.from /\ q.todo = r.todo
      /\ q.listedAt = r.listedAt /\ q.got = r.got /\ q.revision = r.revision
  BY <1>2 DEF Watches
<1> HIDE DEF q
<1>5. InOrder(q) /\ MissesReplaced(q, stream)
  <2>1. InOrder(q)
    BY <1>2, <1>4 DEF InOrder
  <2>2. MissesReplaced(q, stream)
    BY <1>2, <1>4 DEF MissesReplaced, Told, Replaced
  <2> QED
    BY <2>1, <2>2
<1>6. \A v \in Watchers : /\ watch'[v] \in Watches(Len(stream))
                          /\ InOrder(watch'[v]) /\ MissesReplaced(watch'[v], stream)
  BY <1>2, <1>3, <1>4, <1>5 DEF Base
<1>7. CASE stream' = stream
  BY <1>1, <1>3, <1>4, <1>5, <1>7, WatchMoves
<1>8. CASE Len(stream) < MaxSeq /\ stream' = Append(stream, Marker(k))
  <2> DEFINE e == Marker(k)
  <2>1. e \in Entries /\ ~ e.put /\ stream \in Seq(Entries)
    BY <1>2, <1>3, MarkerIs DEF Base
  <2>2. Grown(stream, stream', e)
    BY <1>8, <2>1, AppendGrows
  <2> HIDE DEF e
  <2>3. ASSUME NEW v \in Watchers
        PROVE  /\ watch'[v] \in Watches(Len(stream'))
               /\ InOrder(watch'[v]) /\ MissesReplaced(watch'[v], stream')
    <3>1. watch'[v] = Notified(watch'[v], Len(stream), e)
      BY <2>1 DEF Notified
    <3>2. /\ watch'[v] \in Watches(Len(stream)) /\ InOrder(watch'[v]) /\ MissesReplaced(watch'[v], stream)
      BY <1>6
    <3> QED
      BY <2>1, <2>2, <3>1, <3>2, NotifiedStays
  <2>4. watch' \in [Watchers -> Watches(Len(stream'))]
    <3>1. watch' = [v \in Watchers |-> watch'[v]]
      BY <1>2, <1>3
    <3> QED
      BY <2>3, <3>1
  <2>5. stream' \in Seq(Entries) /\ Len(stream') <= MaxSeq /\ over' \subseteq DOMAIN stream'
    BY <1>1, <1>2, <1>8, <2>2, Numbers DEF Grown, Base
  <2>6. Base'
    BY <2>3, <2>4, <2>5 DEF Base
  <2>7. ASSUME NEW p \in Clients PROVE Stage(op[p], stream') /\ Covers(op[p], stream', over')
    <3>1. op[p] \in Ops /\ Stage(op[p], stream) /\ Covers(op[p], stream, over) /\ over' = over
      BY <1>1 DEF IndInv
    <3> QED
      BY <2>1, <2>2, <3>1, StageStays, CoversStays
  <2> QED
    BY <1>1, <2>6, <2>7 DEF IndInv, WritersWrite, Exclusive
<1> QED
  BY <1>1, <1>7, <1>8

\* A watch that ends keeps the invariant.
LEMMA WatchCancelKeeps == ASSUME IndInv, NEW w \in Watchers, WatchCancel(w) PROVE IndInv'
<1>1. Len(stream) \in Nat
  BY EntryIs DEF IndInv
<1> QED
  BY <1>1, OffIs, WatchMoves DEF WatchCancel

-----------------------------------------------------------------------------
(* Leases, ends of processes, and the invariant of the specification.       *)

\* The end of a lease keeps the invariant.
LEMMA LeaseOverKeeps == ASSUME IndInv, NEW i \in DOMAIN stream, LeaseOver(i) PROVE IndInv'
<1>1. over' = over \cup {i} /\ UNCHANGED <<stream, op, watch>>
  BY DEF LeaseOver
<1>2. Base'
  BY <1>1 DEF IndInv, Base
<1>3. ASSUME NEW p \in Clients PROVE Covers(op[p], stream, over')
  BY <1>1 DEF IndInv, Covers
<1> QED
  BY <1>1, <1>2, <1>3 DEF IndInv, WritersWrite, Exclusive

\* The end of a process frees its mutexes.
LEMMA CrashKeeps == ASSUME IndInv, NEW n \in Nodes, Crash(n) PROVE IndInv'
<1>1. UNCHANGED <<stream, over, watch>>
  BY DEF Crash
<1>2. op \in [Clients -> Ops] /\ op' = [p \in Clients |-> IF NodeOf[p] = n THEN Idle ELSE op[p]]
  BY DEF Crash, IndInv
<1>3. op' \in [Clients -> Ops] /\ \A p \in Clients : op'[p] = op[p] \/ op'[p] = Idle
  BY <1>2, IdleIs
<1>4. Base'
  BY <1>1 DEF IndInv, Base
<1>5. \A p \in Clients : Stage(op'[p], stream) /\ Covers(op'[p], stream, over)
  BY <1>3, IdleIs DEF IndInv
<1>6. WritersWrite'
  BY <1>3, IdleIs DEF IndInv, WritersWrite
<1>7. Exclusive'
  BY <1>3, IdleIs DEF IndInv, Exclusive
<1> QED
  BY <1>1, <1>3, <1>4, <1>5, <1>6, <1>7 DEF IndInv

\* The invariant holds at the start.
LEMMA InitIndInv == Init => IndInv
<1> SUFFICES ASSUME Init PROVE IndInv
  OBVIOUS
<1>1. stream \in Seq(Entries) /\ Len(stream) <= MaxSeq /\ over = {}
  BY NatsAssumption DEF Init
<1>2. Len(stream) \in Nat
  BY <1>1
<1>3. \A w \in Watchers : watch[w] = Off
  BY DEF Init
<1>4. watch \in [Watchers -> Watches(Len(stream))]
  BY <1>2, OffIs DEF Init
<1>5. Base
  BY <1>1, <1>3, <1>4, OffIs DEF Base
<1>6. op \in [Clients -> Ops] /\ \A p \in Clients : op[p] = Idle
  BY IdleIs DEF Init
<1>7. WritersWrite /\ Exclusive
  BY <1>6, IdleIs DEF WritersWrite, Exclusive
<1> QED
  BY <1>5, <1>6, <1>7, IdleIs DEF IndInv

\* A step that stutters.
LEMMA SameKeeps == ASSUME IndInv, UNCHANGED vars PROVE IndInv'
BY DEF vars, IndInv, Base, WritersWrite, Exclusive

\* Every step keeps it.
LEMMA NextIndInv == IndInv /\ [Next]_vars => IndInv'
<1> SUFFICES ASSUME IndInv, Next PROVE IndInv'
  BY SameKeeps
<1>1. CASE Calls
  BY <1>1, CallsKeep
<1>2. ASSUME NEW p \in Clients,
             \/ get(p) \/ isKeyExpired(p) \/ write(p) \/ writeFails(p)
             \/ mark(p) \/ Fails(p) \/ Return(p)
             \/ ListRevision(p) \/ ListRead(p) \/ ListExpire(p) \/ ListDone(p)
      PROVE  IndInv'
  BY <1>2, GetKeeps, IsKeyExpiredKeeps, WriteKeeps, WriteFailsKeeps, MarkKeeps, FailsKeeps,
     ReturnKeeps, ListRevisionKeeps, ListReadKeeps, ListExpireKeeps, ListDoneKeeps
<1>3. ASSUME NEW w \in Watchers,
             \/ \E r \in {0, currentRevision + 1} : WatchStart(w, r)
             \/ listAfter(w) \/ listAfterFails(w) \/ WatchNext(w) \/ WatchExpire(w) \/ WatchCancel(w)
      PROVE  IndInv'
  BY <1>3, WatchStartKeeps, ListAfterKeeps, ListAfterFailsKeeps, WatchNextKeeps,
     WatchExpireKeeps, WatchCancelKeeps
<1>4. CASE \E i \in DOMAIN stream : LeaseOver(i)
  BY <1>4, LeaseOverKeeps
<1>5. CASE \E n \in Nodes : Crash(n)
  BY <1>5, CrashKeeps
<1> QED
  BY <1>1, <1>2, <1>3, <1>4, <1>5 DEF Next

\* It always holds.
LEMMA AlwaysIndInv == Spec => []IndInv
BY InitIndInv, NextIndInv, PTL DEF Spec

\* Every variable keeps its type; revisions and the watches' filters stay among
\* the numbers of the bucket's entries.
THEOREM TypeCorrect == Spec => []TypeOK
<1>1. IndInv => TypeOK
  BY DEF IndInv, Base, TypeOK
<1> QED
  BY <1>1, AlwaysIndInv, PTL

\* Over the join of its list and its stream, a watch gets events in the order of
\* their revisions, none twice and none from before the revision asked for.
THEOREM WatchesAscend == Spec => []WatchAscending
<1>1. ASSUME IndInv PROVE WatchAscending
  <2> SUFFICES ASSUME NEW w \in Watchers
               PROVE  LET got == watch[w].got IN
                      /\ \A i \in DOMAIN got : got[i] > watch[w].from
                      /\ \A i, j \in DOMAIN got : i < j => got[i] < got[j]
    BY DEF WatchAscending
  <2>1. InOrder(watch[w]) /\ watch[w].got \in Seq(1..Len(stream))
    BY <1>1 DEF IndInv, Base, Watches
  <2>2. DOMAIN watch[w].got = 1..Len(watch[w].got)
    BY <2>1
  <2> QED
    BY <2>1, <2>2 DEF InOrder
<1> QED
  BY <1>1, AlwaysIndInv, PTL

\* A value that a watch passes over had been replaced or removed by the time its
\* list was read.
THEOREM WatchMissesReplaced == Spec => []WatchMissesOnlyReplaced
<1>1. ASSUME IndInv PROVE WatchMissesOnlyReplaced
  <2> SUFFICES ASSUME NEW w \in Watchers, watch[w].pc = "run", NEW i \in DOMAIN stream,
                      Put(i), i > watch[w].from, i \notin watch[w].todo, i \notin Range(watch[w].got)
               PROVE  \E j \in Of(stream[i].key) : i < j /\ j <= watch[w].listedAt
    BY DEF WatchMissesOnlyReplaced
  <2>1. MissesReplaced(watch[w], stream) /\ watch[w].got \in Seq(1..Len(stream))
    BY <1>1 DEF IndInv, Base, Watches
  <2>2. DOMAIN watch[w].got = 1..Len(watch[w].got)
    BY <2>1
  <2>3. ~ Told(watch[w], i)
    BY <2>2 DEF Told, Range
  <2>4. Replaced(watch[w], stream, i)
    BY <2>1, <2>3 DEF MissesReplaced, Put
  <2> QED
    BY <2>4 DEF Replaced, Of
<1> QED
  BY <1>1, AlwaysIndInv, PTL

\* A list of the present lacks no key that was there at the revision it gives,
\* unless an entry of the key follows or its lease is over.
THEOREM ListsCover == Spec => []ListCoversRevision
<1>1. ASSUME IndInv PROVE ListCoversRevision
  <2> SUFFICES ASSUME NEW p \in Clients, op[p].kind = "list", op[p].pc = "answer",
                      op[p].answer = "yes", op[p].revision = 0, NEW k \in Keys,
                      NEW i, i = Newest({j \in Of(k) : j <= op[p].result}), Live(i)
               PROVE  \/ i \in op[p].listed \/ i \in over
                      \/ \E j \in Of(k) : j > op[p].result
    BY DEF ListCoversRevision
  <2>1. Base /\ op[p] \in Ops /\ Covers(op[p], stream, over)
    BY <1>1 DEF IndInv
  <2>2. DOMAIN stream = 1..Len(stream) /\ Len(stream) \in Nat /\ op[p].result \in Nat
    BY <2>1, EntryIs, Numbers DEF Ops
  <2> DEFINE S == {j \in Of(k) : j <= op[p].result}
  <2>3. S \in SUBSET (0..Len(stream))
    BY <2>2 DEF Of
  <2>4. i \in S \cup {0} /\ \A y \in S : y <= i
    BY <2>2, <2>3, NewestIs
  <2>5. i # 0 /\ stream[i].put /\ ~ stream[i].delete
    BY DEF Live, Put
  <2>6. i \in DOMAIN stream /\ stream[i].key = k /\ i <= op[p].result
    BY <2>4, <2>5 DEF Of
  <2>7. i \in op[p].listed \/ i \in over \/ \E j \in DOMAIN stream : stream[j].key = k /\ j > i
    BY <2>1, <2>5, <2>6 DEF Covers, Listing
  <2>8. ASSUME NEW j \in DOMAIN stream, stream[j].key = k, j > i PROVE j \in Of(k) /\ j > op[p].result
    <3>1. j \in Of(k) /\ j \in Nat /\ i \in Nat
      BY <2>2, <2>6, <2>8 DEF Of
    <3>2. j \notin S
      BY <2>4, <2>8, <3>1
    <3> QED
      BY <2>2, <3>1, <3>2
  <2> QED
    BY <2>7, <2>8
<1> QED
  BY <1>1, AlwaysIndInv, PTL

-----------------------------------------------------------------------------
(* One process: what the mutex of a folder keeps in order.                  *)

\* Two requests that hold a mutex are of different keys.
LEMMA OthersKeys ==
    ASSUME IndInv, OneProcess, NEW p \in Clients, NEW q \in Clients, p # q, Holds(op[p]), Holds(op[q])
    PROVE  op[p].key # op[q].key
<1>1. p \in Writers /\ q \in Writers
  BY DEF IndInv, WritersWrite, Holds
<1>2. NodeOf[p] = NodeOf[q]
  BY <1>1 DEF OneProcess
<1>3. op[p].key \in Keys
  BY DEF IndInv, Ops
<1>4. FolderOf[op[p].key] # NoFolder
  BY <1>3 DEF OneProcess
<1>5. Exclusive
  BY DEF IndInv
<1> QED
  BY <1>2, <1>4, <1>5 DEF Exclusive

\* An entry e behind the stream s has the create revision of its key.
ChainsTo(s, e) ==
    /\ e.create => e.put /\ ~ e.delete /\ e.createRevision = 0
    /\ e.put /\ ~ e.delete /\ e.createRevision = 0 => e.create
    /\ e.createRevision # 0 =>
         /\ e.createRevision \in DOMAIN s /\ s[e.createRevision].key = e.key
         /\ s[e.createRevision].create
         /\ \A j \in DOMAIN s : e.createRevision < j /\ s[j].key = e.key => ~ s[j].create

\* Such an entry keeps the create revisions of the stream right.
LEMMA ChainGrows ==
    ASSUME NEW s, NEW t, NEW e, Grown(s, t, e), Chained(s), ChainsTo(s, e)
    PROVE  Chained(t)
<1>1. /\ \A i \in DOMAIN s : i \in DOMAIN t /\ t[i] = s[i] /\ i \in Nat /\ i <= Len(s)
      /\ \A i \in DOMAIN t : i \in DOMAIN s \/ i = Len(s) + 1
      /\ t[Len(s) + 1] = e /\ Len(s) \in Nat
  BY DEF Grown
<1>2. ASSUME NEW i \in DOMAIN t, i \in DOMAIN s
      PROVE  /\ t[i].create => t[i].put /\ ~ t[i].delete /\ t[i].createRevision = 0
             /\ t[i].put /\ ~ t[i].delete /\ t[i].createRevision = 0 => t[i].create
             /\ t[i].createRevision # 0 => CreatedAt(t, i, t[i].createRevision)
  <2>1. t[i] = s[i]
    BY <1>1, <1>2
  <2>2. ASSUME s[i].createRevision # 0 PROVE CreatedAt(t, i, s[i].createRevision)
    <3> DEFINE c == s[i].createRevision
    <3>1. CreatedAt(s, i, c)
      BY <1>2, <2>2 DEF Chained
    <3>2. c \in DOMAIN t /\ c < i /\ t[c].key = t[i].key /\ t[c].create
      BY <1>1, <2>1, <3>1 DEF CreatedAt
    <3>3. ASSUME NEW j \in DOMAIN t, c < j, j < i, t[j].key = t[i].key PROVE ~ t[j].create
      <4>1. j \in DOMAIN s /\ t[j] = s[j]
        BY <1>1, <1>2, <3>3
      <4> QED
        BY <2>1, <3>1, <3>3, <4>1 DEF CreatedAt
    <3> QED
      BY <3>2, <3>3 DEF CreatedAt
  <2> QED
    BY <1>2, <2>1, <2>2 DEF Chained
<1>3. ASSUME NEW i \in DOMAIN t, i = Len(s) + 1
      PROVE  /\ t[i].create => t[i].put /\ ~ t[i].delete /\ t[i].createRevision = 0
             /\ t[i].put /\ ~ t[i].delete /\ t[i].createRevision = 0 => t[i].create
             /\ t[i].createRevision # 0 => CreatedAt(t, i, t[i].createRevision)
  <2>1. t[i] = e
    BY <1>1, <1>3
  <2>2. ASSUME e.createRevision # 0 PROVE CreatedAt(t, i, e.createRevision)
    <3> DEFINE c == e.createRevision
    <3>1. c \in DOMAIN t /\ c < i /\ t[c].key = t[i].key /\ t[c].create
      BY <1>1, <1>3, <2>1, <2>2 DEF ChainsTo
    <3>2. ASSUME NEW j \in DOMAIN t, c < j, j < i, t[j].key = t[i].key PROVE ~ t[j].create
      <4>1. j \in DOMAIN s /\ t[j] = s[j]
        BY <1>1, <1>3, <3>2
      <4> QED
        BY <2>1, <2>2, <3>2, <4>1 DEF ChainsTo
    <3> QED
      BY <3>1, <3>2 DEF CreatedAt
  <2> QED
    BY <2>1, <2>2 DEF ChainsTo
<1> QED
  BY <1>1, <1>2, <1>3 DEF Chained

\* The newest put of a key is still that when another key is written.
LEMMA NewestPutStays ==
    ASSUME NEW s, NEW t, NEW e, Grown(s, t, e), NEW k, e.key # k, NEW i
    PROVE  /\ NewestPut(t, k, i) <=> NewestPut(s, k, i)
           /\ NewestPut(s, k, i) => t[i] = s[i]
<1>1. /\ \A j \in DOMAIN s : j \in DOMAIN t /\ t[j] = s[j]
      /\ \A j \in DOMAIN t : j \in DOMAIN s \/ j = Len(s) + 1
      /\ t[Len(s) + 1] = e
  BY DEF Grown
<1>2. ASSUME NewestPut(t, k, i) PROVE NewestPut(s, k, i)
  <2>1. i \in DOMAIN s /\ t[i] = s[i]
    BY <1>1, <1>2 DEF NewestPut
  <2> QED
    BY <1>1, <1>2, <2>1 DEF NewestPut
<1>3. ASSUME NewestPut(s, k, i) PROVE NewestPut(t, k, i) /\ t[i] = s[i]
  <2>1. i \in DOMAIN t /\ t[i] = s[i]
    BY <1>1, <1>3 DEF NewestPut
  <2>2. \A j \in DOMAIN t : j > i => t[j].key # k
    BY <1>1, <1>3 DEF NewestPut
  <2> QED
    BY <1>3, <2>1, <2>2 DEF NewestPut
<1> QED
  BY <1>2, <1>3

\* A request that e does not concern.
LEMMA OneOpStays ==
    ASSUME NEW s, NEW t, NEW e, Grown(s, t, e), NEW o, Stage(o, s), OneOp(o, s),
           e.create => ~ Holds(o) \/ e.key # o.key,
           e.key \in Plain => ~ Holds(o) \/ e.key # o.key
    PROVE  OneOp(o, t)
<1>1. /\ \A j \in DOMAIN s : j \in DOMAIN t /\ t[j] = s[j]
      /\ \A j \in DOMAIN t : j \in DOMAIN s \/ j = Len(s) + 1
      /\ t[Len(s) + 1] = e
  BY DEF Grown
<1>2. o.pc \in {"write", "mark"} => Holds(o)
  BY DEF Stage, Holds, Locks
<1>3. NotCreated(o, t)
  BY <1>1, <1>2 DEF OneOp, NotCreated
<1>4. ASSUME o.key \in Plain, o.pc \in {"write", "mark"} PROVE AsRead(o, t)
  <2>1. e.key # o.key
    BY <1>2, <1>4
  <2>2. \A i : /\ NewestPut(t, o.key, i) <=> NewestPut(s, o.key, i)
               /\ NewestPut(s, o.key, i) => t[i] = s[i]
    BY <2>1, NewestPutStays
  <2> QED
    BY <2>2 DEF OneOp, AsRead
<1>5. AsRead(o, t)
  BY <1>4 DEF OneOp, AsRead
<1> QED
  BY <1>3, <1>5 DEF OneOp

\* An entry of a plain key without a lease leaves the plain keys without.
LEMMA LeaseGrows ==
    ASSUME NEW s, NEW t, NEW e, Grown(s, t, e), Unleased(s), e.key \in Plain => ~ e.lease
    PROVE  Unleased(t)
BY DEF Grown, Unleased

\* A request moves on and nothing is stored.
LEMMA OneMoves ==
    ASSUME IndInv, OneInv, NEW p \in Clients, NEW o, op' = [op EXCEPT ![p] = o], OneOp(o, stream), NotStored
    PROVE  OneInv'
<1>1. \A q \in Clients : op'[q] = IF q = p THEN o ELSE op[q]
  BY DEF IndInv
<1> QED
  BY <1>1 DEF OneInv, NotStored

\* A request stores an entry: one that creates, or is of a plain key, is of the
\* key whose mutex it holds.
LEMMA OneStores ==
    ASSUME IndInv, OneInv, OneProcess, NEW p \in Clients, NEW o, op' = [op EXCEPT ![p] = o],
           NEW e \in Entries, Store(e), OneOp(o, stream'), ChainsTo(stream, e),
           e.key \in Plain => ~ e.lease,
           e.create \/ e.key \in Plain => Holds(op[p]) /\ e.key = op[p].key
    PROVE  OneInv'
<1>1. Grown(stream, stream', e) /\ \A q \in Clients : op'[q] = IF q = p THEN o ELSE op[q]
  BY StoreKeeps DEF IndInv
<1>2. ASSUME NEW q \in Clients PROVE OneOp(op'[q], stream')
  <2>1. CASE q = p
    BY <1>1, <2>1
  <2>2. CASE q # p
    <3>1. Holds(op[p]) /\ Holds(op[q]) => op[p].key # op[q].key
      BY <2>2, OthersKeys
    <3>2. Stage(op[q], stream) /\ OneOp(op[q], stream)
      BY DEF IndInv, OneInv
    <3>3. OneOp(op[q], stream')
      BY <1>1, <3>1, <3>2, OneOpStays
    <3> QED
      BY <1>1, <2>2, <3>3
  <2> QED
    BY <2>1, <2>2
<1>3. Chained(stream') /\ Unleased(stream')
  BY <1>1, ChainGrows, LeaseGrows DEF OneInv
<1>4. ASSUME NEW w \in Watchers PROVE watch'[w].reap \cap Plain = {}
  <2>1. watch[w] \in Watches(Len(stream)) /\ watch[w].reap \cap Plain = {}
    BY DEF IndInv, Base, OneInv
  <2>2. watch'[w].reap = watch[w].reap
    BY <2>1 DEF Store, Watches
  <2> QED
    BY <2>1, <2>2
<1> QED
  BY <1>2, <1>3, <1>4 DEF OneInv

\* What is answered needs nothing; a marker has nothing to keep.
LEMMA OneOpAnswered ==
    ASSUME NEW o, NEW a, NEW q, Answered(o, a, q), o.reap \cap Plain = {}, NEW s
    PROVE  OneOp(q, s)
BY DEF Answered, OneOp, NotCreated, AsRead

\* A request that is over claims nothing.
LEMMA OneOpIdle == \A s : OneOp(Idle, s)
<1>1. Idle.lease = FALSE
  BY DEF Idle
<1> QED
  BY <1>1, IdleIs DEF OneOp, NotCreated, AsRead

\* A marker creates nothing and has no lease.
LEMMA MarkerChains ==
    ASSUME NEW s, NEW k
    PROVE  ChainsTo(s, Marker(k)) /\ ~ Marker(k).create /\ ~ Marker(k).lease
BY DEF Marker, ChainsTo

\* The read decides on the entry that it found.
LEMMA DecideFound ==
    ASSUME NEW o \in Ops, o.kind # "list", NEW i \in Revisions
    PROVE  /\ Decide(o, i).pc = "write" => Decide(o, i).found = i /\ Decide(o, i).kind # "get"
           /\ Decide(o, i).lease => o.lease
           /\ o.kind = "update" /\ i = 0 => Decide(o, i).pc # "write"
<1>1. o.kind \in {"create", "update", "delete", "get"} /\ 0 \in Revisions
  BY Numbers DEF Ops
<1>2. /\ Writes(o, i).found = i /\ Writes(o, i).lease = o.lease /\ Writes(o, i).pc = "write"
      /\ Writes(o, i).kind = o.kind
  BY WritesIs
<1>3. \A a \in {"yes", "no"}, r \in Revisions : Answer(o, a, r).pc = "answer" /\ ~ Answer(o, a, r).lease
  <2> TAKE a \in {"yes", "no"}, r \in Revisions
  <2>1. Answered(o, a, Answer(o, a, r))
    BY AnswerIs
  <2> QED
    BY <2>1 DEF Answered
<1>4. CASE o.kind = "create"
  <2>1. Decide(o, i) = DecideCreate(o, i)
    BY <1>4 DEF Decide
  <2> QED
    BY <1>1, <1>2, <1>3, <1>4, <2>1 DEF DecideCreate
<1>5. CASE o.kind = "update"
  <2>1. Decide(o, i) = DecideUpdate(o, i)
    BY <1>5 DEF Decide
  <2> QED
    BY <1>1, <1>2, <1>3, <1>5, <2>1 DEF DecideUpdate
<1>6. CASE o.kind = "delete"
  <2>1. Decide(o, i) = DecideDelete(o, i)
    BY <1>6 DEF Decide
  <2> QED
    BY <1>1, <1>2, <1>3, <1>6, <2>1 DEF DecideDelete
<1>7. CASE o.kind = "get"
  <2>1. Decide(o, i) = Answer(o, "yes", i)
    BY <1>7 DEF Decide
  <2> QED
    BY <1>1, <1>3, <2>1
<1> QED
  BY <1>1, <1>4, <1>5, <1>6, <1>7

\* What a writer has read is the newest of its key: no other writes a plain one.
LEMMA GetOne == ASSUME IndInv, OneInv, NEW p \in Clients, get(p) PROVE OneInv'
<1> DEFINE o == op[p]
           i == IF Shown(o, Looked(o)) THEN Looked(o) ELSE 0
           d == Decide(o, i)
           x == [o EXCEPT !.pc = "expire"]
           q == IF Shown(o, Looked(o)) /\ Expired(Looked(o)) THEN x ELSE d
<1>1. /\ o \in Ops /\ o.pc = "read" /\ o.kind # "list" /\ Base
      /\ op' = [op EXCEPT ![p] = q] /\ NotStored /\ OneOp(o, stream)
  BY DEF IndInv, OneInv, get, Looked, Shown, NotStored
<1>2. o.result = 0
  BY <1>1 DEF IndInv, Stage
<1>3. Given(o, i) /\ Looked(o) \in 0..Len(stream) /\ (Looked(o) # 0 => stream[Looked(o)].key = o.key)
  BY <1>1, LookedIs
<1>4. Decided(o, d) /\ i \in Revisions
  BY <1>1, <1>2, <1>3, DecideIs, EntryIs, Numbers DEF Given
<1>5. /\ d.pc = "write" => d.found = i /\ d.kind # "get" /\ (d.kind = "update" => i # 0)
      /\ d.lease => o.lease
  BY <1>1, <1>4, DecideFound DEF Decided
<1> HIDE DEF d
<1>6. ASSUME d.pc = "write" PROVE i = KvGet(o.key)
  <2>1. d.kind = o.kind
    BY <1>4 DEF Decided
  <2>2. Looked(o) = KvGet(o.key) /\ o.kind \in {"create", "update", "delete"}
    BY <1>1, <1>5, <1>6, <2>1 DEF Looked, Ops
  <2>3. CASE o.kind = "update"
    BY <1>5, <1>6, <2>1, <2>2, <2>3
  <2>4. CASE o.kind # "update"
    BY <2>2, <2>4 DEF Shown
  <2> QED
    BY <2>3, <2>4
<1>7. GetSpec(stream, o.key, KvGet(o.key))
  BY <1>1, KvGetIs DEF Base
<1> HIDE DEF i
<1>8. OneOp(d, stream)
  <2>1. /\ d.kind = o.kind /\ d.key = o.key /\ d.reap = o.reap /\ d.pc \in {"answer", "write"}
        /\ Stage(d, stream)
    BY <1>4 DEF Decided
  <2>2. NotCreated(d, stream)
    <3>1. ASSUME d.pc = "write", d.kind # "create", NEW j \in DOMAIN stream, j > d.found,
                 stream[j].key = d.key
          PROVE  FALSE
      <4>1. d.found # 0 /\ d.found = KvGet(o.key)
        BY <1>5, <1>6, <2>1, <3>1 DEF Stage
      <4> QED
        BY <1>7, <2>1, <3>1, <4>1 DEF GetSpec, NewestPut
    <3> QED
      BY <3>1 DEF NotCreated
  <2>3. AsRead(d, stream)
    <3>1. d.key \in Plain => ~ d.lease
      BY <1>1, <1>5, <2>1 DEF OneOp, AsRead
    <3>2. d.pc = "write" => d.found = KvGet(o.key)
      BY <1>5, <1>6
    <3> QED
      BY <1>7, <2>1, <3>1, <3>2 DEF AsRead, GetSpec
  <2> QED
    BY <1>1, <2>1, <2>2, <2>3 DEF OneOp
<1>9. ASSUME Shown(o, Looked(o)), Expired(Looked(o)) PROVE OneOp(x, stream)
  <2>1. x.key = o.key /\ x.reap = o.reap /\ x.pc = "expire" /\ x.lease = o.lease
    BY <1>1 DEF Ops
  <2>2. Looked(o) \in DOMAIN stream /\ stream[Looked(o)].key = o.key /\ stream[Looked(o)].lease
    BY <1>1, <1>3, <1>9, EntryIs DEF Shown, Expired
  <2>3. o.key \notin Plain
    BY <2>2 DEF OneInv, Unleased
  <2> QED
    BY <1>1, <2>1, <2>3 DEF OneOp, NotCreated, AsRead
<1>10. OneOp(q, stream)
  BY <1>8, <1>9
<1> HIDE DEF q
<1> QED
  BY <1>1, <1>10, OneMoves

\* A reader or a writer removes a key whose lease is over, and no plain one.
LEMMA IsKeyExpiredOne ==
    ASSUME IndInv, OneInv, OneProcess, NEW p \in Clients, isKeyExpired(p)
    PROVE  OneInv'
<1> DEFINE o == op[p]
           q == Decide(o, 0)
           e == Marker(o.key)
<1>1. /\ o \in Ops /\ o.pc = "expire" /\ Base /\ op' = [op EXCEPT ![p] = q]
      /\ Store(e) \/ NotStored
      /\ OneOp(o, stream)
  BY DEF IndInv, OneInv, isKeyExpired
<1>2. o.result = 0 /\ o.kind # "list" /\ o.key \in Keys /\ 0 \in Revisions
  BY <1>1, Numbers DEF IndInv, Stage, Ops
<1>3. Given(o, 0)
  BY <1>1 DEF Given, Base
<1>4. Decided(o, q) /\ (q.pc = "write" => q.found = 0)
  BY <1>1, <1>2, <1>3, DecideIs, DecideFound
<1> HIDE DEF q
<1>5. o.key \notin Plain /\ o.reap \cap Plain = {}
  BY <1>1 DEF OneInv, OneOp, AsRead
<1>6. \A s : OneOp(q, s)
  <2>1. q.pc = "write" => q.kind = "create"
    BY <1>4 DEF Decided, Stage
  <2> QED
    BY <1>4, <1>5, <2>1 DEF Decided, OneOp, NotCreated, AsRead
<1>7. CASE NotStored
  BY <1>1, <1>6, <1>7, OneMoves
<1>8. CASE Store(e)
  <2>1. e \in Entries /\ e.key = o.key
    BY <1>2, MarkerIs DEF Marker
  <2>2. ChainsTo(stream, e) /\ ~ e.create /\ ~ e.lease
    BY MarkerChains
  <2> HIDE DEF e
  <2> QED
    BY <1>1, <1>5, <1>6, <1>8, <2>1, <2>2, OneStores
<1> QED
  BY <1>1, <1>7, <1>8

\* What a writer writes continues the chain of its key.
LEMMA ValueChains ==
    ASSUME Base, NEW o \in Ops, o.pc = "write", Stage(o, stream), OneOp(o, stream),
           Chained(stream), Unleased(stream)
    PROVE  ChainsTo(stream, Value(o)) /\ (o.key \in Plain => ~ Value(o).lease)
<1> DEFINE e == Value(o)
           f == stream[o.found]
<1>1. /\ e.key = o.key /\ e.put /\ (e.create <=> o.kind = "create") /\ (e.delete <=> o.kind = "delete")
      /\ e.createRevision = CreateRevision(o)
      /\ e.lease = IF o.kind = "delete" THEN f.lease ELSE o.lease
  BY ValueIs
<1> HIDE DEF e
<1>2. o.kind \in {"create", "update", "delete"}
  BY DEF Stage, Locks
<1>3. o.kind # "create" =>
        /\ o.found \in DOMAIN stream /\ o.found # 0 /\ f.key = o.key /\ f.put /\ ~ f.delete
        /\ \A j \in DOMAIN stream : j > o.found /\ stream[j].key = o.key => ~ stream[j].create
  BY DEF Stage, OneOp, NotCreated
<1>4. DOMAIN stream = 1..Len(stream) /\ Len(stream) \in Nat
  BY EntryIs
<1>5. ASSUME o.kind = "create" PROVE ChainsTo(stream, e)
  <2>1. e.createRevision = 0 /\ e.create /\ ~ e.delete
    BY <1>1, <1>5 DEF CreateRevision
  <2> QED
    BY <1>1, <2>1 DEF ChainsTo
<1>6. ASSUME o.kind # "create", f.createRevision # 0 PROVE ChainsTo(stream, e)
  <2> DEFINE c == f.createRevision
  <2>1. e.createRevision = c /\ ~ e.create
    BY <1>1, <1>2, <1>6 DEF CreateRevision
  <2>2. CreatedAt(stream, o.found, c) /\ ~ f.create
    BY <1>3, <1>6 DEF Chained
  <2>3. c \in DOMAIN stream /\ stream[c].key = o.key /\ stream[c].create
    BY <1>3, <1>6, <2>2 DEF CreatedAt
  <2>4. ASSUME NEW j \in DOMAIN stream, c < j, stream[j].key = o.key PROVE ~ stream[j].create
    <3>1. j < o.found \/ j = o.found \/ j > o.found
      BY <1>3, <1>4, <1>6
    <3> QED
      BY <1>3, <1>6, <2>2, <2>4, <3>1 DEF CreatedAt
  <2>5. c # 0
    BY <1>6
  <2> HIDE DEF c
  <2> QED
    BY <1>1, <2>1, <2>3, <2>4, <2>5 DEF ChainsTo
<1>7. ASSUME o.kind = "update", f.createRevision = 0 PROVE ChainsTo(stream, e)
  <2>1. e.createRevision = o.found /\ ~ e.create /\ o.found # 0
    BY <1>1, <1>3, <1>7 DEF CreateRevision
  <2>2. f.create
    BY <1>3, <1>7 DEF Chained
  <2> QED
    BY <1>1, <1>3, <1>7, <2>1, <2>2 DEF ChainsTo
<1>8. ASSUME o.kind = "delete", f.createRevision = 0 PROVE ChainsTo(stream, e)
  BY <1>1, <1>8 DEF CreateRevision, ChainsTo
<1>9. o.key \in Plain => ~ e.lease
  BY <1>1, <1>2, <1>3 DEF OneOp, AsRead, Unleased
<1> QED
  BY <1>2, <1>5, <1>6, <1>7, <1>8, <1>9 DEF e

\* A writer passes on the create revision, and after a tombstone the key is
\* deleted.
LEMMA WriteOne == ASSUME IndInv, OneInv, OneProcess, NEW p \in Clients, write(p) PROVE OneInv'
<1> DEFINE o == op[p]
           e == Value(o)
           q == IF o.kind = "delete" THEN [o EXCEPT !.pc = "mark"] ELSE Answer(o, "yes", Len(stream) + 1)
<1>1. /\ o \in Ops /\ o.pc = "write" /\ Base /\ Stage(o, stream) /\ op' = [op EXCEPT ![p] = q]
      /\ Store(e) /\ OneOp(o, stream) /\ Chained(stream) /\ Unleased(stream)
  BY DEF IndInv, OneInv, write
<1>2. e \in Entries /\ e.key = o.key /\ e.put /\ (e.delete <=> o.kind = "delete")
  BY <1>1, ValueIs
<1>3. ChainsTo(stream, e) /\ (o.key \in Plain => ~ e.lease) /\ Holds(o)
  BY <1>1, ValueChains DEF Stage, Holds
<1> HIDE DEF e
<1>4. Grown(stream, stream', e) /\ Len(stream) < MaxSeq
  BY <1>1, <1>2, StoreKeeps
<1>5. Len(stream) + 1 \in Revisions
  BY <1>1, <1>4, EntryIs, Numbers
<1>6. ASSUME o.kind = "delete" PROVE OneOp(q, stream')
  <2>1. /\ q.pc = "mark" /\ q.kind = "delete" /\ q.key = o.key /\ q.lease = o.lease /\ q.reap = o.reap
    BY <1>1, <1>6 DEF Ops
  <2> HIDE DEF q
  <2>2. ASSUME NEW i \in Nat, NewestPut(stream', o.key, i) PROVE stream'[i].delete
    <3>1. /\ DOMAIN stream' = 1..(Len(stream) + 1) /\ Len(stream) \in Nat
          /\ stream'[Len(stream) + 1] = e
      BY <1>4 DEF Grown
    <3>2. i = Len(stream) + 1
      BY <1>2, <2>2, <3>1 DEF NewestPut
    <3> QED
      BY <1>2, <1>6, <3>1, <3>2
  <2> QED
    BY <1>1, <2>1, <2>2 DEF OneOp, NotCreated, AsRead
<1>7. ASSUME o.kind # "delete" PROVE OneOp(q, stream')
  <2>1. Answered(o, "yes", q)
    BY <1>1, <1>5, <1>7, AnswerIs
  <2> HIDE DEF q
  <2> QED
    BY <1>1, <2>1, OneOpAnswered DEF OneOp
<1> HIDE DEF q
<1> QED
  BY <1>1, <1>2, <1>3, <1>6, <1>7, OneStores

\* A write that fails passes it on as well, if it is stored.
LEMMA WriteFailsOne == ASSUME IndInv, OneInv, OneProcess, NEW p \in Clients, writeFails(p) PROVE OneInv'
<1> DEFINE o == op[p]
           e == Value(o)
           a == IF o.kind = "delete" THEN "no" ELSE "error"
           q == Answer(o, a, 0)
<1>1. /\ o \in Ops /\ o.pc = "write" /\ Base /\ Stage(o, stream) /\ op' = [op EXCEPT ![p] = q]
      /\ NotStored \/ Store(e)
  BY DEF IndInv, writeFails
<1>2. OneOp(o, stream) /\ Chained(stream) /\ Unleased(stream)
  BY DEF OneInv
<1>3. Answered(o, a, q)
  BY <1>1, AnswerIs, Numbers
<1> HIDE DEF q
<1>4. \A s : OneOp(q, s)
  BY <1>2, <1>3, OneOpAnswered DEF OneOp
<1>5. e \in Entries /\ e.key = o.key
  BY <1>1, ValueIs
<1>6. ChainsTo(stream, e) /\ (o.key \in Plain => ~ e.lease) /\ Holds(o)
  BY <1>1, <1>2, ValueChains DEF Stage, Holds
<1> HIDE DEF e
<1> QED
  BY <1>1, <1>4, <1>5, <1>6, OneMoves, OneStores

\* The marker of Delete creates nothing.
LEMMA MarkOne == ASSUME IndInv, OneInv, OneProcess, NEW p \in Clients, mark(p) PROVE OneInv'
<1> DEFINE o == op[p]
           e == Marker(o.key)
<1>1. /\ o \in Ops /\ o.pc = "mark" /\ o.kind = "delete" /\ o.key \in Keys
      /\ Store(e) \/ NotStored
  BY DEF IndInv, mark, Stage, Ops
<1>2. PICK a \in {"yes", "no"} : op' = [op EXCEPT ![p] = Answer(o, a, 0)]
  BY DEF mark
<1> DEFINE q == Answer(o, a, 0)
<1>3. Answered(o, a, q)
  BY <1>1, <1>2, AnswerIs, Numbers
<1>4. op' = [op EXCEPT ![p] = q]
  BY <1>2
<1> HIDE DEF q
<1>5. \A s : OneOp(q, s)
  BY <1>3, OneOpAnswered DEF OneInv, OneOp
<1>6. e \in Entries /\ e.key = o.key /\ ChainsTo(stream, e) /\ ~ e.create /\ ~ e.lease
  BY <1>1, MarkerIs, MarkerChains DEF Marker
<1>7. Holds(o)
  BY <1>1 DEF Holds, Locks
<1> HIDE DEF e
<1> QED
  BY <1>1, <1>4, <1>5, <1>6, <1>7, OneMoves, OneStores

\* A request starts: a plain key is written without a lease.
LEMMA CallOne ==
    ASSUME IndInv, OneInv, NEW p \in Clients, NEW kind \in {"create", "update", "delete", "get", "list"},
           NEW k \in Keys, NEW r, NEW lease \in BOOLEAN, Call(p, kind, k, r, lease), lease => k \notin Plain
    PROVE  OneInv'
<1> DEFINE o == [Idle EXCEPT !.pc = "read", !.kind = kind, !.key = k, !.revision = r, !.lease = lease]
<1>1. op' = [op EXCEPT ![p] = o] /\ NotStored
  BY DEF Call, NotStored
<1>2. o.pc = "read" /\ o.key = k /\ o.lease = lease /\ o.reap = {}
  BY DEF Idle
<1> HIDE DEF o
<1>3. OneOp(o, stream)
  BY <1>2 DEF OneOp, NotCreated, AsRead
<1> QED
  BY <1>1, <1>3, OneMoves

\* Requests write plain keys without a lease.
LEMMA CallsOne == ASSUME IndInv, OneInv, Calls PROVE OneInv'
<1>1. \A p \in Writers : p \in Clients
  BY DEF Clients
<1>2. \A p \in Readers : p \in Clients
  BY DEF Clients
<1>3. CASE \E p \in Writers, k \in Keys :
             \/ Call(p, "create", k, 0, k \notin Plain)
             \/ \E r \in Of(k) : Call(p, "update", k, r, k \notin Plain)
             \/ \E r \in Of(k) \cup {0} : Call(p, "delete", k, r, FALSE)
  <2>1. PICK p \in Writers, k \in Keys :
             \/ Call(p, "create", k, 0, k \notin Plain)
             \/ \E r \in Of(k) : Call(p, "update", k, r, k \notin Plain)
             \/ \E r \in Of(k) \cup {0} : Call(p, "delete", k, r, FALSE)
    BY <1>3
  <2> QED
    BY <1>1, <2>1, CallOne
<1>4. CASE \E p \in Readers, k \in Keys :
             \/ \E r \in {0, Newest(Of(k))} : Call(p, "get", k, r, FALSE)
             \/ k = Idle.key /\ \E r \in {0, currentRevision} : Call(p, "list", k, r, FALSE)
  <2>1. PICK p \in Readers, k \in Keys :
             \E r : Call(p, "get", k, r, FALSE) \/ Call(p, "list", k, r, FALSE)
    BY <1>4
  <2> QED
    BY <1>2, <2>1, CallOne
<1> QED
  BY <1>3, <1>4 DEF Calls

\* The end of a request keeps the invariant.
LEMMA IdleOne ==
    ASSUME IndInv, OneInv, NEW p \in Clients, op' = [op EXCEPT ![p] = Idle], UNCHANGED <<stream, over, watch>>
    PROVE  OneInv'
BY OneOpIdle, OneMoves DEF NotStored

\* The steps of a list: only keys whose lease is over are removed.
LEMMA ListOne ==
    ASSUME IndInv, OneInv, NEW p \in Clients, ListRevision(p) \/ ListRead(p) \/ ListDone(p)
    PROVE  OneInv'
<1> DEFINE o == op[p]
<1>1. o \in Ops /\ Base /\ NotStored /\ OneOp(o, stream) /\ Stage(o, stream)
  BY DEF IndInv, OneInv, ListRevision, ListRead, ListDone, NotStored
<1>2. CASE ListRevision(p)
  <2> DEFINE q == [o EXCEPT !.pc = "snap", !.result = IF o.revision = 0 THEN currentRevision ELSE o.revision]
  <2>1. op' = [op EXCEPT ![p] = q]
    BY <1>1, <1>2 DEF ListRevision, IndInv
  <2>2. q.pc = "snap" /\ q.key = o.key /\ q.lease = o.lease /\ q.reap = o.reap
    BY <1>1 DEF Ops
  <2> HIDE DEF q
  <2>3. OneOp(q, stream)
    BY <1>1, <2>2 DEF OneOp, NotCreated, AsRead
  <2> QED
    BY <1>1, <2>1, <2>3, OneMoves
<1>3. ASSUME o.pc = "snap", op' = [op EXCEPT ![p] = ListPresent(o)] PROVE OneInv'
  <2> DEFINE q == ListPresent(o)
             R == {stream[i].key : i \in {j \in LastPerKey : Expired(j)}}
  <2>1. q.pc = "sweep" /\ q.key = o.key /\ q.lease = o.lease /\ q.reap = R
    BY <1>1 DEF Ops, ListPresent
  <2>2. \A i \in LastPerKey : i \in DOMAIN stream
    <3>1. \A k : KvGet(k) \in 0..Len(stream)
      BY <1>1, KvGetIs DEF GetSpec, Base
    <3> QED
      BY <1>1, <3>1, EntryIs DEF LastPerKey
  <2>3. R \cap Plain = {}
    BY <2>2 DEF Expired, OneInv, Unleased
  <2> HIDE DEF q, R
  <2>4. OneOp(q, stream)
    BY <1>1, <2>1, <2>3 DEF OneOp, NotCreated, AsRead
  <2> QED
    BY <1>1, <1>3, <2>4, OneMoves DEF q
<1>4. ASSUME o.pc = "snap", NEW K, op' = [op EXCEPT ![p] = ListPast(o, K)] PROVE OneInv'
  <2> DEFINE q == ListPast(o, K)
  <2>1. q.pc = "answer" /\ q.key = o.key /\ q.lease = o.lease /\ q.reap = o.reap
    BY <1>1 DEF Ops, ListPast
  <2> HIDE DEF q
  <2>2. OneOp(q, stream)
    BY <1>1, <2>1 DEF OneOp, NotCreated, AsRead
  <2> QED
    BY <1>1, <1>4, <2>2, OneMoves DEF q
<1>5. CASE ListRead(p)
  BY <1>3, <1>4, <1>5 DEF ListRead
<1>6. CASE ListDone(p)
  <2> DEFINE q == Answer(o, "yes", o.result)
  <2>1. op' = [op EXCEPT ![p] = q] /\ o.result \in Revisions
    BY <1>1, <1>6 DEF ListDone, Stamped, Ops
  <2>2. Answered(o, "yes", q)
    BY <1>1, <2>1, AnswerIs
  <2> HIDE DEF q
  <2>3. OneOp(q, stream)
    BY <1>1, <2>2, OneOpAnswered DEF OneOp
  <2> QED
    BY <1>1, <2>1, <2>3, OneMoves
<1> QED
  BY <1>2, <1>5, <1>6

\* A list removes no plain key.
LEMMA ListExpireOne == ASSUME IndInv, OneInv, OneProcess, NEW p \in Clients, ListExpire(p) PROVE OneInv'
<1> DEFINE o == op[p]
<1>1. o \in Ops /\ OneOp(o, stream) /\ o.pc = "sweep"
  BY DEF IndInv, OneInv, ListExpire
<1>2. PICK k \in o.reap : /\ Store(Marker(k)) \/ NotStored
                          /\ op' = [op EXCEPT ![p] = [o EXCEPT !.reap = @ \ {k}]]
  BY <1>1 DEF ListExpire
<1> DEFINE q == [o EXCEPT !.reap = @ \ {k}]
           e == Marker(k)
<1>3. k \in Keys /\ k \notin Plain
  BY <1>1 DEF Ops, OneOp
<1>4. q.pc = "sweep" /\ q.key = o.key /\ q.lease = o.lease /\ q.reap = o.reap \ {k}
  BY <1>1 DEF Ops
<1>5. op' = [op EXCEPT ![p] = q]
  BY <1>2
<1> HIDE DEF q
<1>6. \A s : OneOp(q, s)
  BY <1>1, <1>4 DEF OneOp, NotCreated, AsRead
<1>7. e \in Entries /\ e.key = k /\ ChainsTo(stream, e) /\ ~ e.create /\ ~ e.lease
  BY <1>3, MarkerIs, MarkerChains DEF Marker
<1>8. Store(e) \/ NotStored
  BY <1>2
<1> HIDE DEF e
<1> QED
  BY <1>3, <1>5, <1>6, <1>7, <1>8, OneMoves, OneStores

\* The keys whose previous value has expired are not plain.
LEMMA ReapOne == ASSUME Base, OneInv, NEW S \in SUBSET DOMAIN stream PROVE Reap(S) \cap Plain = {}
<1>1. ASSUME NEW i \in S, PrevExpired(i) PROVE stream[i].key \notin Plain
  <2> DEFINE e == stream[i]
             j == IF e.prev = 0 THEN KvGet(e.key) ELSE KvGetRevision(e.key, e.prev)
  <2>1. j # 0 /\ Expired(j)
    BY <1>1 DEF PrevExpired
  <2>2. GetSpec(stream, e.key, KvGet(e.key))
    BY KvGetIs DEF Base
  <2>3. j \in 0..Len(stream) /\ stream[j].key = e.key
    BY <2>1, <2>2, KvGetRevisionIs DEF GetSpec, NewestPut
  <2> HIDE DEF j
  <2>4. j \in DOMAIN stream /\ stream[j].lease
    BY <2>1, <2>3, EntryIs DEF Expired
  <2> QED
    BY <2>3, <2>4 DEF OneInv, Unleased
<1> QED
  BY <1>1 DEF Reap

\* Watches remove only keys that are not plain.
LEMMA WatchOne ==
    ASSUME IndInv, OneInv, NEW w \in Watchers,
           \/ \E r \in {0, currentRevision + 1} : WatchStart(w, r)
           \/ listAfter(w) \/ listAfterFails(w) \/ WatchNext(w) \/ WatchCancel(w)
    PROVE  OneInv'
<1>1. /\ UNCHANGED <<stream, over, op>> /\ Base /\ watch \in [Watchers -> Watches(Len(stream))]
      /\ \A v \in Watchers : watch[v].reap \cap Plain = {}
  BY DEF IndInv, OneInv, Base, WatchStart, listAfter, listAfterFails, WatchNext, WatchCancel
<1>2. \A v \in Watchers : v # w => watch'[v] = watch[v]
  BY <1>1 DEF WatchStart, listAfter, listAfterFails, WatchNext, WatchCancel
<1>3. watch'[w].reap \cap Plain = {}
  <2>1. CASE \E r \in {0, currentRevision + 1} : WatchStart(w, r)
    <3>1. watch'[w].reap = Off.reap
      BY <1>1, <2>1 DEF WatchStart, Off
    <3> QED
      BY <3>1, OffIs
  <2>2. CASE listAfter(w)
    <3> DEFINE S == {i \in LastPerKey : i > watch[w].revision}
    <3>1. S \in SUBSET DOMAIN stream
      <4>1. \A k : KvGet(k) \in 0..Len(stream)
        BY <1>1, KvGetIs DEF GetSpec, Base
      <4> QED
        BY <1>1, <4>1, EntryIs DEF LastPerKey
    <3>2. watch'[w].reap = Reap(S)
      BY <1>1, <2>2 DEF listAfter, Watches
    <3> HIDE DEF S
    <3> QED
      BY <1>1, <3>1, <3>2, ReapOne
  <2>3. CASE listAfterFails(w)
    BY <1>1, <2>3 DEF listAfterFails, Watches
  <2>4. CASE WatchNext(w)
    <3> DEFINE i == Min(watch[w].todo)
    <3>1. i \in DOMAIN stream
      <4>1. watch[w].todo \in SUBSET (1..Len(stream)) /\ watch[w].todo \in SUBSET Nat /\ watch[w].todo # {}
        BY <1>1, <2>4 DEF Watches, WatchNext
      <4>2. \E x \in watch[w].todo : \A y \in watch[w].todo : x <= y
        BY <4>1, NatMin
      <4>3. i \in watch[w].todo
        BY <4>2 DEF Min
      <4> QED
        BY <1>1, <4>1, <4>3, EntryIs
    <3>2. watch'[w].reap = Reap({i}) \/ watch'[w].reap = {}
      BY <1>1, <2>4 DEF WatchNext, Watches
    <3> HIDE DEF i
    <3>3. {i} \in SUBSET DOMAIN stream
      BY <3>1
    <3> QED
      BY <1>1, <3>2, <3>3, ReapOne
  <2>5. CASE WatchCancel(w)
    BY <1>1, <2>5, OffIs DEF WatchCancel
  <2> QED
    BY <2>1, <2>2, <2>3, <2>4, <2>5
<1> QED
  BY <1>1, <1>2, <1>3 DEF OneInv

\* A watch removes no plain key.
LEMMA WatchExpireOne == ASSUME IndInv, OneInv, NEW w \in Watchers, WatchExpire(w) PROVE OneInv'
<1>1. PICK k \in watch[w].reap :
        /\ stream' \in {stream} \cup (IF Len(stream) < MaxSeq THEN {Append(stream, Marker(k))} ELSE {})
        /\ watch' = [watch EXCEPT ![w].reap = @ \ {k}] /\ UNCHANGED <<over, op>>
  BY DEF WatchExpire
<1>2. Base /\ watch \in [Watchers -> Watches(Len(stream))] /\ watch[w].reap \cap Plain = {}
  BY DEF IndInv, OneInv, Base
<1>3. k \in Keys /\ k \notin Plain
  BY <1>2 DEF Watches
<1>4. ASSUME NEW v \in Watchers PROVE watch'[v].reap \cap Plain = {}
  <2>1. watch'[v].reap = watch[v].reap \/ watch'[v].reap = watch[v].reap \ {k}
    BY <1>1, <1>2 DEF Watches
  <2> QED
    BY <2>1 DEF OneInv
<1>5. CASE stream' = stream
  BY <1>1, <1>4, <1>5 DEF OneInv
<1>6. CASE stream' = Append(stream, Marker(k))
  <2> DEFINE e == Marker(k)
  <2>1. e \in Entries /\ e.key = k /\ ChainsTo(stream, e) /\ ~ e.create /\ ~ e.lease
    BY <1>3, MarkerIs, MarkerChains DEF Marker
  <2>2. Grown(stream, stream', e)
    BY <1>2, <1>6, <2>1, AppendGrows DEF Base
  <2> HIDE DEF e
  <2>3. Chained(stream') /\ Unleased(stream')
    BY <2>1, <2>2, ChainGrows, LeaseGrows DEF OneInv
  <2>4. ASSUME NEW p \in Clients PROVE OneOp(op[p], stream')
    <3>1. Stage(op[p], stream) /\ OneOp(op[p], stream)
      BY DEF IndInv, OneInv
    <3> QED
      BY <1>3, <2>1, <2>2, <3>1, OneOpStays
  <2> QED
    BY <1>1, <1>4, <2>3, <2>4 DEF OneInv
<1> QED
  BY <1>1, <1>5, <1>6

\* The ends of leases and of processes keep the invariant.
LEMMA RestOne ==
    ASSUME IndInv, OneInv, (\E i \in DOMAIN stream : LeaseOver(i)) \/ (\E n \in Nodes : Crash(n))
    PROVE  OneInv'
<1>1. UNCHANGED <<stream, watch>> /\ \A p \in Clients : op'[p] = op[p] \/ op'[p] = Idle
  BY DEF LeaseOver, Crash
<1> QED
  BY <1>1, OneOpIdle DEF OneInv

\* It holds of a sound bucket,
LEMMA InitOne == ASSUME Init, SoundBucket PROVE OneInv
<1>1. stream = Bucket /\ (\A p \in Clients : op[p] = Idle) /\ (\A w \in Watchers : watch[w] = Off)
  BY DEF Init
<1> QED
  BY <1>1, OneOpIdle, OffIs DEF OneInv, SoundBucket

\* every step keeps it,
LEMMA NextOne == ASSUME IndInv, OneInv, OneProcess, [Next]_vars PROVE OneInv'
<1>1. CASE UNCHANGED vars
  BY <1>1 DEF vars, OneInv
<1>2. CASE Calls
  BY <1>2, CallsOne
<1>3. ASSUME NEW p \in Clients,
             \/ get(p) \/ isKeyExpired(p) \/ write(p) \/ writeFails(p)
             \/ mark(p) \/ Fails(p) \/ Return(p)
             \/ ListRevision(p) \/ ListRead(p) \/ ListExpire(p) \/ ListDone(p)
      PROVE  OneInv'
  <2>1. CASE Fails(p) \/ Return(p)
    BY <2>1, IdleOne DEF Fails, Return
  <2> QED
    BY <1>3, <2>1, GetOne, IsKeyExpiredOne, WriteOne, WriteFailsOne, MarkOne, ListOne, ListExpireOne
<1>4. ASSUME NEW w \in Watchers,
             \/ \E r \in {0, currentRevision + 1} : WatchStart(w, r)
             \/ listAfter(w) \/ listAfterFails(w) \/ WatchNext(w) \/ WatchExpire(w) \/ WatchCancel(w)
      PROVE  OneInv'
  BY <1>4, WatchOne, WatchExpireOne
<1>5. CASE (\E i \in DOMAIN stream : LeaseOver(i)) \/ (\E n \in Nodes : Crash(n))
  BY <1>5, RestOne
<1> QED
  BY <1>1, <1>2, <1>3, <1>4, <1>5 DEF Next

\* and it always holds.
LEMMA AlwaysOneInv ==
    ASSUME OneProcess, SoundBucket
    PROVE  Spec => [](IndInv /\ OneInv)
<1>1. Init => IndInv /\ OneInv
  BY InitIndInv, InitOne
<1>2. IndInv /\ OneInv /\ [Next]_vars => (IndInv /\ OneInv)'
  BY NextIndInv, NextOne
<1> QED
  BY <1>1, <1>2, PTL DEF Spec

\* When one process writes, keys that have a folder pass on the revision of
\* their newest creation, through any number of updates, deletions and
\* recreations, failed writes, crashes and readers that remove expired keys.
THEOREM CreateRevisionsAreCreates ==
    ASSUME OneProcess, SoundBucket
    PROVE  Spec => []CreateRevisionIsCreate
<1>1. ASSUME IndInv, OneInv PROVE CreateRevisionIsCreate
  <2> SUFFICES ASSUME NEW i \in DOMAIN stream, stream[i].createRevision # 0
               PROVE  stream[i].createRevision =
                        Newest({j \in Of(stream[i].key) : j < i /\ stream[j].create})
    BY DEF CreateRevisionIsCreate
  <2> DEFINE c == stream[i].createRevision
             S == {j \in Of(stream[i].key) : j < i /\ stream[j].create}
  <2>1. CreatedAt(stream, i, c)
    BY <1>1 DEF OneInv, Chained
  <2>2. DOMAIN stream = 1..Len(stream) /\ Len(stream) \in Nat
    BY <1>1, EntryIs DEF IndInv
  <2>3. S \in SUBSET (0..Len(stream))
    BY <2>2 DEF Of
  <2>4. c \in S /\ c \in Nat
    BY <2>1, <2>2 DEF CreatedAt, Of
  <2>5. ASSUME NEW j \in S PROVE j <= c
    <3>1. j \in DOMAIN stream /\ stream[j].key = stream[i].key /\ j < i /\ stream[j].create
      BY DEF Of
    <3>2. ~ (c < j)
      BY <2>1, <3>1 DEF CreatedAt
    <3> QED
      BY <2>2, <2>4, <3>1, <3>2
  <2> HIDE DEF S, c
  <2>6. /\ Newest(S) \in 0..Len(stream) /\ Newest(S) \in S \cup {0}
        /\ \A y \in S : y <= Newest(S)
    BY <2>2, <2>3, NewestIs
  <2>7. c <= Newest(S) /\ Newest(S) <= c
    BY <2>4, <2>5, <2>6
  <2>8. c = Newest(S)
    BY <2>4, <2>6, <2>7
  <2> QED
    BY <2>8 DEF S, c
<1>2. IndInv /\ OneInv => CreateRevisionIsCreate
  BY <1>1
<1>3. Spec => [](IndInv /\ OneInv)
  BY AlwaysOneInv
<1> QED
  BY <1>2, <1>3, PTL

-----------------------------------------------------------------------------
(* One process: the plain keys are an atomic store.                         *)

\* Stored and Request as functions of a stream and of a request.
At(s, k) == LET i == GetOf(s, k) IN IF i # 0 /\ s[i].put /\ ~ s[i].delete THEN i ELSE 0

Visible(o) == o.pc # "idle" /\ o.key \in Plain /\ o.kind # "list" /\ (o.kind = "get" => o.revision = 0)

Called(o) == [pc |-> "called", kind |-> o.kind, key |-> o.key, revision |-> o.revision]

Done(o, answer, result) ==
    [pc |-> "done", kind |-> o.kind, key |-> o.key, answer |-> answer, result |-> result]

Seen(o) ==
    IF ~ Visible(o) THEN KV!NoCall
    ELSE IF o.pc \in {"mark", "answer"} THEN Done(o, IF o.pc = "mark" THEN "yes" ELSE o.answer, o.result)
    ELSE Called(o)

\* The refinement mapping, as functions of the stream and of the requests.
LEMMA Mapping ==
    /\ Stored = [k \in Plain |-> At(stream, k)]
    /\ Requested = [p \in Clients |-> Seen(op[p])]
<1>1. Stored = [k \in Plain |-> At(stream, k)]
  <2>1. \A k : KvGet(k) = GetOf(stream, k)
    BY DEF KvGet, GetOf, Of
  <2> QED
    BY <2>1 DEF Stored, At, Live, Put
<1>2. ASSUME NEW p \in Clients PROVE Request(p) = Seen(op[p])
  BY DEF Request, Seen, Visible, Called, Done, KV!NoCall
<1> QED
  BY <1>1, <1>2 DEF Requested

\* The same after a step.
LEMMA MappingNext ==
    /\ Stored' = [k \in Plain |-> At(stream', k)]
    /\ Requested' = [p \in Clients |-> Seen(op'[p])]
<1>1. Stored' = [k \in Plain |-> At(stream', k)]
  <2>1. \A k : KvGet(k)' = GetOf(stream', k)
    BY DEF KvGet, GetOf, Of
  <2> QED
    BY <2>1 DEF Stored, At, Live, Put
<1>2. ASSUME NEW p \in Clients PROVE Request(p)' = Seen(op'[p])
  BY DEF Request, Seen, Visible, Called, Done, KV!NoCall
<1> QED
  BY <1>1, <1>2 DEF Requested

\* The value of a key is its newest put, if that is no tombstone.
LEMMA AtIs ==
    ASSUME NEW s \in Seq(Entries), NEW k
    PROVE  /\ At(s, k) \in 0..Len(s)
           /\ At(s, k) # 0 => NewestPut(s, k, At(s, k)) /\ ~ s[At(s, k)].delete
           /\ \A i \in Nat : NewestPut(s, k, i) => At(s, k) = IF s[i].delete THEN 0 ELSE i
           /\ (\A i \in Nat : ~ NewestPut(s, k, i)) => At(s, k) = 0
<1> DEFINE g == GetOf(s, k)
<1>1. GetSpec(s, k, g)
  BY GetOfIs
<1>2. At(s, k) = IF g # 0 /\ s[g].put /\ ~ s[g].delete THEN g ELSE 0
  BY DEF At
<1>3. Len(s) \in Nat /\ DOMAIN s = 1..Len(s)
  OBVIOUS
<1> HIDE DEF g
<1>4. g \in Nat /\ g \in 0..Len(s) /\ (g # 0 => NewestPut(s, k, g) /\ s[g].put)
  BY <1>1, <1>3 DEF GetSpec, NewestPut
<1>5. ASSUME NEW i \in Nat, NewestPut(s, k, i) PROVE i = g /\ g # 0
  BY <1>1, <1>3, <1>5 DEF GetSpec, NewestPut
<1> QED
  BY <1>2, <1>3, <1>4, <1>5

\* A write changes the value of its own key only.
LEMMA AtGrows ==
    ASSUME NEW s \in Seq(Entries), NEW t, NEW e \in Entries, Grown(s, t, e), NEW k
    PROVE  /\ e.key # k => At(t, k) = At(s, k)
           /\ e.key = k => At(t, k) = IF e.put /\ ~ e.delete THEN Len(s) + 1 ELSE 0
<1>1. /\ t \in Seq(Entries) /\ Len(s) \in Nat /\ Len(t) = Len(s) + 1
      /\ DOMAIN t = 1..(Len(s) + 1) /\ t[Len(s) + 1] = e
  BY DEF Grown
<1>2. ASSUME e.key # k PROVE At(t, k) = At(s, k)
  <2>1. \A i : /\ NewestPut(t, k, i) <=> NewestPut(s, k, i)
               /\ NewestPut(s, k, i) => t[i] = s[i]
    BY <1>2, NewestPutStays
  <2>2. CASE \E i \in Nat : NewestPut(s, k, i)
    <3>1. PICK i \in Nat : NewestPut(s, k, i)
      BY <2>2
    <3>2. At(s, k) = IF s[i].delete THEN 0 ELSE i
      BY <3>1, AtIs
    <3>3. At(t, k) = IF t[i].delete THEN 0 ELSE i
      BY <1>1, <2>1, <3>1, AtIs
    <3> QED
      BY <2>1, <3>1, <3>2, <3>3
  <2>3. CASE \A i \in Nat : ~ NewestPut(s, k, i)
    <3>1. At(s, k) = 0
      BY <2>3, AtIs
    <3>2. At(t, k) = 0
      BY <1>1, <2>1, <2>3, AtIs
    <3> QED
      BY <3>1, <3>2
  <2> QED
    BY <2>2, <2>3
<1>3. ASSUME e.key = k PROVE At(t, k) = IF e.put /\ ~ e.delete THEN Len(s) + 1 ELSE 0
  <2>1. \A i \in Nat : NewestPut(t, k, i) => i = Len(s) + 1 /\ e.put
    BY <1>1, <1>3 DEF NewestPut
  <2>2. e.put => NewestPut(t, k, Len(s) + 1)
    BY <1>1, <1>3 DEF NewestPut
  <2>3. CASE e.put
    <3>1. At(t, k) = IF t[Len(s) + 1].delete THEN 0 ELSE Len(s) + 1
      BY <1>1, <2>2, <2>3, AtIs
    <3> QED
      BY <1>1, <2>3, <3>1
  <2>4. CASE ~ e.put
    BY <1>1, <2>1, <2>4, AtIs
  <2> QED
    BY <2>3, <2>4
<1> QED
  BY <1>2, <1>3

\* A step that leaves the plain keys as they are, and the requests or ends them.
Quiet ==
    /\ stream' = stream \/ \E e \in Entries : Grown(stream, stream', e) /\ e.key \notin Plain
    /\ \A p \in Clients : Seen(op'[p]) \in {KV!NoCall, Seen(op[p])}

\* Entries of other keys leave the plain keys as they are.
LEMMA QuietStores ==
    ASSUME Base, stream' = stream \/ \E e \in Entries : Grown(stream, stream', e) /\ e.key \notin Plain
    PROVE  Stored' = Stored
<1>1. \A k \in Plain : At(stream', k) = At(stream, k)
  <2>1. stream \in Seq(Entries)
    BY DEF Base
  <2>2. CASE stream' = stream
    BY <2>2
  <2>3. ASSUME NEW e \in Entries, Grown(stream, stream', e), e.key \notin Plain
        PROVE  \A k \in Plain : At(stream', k) = At(stream, k)
    BY <2>1, <2>3, AtGrows
  <2> QED
    BY <2>2, <2>3
<1> QED
  BY <1>1, Mapping, MappingNext

\* Such a step is one of Abandon, with no or some requests.
LEMMA QuietAbandons == ASSUME Base, Base', Quiet PROVE KV!Next
<1>1. Stored' = Stored
  BY QuietStores DEF Quiet
<1>2. Len(stream') \in Len(stream)..MaxSeq
  BY EntryIs, Numbers DEF Quiet, Grown, Base
<1>3. DOMAIN Requested' = Clients /\ \A p \in Clients : Requested'[p] \in {KV!NoCall, Requested[p]}
  BY Mapping, MappingNext DEF Quiet
<1>4. KV!Abandon
  BY <1>1, <1>2, <1>3 DEF KV!Abandon, KV!Others
<1> QED
  BY <1>4 DEF KV!Next

\* One request moves on, unseen.
LEMMA OpQuiet ==
    ASSUME IndInv, IndInv', NEW p \in Clients, NEW q, op' = [op EXCEPT ![p] = q],
           Seen(q) \in {KV!NoCall, Seen(op[p])},
           stream' = stream \/ \E e \in Entries : Grown(stream, stream', e) /\ e.key \notin Plain
    PROVE  KV!Next
<1>1. \A r \in Clients : op'[r] = IF r = p THEN q ELSE op[r]
  BY DEF IndInv
<1>2. Quiet
  BY <1>1 DEF Quiet
<1> QED
  BY <1>2, QuietAbandons DEF IndInv

\* What a step of one request is to the abstract store.
LEMMA RequestMoves ==
    ASSUME IndInv, NEW p \in Clients, NEW q, op' = [op EXCEPT ![p] = q]
    PROVE  /\ Requested[p] = Seen(op[p])
           /\ Requested' = [Requested EXCEPT ![p] = Seen(q)]
<1>1. \A r \in Clients : op'[r] = IF r = p THEN q ELSE op[r]
  BY DEF IndInv
<1> QED
  BY <1>1, Mapping, MappingNext

\* A request that is seen is seen done once it has its answer.
LEMMA SeenAnswered ==
    ASSUME NEW o, NEW a, NEW q, Answered(o, a, q), Visible(o)
    PROVE  Seen(q) = Done(o, a, q.result)
<1>1. Visible(q)
  BY DEF Visible, Answered, Locks
<1> QED
  BY <1>1 DEF Seen, Answered, Done

\* A request that is not seen is not seen when it is answered either.
LEMMA UnseenAnswered ==
    ASSUME NEW o, NEW a, NEW q, Answered(o, a, q), o.pc # "idle", ~ Visible(o)
    PROVE  Seen(q) = KV!NoCall
<1>1. ~ Visible(q)
  BY DEF Visible, Answered, Locks
<1> QED
  BY <1>1 DEF Seen

\* Nothing is stored: the answer is the one that the store as it is gives.
LEMMA Declines ==
    ASSUME IndInv, IndInv', NEW p \in Clients, NEW a, NEW q, op' = [op EXCEPT ![p] = q],
           stream' = stream, Answered(op[p], a, q), Visible(op[p]), op[p].pc \notin {"mark", "answer"},
           LET o == op[p]
               at == At(stream, o.key)
           IN \/ o.kind = "create" /\ at # 0 /\ a = "no" /\ q.result = 0
              \/ o.kind = "update" /\ (at = 0 \/ at # o.revision) /\ a = "no" /\ q.result = 0
              \/ o.kind = "delete" /\ at = 0 /\ a = "yes" /\ q.result = 0
              \/ o.kind = "delete" /\ at # 0 /\ o.revision \notin {0, at} /\ a = "no" /\ q.result = 0
              \/ o.kind = "get" /\ a = "yes" /\ q.result = at
    PROVE  KV!Next
<1> DEFINE o == op[p]
<1>1. /\ Requested[p] = Called(o)
      /\ Requested' = [Requested EXCEPT ![p] = Done(o, a, q.result)]
  <2>1. Seen(o) = Called(o)
    BY DEF Seen
  <2>2. Seen(q) = Done(o, a, q.result)
    BY SeenAnswered
  <2>3. Requested[p] = Seen(o) /\ Requested' = [Requested EXCEPT ![p] = Seen(q)]
    BY RequestMoves
  <2> QED
    BY <2>1, <2>2, <2>3
<1>2. /\ Requested[p].pc = "called" /\ Requested[p].kind = o.kind /\ Requested[p].key = o.key
      /\ Requested[p].revision = o.revision
  BY <1>1 DEF Called
<1>3. KV!Done(Requested[p], a, q.result) = Done(o, a, q.result)
  BY <1>2 DEF KV!Done, Done
<1>4. Stored' = Stored /\ Stored[o.key] = At(stream, o.key)
  BY QuietStores, Mapping DEF IndInv, Visible
<1>5. Len(stream') \in Len(stream)..MaxSeq
  BY EntryIs, Numbers DEF IndInv
<1>6. KV!Decline(p, a, q.result)
  BY <1>1, <1>3, <1>4, <1>5 DEF KV!Decline, KV!Others
<1>7. KV!Create(p) \/ KV!Update(p) \/ KV!Delete(p) \/ KV!Get(p)
  BY <1>2, <1>4, <1>6 DEF KV!Create, KV!Update, KV!Delete, KV!Get
<1> QED
  BY <1>7 DEF KV!Next

\* A Get, and a writer that needs not write, take effect at their read.
LEMMA GetSeen == ASSUME IndInv, IndInv', OneInv, NEW p \in Clients, get(p) PROVE KV!Next
<1> DEFINE o == op[p]
           i == IF Shown(o, Looked(o)) THEN Looked(o) ELSE 0
           d == Decide(o, i)
           x == [o EXCEPT !.pc = "expire"]
           q == IF Shown(o, Looked(o)) /\ Expired(Looked(o)) THEN x ELSE d
<1>1. /\ o \in Ops /\ o.pc = "read" /\ o.kind # "list" /\ Base
      /\ op' = [op EXCEPT ![p] = q] /\ stream' = stream
  BY DEF IndInv, get, Looked, Shown
<1>2. Given(o, i) /\ Looked(o) \in 0..Len(stream) /\ (Looked(o) # 0 => stream[Looked(o)].key = o.key)
  BY <1>1, LookedIs
<1>3. i \in Revisions /\ 0 \in Revisions /\ o.kind \in {"create", "update", "delete", "get"}
  BY <1>1, <1>2, EntryIs, Numbers DEF Given, Ops
<1>4. ASSUME NEW a \in {"yes", "no"}, NEW r \in Revisions
      PROVE  Answered(o, a, Answer(o, a, r)) /\ Answer(o, a, r).result = r
  BY <1>1, <1>4, AnswerIs
<1>5. /\ Writes(o, i).pc = "write" /\ Writes(o, i).kind = o.kind /\ Writes(o, i).key = o.key
      /\ Writes(o, i).revision = o.revision
  BY <1>1, <1>3, WritesIs
<1>6. d = CASE o.kind = "create" -> DecideCreate(o, i)
            [] o.kind = "update" -> DecideUpdate(o, i)
            [] o.kind = "delete" -> DecideDelete(o, i)
            [] o.kind = "get" -> Answer(o, "yes", i)
  BY DEF Decide
<1>7. d = Writes(o, i) \/ \E a \in {"yes", "no"}, r \in Revisions : d = Answer(o, a, r)
  BY <1>3, <1>6 DEF DecideCreate, DecideUpdate, DecideDelete
<1>8. CASE ~ Visible(o)
  <2>1. ~ Visible(Writes(o, i))
    BY <1>1, <1>5, <1>8 DEF Visible
  <2>2. \A a \in {"yes", "no"}, r \in Revisions : Seen(Answer(o, a, r)) = KV!NoCall
    BY <1>1, <1>4, <1>8, UnseenAnswered
  <2>3. ~ Visible(x)
    BY <1>1, <1>8 DEF Visible, Ops
  <2>4. Seen(q) = KV!NoCall
    BY <1>7, <2>1, <2>2, <2>3 DEF Seen
  <2> HIDE DEF q
  <2> QED
    BY <1>1, <2>4, OpQuiet
<1>9. CASE Visible(o)
  <2>1. Looked(o) = KvGet(o.key) /\ o.key \in Plain
    BY <1>9 DEF Visible, Looked
  <2> DEFINE g == KvGet(o.key)
             at == At(stream, o.key)
  <2>2. at = IF g # 0 /\ ~ stream[g].delete THEN g ELSE 0
    <3>1. g = GetOf(stream, o.key)
      BY DEF KvGet, GetOf, Of
    <3>2. g # 0 => stream[g].put
      BY <1>1, <2>1, LookedIs
    <3> QED
      BY <3>1, <3>2 DEF At
  <2>3. ~ (Shown(o, Looked(o)) /\ Expired(Looked(o)))
    <3>1. Shown(o, Looked(o)) => Looked(o) \in DOMAIN stream /\ stream[Looked(o)].key = o.key
      BY <1>1, <1>2, EntryIs DEF Shown
    <3> QED
      BY <2>1, <3>1 DEF OneInv, Unleased, Expired
  <2>4. q = d
    BY <2>3
  <2>5. /\ o.kind \in {"create", "delete"} => i = g
        /\ o.kind \in {"update", "get"} => i = at
    BY <2>1, <2>2 DEF Shown
  <2> HIDE DEF q, d, g, at
  <2>6. CASE d = Writes(o, i)
    <3>1. Visible(Writes(o, i)) /\ Called(Writes(o, i)) = Called(o)
      BY <1>5, <1>9 DEF Visible, Called
    <3>2. Seen(Writes(o, i)) = Seen(o)
      BY <1>1, <1>5, <1>9, <3>1 DEF Seen
    <3> QED
      BY <1>1, <2>4, <2>6, <3>2, OpQuiet
  <2>7. ASSUME NEW a \in {"yes", "no"}, NEW r \in Revisions, d = Answer(o, a, r),
               \/ o.kind = "create" /\ at # 0 /\ a = "no" /\ r = 0
               \/ o.kind = "update" /\ (at = 0 \/ at # o.revision) /\ a = "no" /\ r = 0
               \/ o.kind = "delete" /\ at = 0 /\ a = "yes" /\ r = 0
               \/ o.kind = "delete" /\ at # 0 /\ o.revision \notin {0, at} /\ a = "no" /\ r = 0
               \/ o.kind = "get" /\ a = "yes" /\ r = at
        PROVE  KV!Next
    <3>1. Answered(o, a, q) /\ q.result = r
      BY <1>4, <2>4, <2>7
    <3>2. o.pc \notin {"mark", "answer"}
      BY <1>1
    <3> QED
      BY <1>1, <1>9, <2>7, <3>1, <3>2, Declines DEF at
  <2>8. CASE o.kind = "create"
    <3>1. d = DecideCreate(o, i)
      BY <1>6, <2>8
    <3> QED
      BY <1>3, <2>2, <2>5, <2>6, <2>7, <2>8, <3>1 DEF DecideCreate
  <2>9. CASE o.kind = "update"
    <3>1. d = DecideUpdate(o, i)
      BY <1>6, <2>9
    <3> QED
      BY <1>3, <2>2, <2>5, <2>6, <2>7, <2>9, <3>1 DEF DecideUpdate
  <2>10. CASE o.kind = "delete"
    <3>1. d = DecideDelete(o, i)
      BY <1>6, <2>10
    <3> QED
      BY <1>3, <2>2, <2>5, <2>6, <2>7, <2>10, <3>1 DEF DecideDelete
  <2>11. CASE o.kind = "get"
    <3>1. d = Answer(o, "yes", i)
      BY <1>6, <2>11
    <3> QED
      BY <1>3, <2>2, <2>5, <2>7, <2>11, <3>1
  <2> QED
    BY <1>3, <2>8, <2>9, <2>10, <2>11
<1> QED
  BY <1>8, <1>9

\* A writer stores its value: the key is then as the request has it, and the
\* answer may hide that.
LEMMA StoresSeen ==
    ASSUME IndInv, IndInv', OneInv, NEW p \in Clients, NEW a, NEW r, NEW q, op' = [op EXCEPT ![p] = q],
           Store(Value(op[p])), op[p].pc = "write", Visible(op[p]), Seen(q) = Done(op[p], a, r),
           \/ op[p].kind = "delete" /\ a \in {"yes", "no"} /\ r = 0
           \/ op[p].kind # "delete" /\ a = "yes" /\ r = Len(stream) + 1
           \/ op[p].kind # "delete" /\ a = "error" /\ r = 0
    PROVE  KV!Next
<1> DEFINE o == op[p]
           e == Value(o)
<1>1. /\ o \in Ops /\ Base /\ Stage(o, stream) /\ stream \in Seq(Entries) /\ AsRead(o, stream)
      /\ o.key \in Plain
  BY DEF IndInv, Base, OneInv, OneOp, Visible
<1>2. /\ Requested[p] = Called(o)
      /\ Requested' = [Requested EXCEPT ![p] = Done(o, a, r)]
  <2>1. Seen(o) = Called(o)
    BY DEF Seen
  <2>2. Requested[p] = Seen(o) /\ Requested' = [Requested EXCEPT ![p] = Seen(q)]
    BY RequestMoves
  <2> QED
    BY <2>1, <2>2
<1>3. /\ Requested[p].pc = "called" /\ Requested[p].kind = o.kind /\ Requested[p].key = o.key
      /\ Requested[p].revision = o.revision
  BY <1>2 DEF Called
<1>4. KV!Done(Requested[p], a, r) = Done(o, a, r)
  BY <1>3 DEF KV!Done, Done
<1>5. e \in Entries /\ e.key = o.key /\ e.put /\ (e.delete <=> o.kind = "delete")
  BY <1>1, ValueIs
<1> HIDE DEF e
<1>6. Grown(stream, stream', e) /\ Len(stream) < MaxSeq
  BY <1>1, <1>5, StoreKeeps DEF e
<1>7. Len(stream) \in Nat /\ Len(stream') = Len(stream) + 1 /\ MaxSeq \in Nat
  BY <1>6, Numbers DEF Grown
<1>8. Stored' = [Stored EXCEPT ![o.key] = IF o.kind = "delete" THEN 0 ELSE Len(stream')]
  <2>1. \A k \in Plain : At(stream', k) = IF k = o.key THEN (IF o.kind = "delete" THEN 0 ELSE Len(stream'))
                                          ELSE At(stream, k)
    BY <1>1, <1>5, <1>6, <1>7, AtGrows
  <2> QED
    BY <2>1, Mapping, MappingNext
<1>9. Stored[o.key] = At(stream, o.key)
  BY <1>1, Mapping
<1>10. o.kind \in {"create", "update", "delete"}
  BY <1>1 DEF Stage, Locks
<1>11. CASE o.kind = "create"
  <2>1. Stored[o.key] = 0
    <3>1. CASE o.found = 0
      <4>1. \A i \in Nat : ~ NewestPut(stream, o.key, i)
        BY <1>1, <3>1 DEF AsRead, NewestPut, Base
      <4> QED
        BY <1>1, <1>9, <4>1, AtIs
    <3>2. CASE o.found # 0
      <4>1. NewestPut(stream, o.key, o.found) /\ stream[o.found].delete /\ o.found \in Nat
        BY <1>1, <1>11, <3>2, Numbers DEF AsRead, Stage, Ops
      <4> QED
        BY <1>1, <1>9, <4>1, AtIs
    <3> QED
      BY <3>1, <3>2
  <2>2. KV!Store(p)
    <3>1. Len(stream') \in (Len(stream) + 1)..MaxSeq
      BY <1>6, <1>7
    <3>2. Stored' = [Stored EXCEPT ![Requested[p].key] = Len(stream')]
      BY <1>3, <1>8, <1>11
    <3>3. Requested' = [Requested EXCEPT ![p] = KV!Done(Requested[p], a, r)]
      BY <1>2, <1>4
    <3>4. (a = "yes" /\ r = Len(stream')) \/ (a = "error" /\ r = 0)
      BY <1>7, <1>11
    <3>5. Requested' \in {[Requested EXCEPT ![p] = KV!Done(Requested[p], "yes", Len(stream'))],
                         [Requested EXCEPT ![p] = KV!Done(Requested[p], "error", 0)]}
      BY <3>3, <3>4
    <3> QED
      BY <3>1, <3>2, <3>5 DEF KV!Store
  <2>3. KV!Create(p)
    BY <1>3, <1>11, <2>1, <2>2 DEF KV!Create
  <2> QED
    BY <2>3 DEF KV!Next
<1>12. ASSUME o.kind # "create" PROVE Stored[o.key] = o.found /\ o.found # 0
  <2>1. NewestPut(stream, o.key, o.found) /\ ~ stream[o.found].delete /\ o.found \in Nat /\ o.found # 0
    BY <1>1, <1>12, Numbers DEF AsRead, Stage, Ops
  <2> QED
    BY <1>1, <1>9, <2>1, AtIs
<1>13. CASE o.kind = "update"
  <2>1. o.found = o.revision
    BY <1>1, <1>13 DEF Stage
  <2>2. KV!Store(p)
    <3>1. Len(stream') \in (Len(stream) + 1)..MaxSeq
      BY <1>6, <1>7
    <3>2. Stored' = [Stored EXCEPT ![Requested[p].key] = Len(stream')]
      BY <1>3, <1>8, <1>13
    <3>3. Requested' = [Requested EXCEPT ![p] = KV!Done(Requested[p], a, r)]
      BY <1>2, <1>4
    <3>4. (a = "yes" /\ r = Len(stream')) \/ (a = "error" /\ r = 0)
      BY <1>7, <1>13
    <3>5. Requested' \in {[Requested EXCEPT ![p] = KV!Done(Requested[p], "yes", Len(stream'))],
                         [Requested EXCEPT ![p] = KV!Done(Requested[p], "error", 0)]}
      BY <3>3, <3>4
    <3> QED
      BY <3>1, <3>2, <3>5 DEF KV!Store
  <2>3. KV!Update(p)
    BY <1>3, <1>12, <1>13, <2>1, <2>2 DEF KV!Update
  <2> QED
    BY <2>3 DEF KV!Next
<1>14. CASE o.kind = "delete"
  <2>1. o.revision \in {0, o.found}
    BY <1>1, <1>14 DEF Stage
  <2>2. Len(stream') \in Len(stream)..MaxSeq
    BY <1>6, <1>7
  <2>3. KV!Delete(p)
    BY <1>2, <1>3, <1>4, <1>8, <1>12, <1>14, <2>1, <2>2 DEF KV!Delete, KV!Others
  <2> QED
    BY <2>3 DEF KV!Next
<1> QED
  BY <1>10, <1>11, <1>13, <1>14

\* A write of a request stores its value, which is of the request's key.
LEMMA ValueStores ==
    ASSUME IndInv, NEW p \in Clients, op[p].pc = "write", Store(Value(op[p]))
    PROVE  \E e \in Entries : Grown(stream, stream', e) /\ e.key = op[p].key
<1>1. op[p] \in Ops /\ Base /\ Stage(op[p], stream)
  BY DEF IndInv
<1>2. Value(op[p]) \in Entries /\ Value(op[p]).key = op[p].key
  BY <1>1, ValueIs
<1>3. Grown(stream, stream', Value(op[p]))
  BY <1>1, <1>2, StoreKeeps
<1> QED
  BY <1>2, <1>3

\* A writer takes effect at its write, a delete at that of the tombstone.
LEMMA WriteSeen == ASSUME IndInv, IndInv', OneInv, NEW p \in Clients, write(p) PROVE KV!Next
<1> DEFINE o == op[p]
           m == [o EXCEPT !.pc = "mark"]
           y == Answer(o, "yes", Len(stream) + 1)
           q == IF o.kind = "delete" THEN m ELSE y
<1>1. o \in Ops /\ o.pc = "write" /\ Base /\ Stage(o, stream) /\ op' = [op EXCEPT ![p] = q] /\ Store(Value(o))
  BY DEF IndInv, write
<1>2. o.kind \in {"create", "update", "delete"} /\ o.result = 0
  BY <1>1 DEF Stage, Locks
<1>3. m.pc = "mark" /\ m.kind = o.kind /\ m.key = o.key /\ m.result = 0
  BY <1>1, <1>2 DEF Ops
<1>4. Answered(o, "yes", y) /\ y.result = Len(stream) + 1
  <2>1. Len(stream) + 1 \in Revisions
    BY <1>1, EntryIs, Numbers DEF Store
  <2> QED
    BY <1>1, <2>1, AnswerIs
<1> HIDE DEF m, y
<1>5. CASE Visible(o)
  <2>1. CASE o.kind = "delete"
    <3>1. Visible(m)
      BY <1>3, <1>5, <2>1 DEF Visible
    <3>2. Seen(q) = Done(o, "yes", 0)
      BY <1>3, <2>1, <3>1 DEF Seen, Done
    <3> HIDE DEF q
    <3> QED
      BY <1>1, <1>5, <2>1, <3>2, StoresSeen
  <2>2. CASE o.kind # "delete"
    <3>1. Seen(q) = Done(o, "yes", Len(stream) + 1)
      BY <1>4, <1>5, <2>2, SeenAnswered
    <3> HIDE DEF q
    <3> QED
      BY <1>1, <1>5, <2>2, <3>1, StoresSeen
  <2> QED
    BY <2>1, <2>2
<1>6. CASE ~ Visible(o)
  <2>1. o.key \notin Plain
    BY <1>1, <1>2, <1>6 DEF Visible
  <2>2. Seen(m) = KV!NoCall
    BY <1>3, <2>1 DEF Seen, Visible
  <2>3. Seen(y) = KV!NoCall
    BY <1>1, <1>4, <1>6, UnseenAnswered
  <2>4. Seen(q) = KV!NoCall
    BY <2>2, <2>3
  <2>5. \E e \in Entries : Grown(stream, stream', e) /\ e.key \notin Plain
    BY <1>1, <2>1, ValueStores
  <2> HIDE DEF q
  <2> QED
    BY <1>1, <2>4, <2>5, OpQuiet
<1> QED
  BY <1>5, <1>6

\* A request fails, and the plain keys stay as they are.
LEMMA FailureSeen ==
    ASSUME IndInv, NEW p \in Clients, NEW a, NEW q, op' = [op EXCEPT ![p] = q], Visible(op[p]),
           Seen(q) = Done(op[p], a, 0), a \in KV!Failures(op[p].kind),
           Stored' = Stored, Len(stream') \in Len(stream)..MaxSeq
    PROVE  KV!Next
<1> DEFINE o == op[p]
<1>1. Requested[p] = Seen(o) /\ Requested' = [Requested EXCEPT ![p] = Done(o, a, 0)]
  BY RequestMoves
<1>2. Requested[p].pc \in {"called", "done"} /\ Requested[p].kind = o.kind /\ Requested[p].key = o.key
  BY <1>1 DEF Seen, Called, Done
<1>3. KV!Done(Requested[p], a, 0) = Done(o, a, 0)
  BY <1>2 DEF KV!Done, Done
<1>4. KV!Decline(p, a, 0)
  BY <1>1, <1>3 DEF KV!Decline, KV!Others
<1>5. KV!Fail(p)
  BY <1>2, <1>4 DEF KV!Fail
<1> QED
  BY <1>5 DEF KV!Next

\* A write whose call fails may have taken effect all the same.
LEMMA WriteFailsSeen == ASSUME IndInv, IndInv', OneInv, NEW p \in Clients, writeFails(p) PROVE KV!Next
<1> DEFINE o == op[p]
           a == IF o.kind = "delete" THEN "no" ELSE "error"
           q == Answer(o, a, 0)
<1>1. /\ o \in Ops /\ o.pc = "write" /\ Base /\ Stage(o, stream) /\ op' = [op EXCEPT ![p] = q]
      /\ NotStored \/ Store(Value(o))
  BY DEF IndInv, writeFails
<1>2. o.kind \in {"create", "update", "delete"}
  BY <1>1 DEF Stage, Locks
<1>3. a \in {"yes", "no", "error"} /\ 0 \in Revisions /\ a \in KV!Failures(o.kind)
  BY Numbers DEF KV!Failures
<1>4. IF o.kind = "delete" THEN a = "no" ELSE a = "error"
  OBVIOUS
<1> HIDE DEF a
<1>5. Answered(o, a, q) /\ q.result = 0
  BY <1>1, <1>3, AnswerIs
<1> HIDE DEF q
<1>6. CASE Visible(o)
  <2>1. Seen(q) = Done(o, a, 0)
    BY <1>5, <1>6, SeenAnswered
  <2>2. CASE Store(Value(o))
    BY <1>1, <1>4, <1>6, <2>1, <2>2, StoresSeen
  <2>3. CASE NotStored
    <3>1. stream' = stream
      BY <2>3 DEF NotStored
    <3>2. Stored' = Stored
      BY <1>1, <3>1, QuietStores
    <3>3. Len(stream') \in Len(stream)..MaxSeq
      BY <1>1, <3>1, EntryIs, Numbers
    <3> QED
      BY <1>1, <1>3, <1>6, <2>1, <3>2, <3>3, FailureSeen
  <2> QED
    BY <1>1, <2>2, <2>3
<1>7. CASE ~ Visible(o)
  <2>1. o.key \notin Plain
    BY <1>1, <1>2, <1>7 DEF Visible
  <2>2. Seen(q) = KV!NoCall
    BY <1>1, <1>5, <1>7, UnseenAnswered
  <2>3. stream' = stream \/ \E e \in Entries : Grown(stream, stream', e) /\ e.key \notin Plain
    BY <1>1, <2>1, ValueStores DEF NotStored
  <2> QED
    BY <1>1, <2>2, <2>3, OpQuiet
<1> QED
  BY <1>6, <1>7

\* The marker of a delete changes nothing: the tombstone has been seen.
LEMMA MarkSeen == ASSUME IndInv, IndInv', OneInv, NEW p \in Clients, mark(p) PROVE KV!Next
<1> DEFINE o == op[p]
           e == Marker(o.key)
<1>1. /\ o \in Ops /\ o.pc = "mark" /\ Base /\ o.kind = "delete" /\ o.key \in Keys /\ o.result = 0
      /\ Store(e) \/ NotStored
  BY DEF IndInv, mark, Stage, Ops
<1>2. PICK a \in {"yes", "no"} : op' = [op EXCEPT ![p] = Answer(o, a, 0)]
  BY DEF mark
<1> DEFINE q == Answer(o, a, 0)
<1>3. Answered(o, a, q) /\ q.result = 0 /\ op' = [op EXCEPT ![p] = q]
  BY <1>1, <1>2, AnswerIs, Numbers
<1> HIDE DEF q
<1>4. e \in Entries /\ e.key = o.key /\ ~ e.put
  BY <1>1, MarkerIs DEF Marker
<1> HIDE DEF e
<1>5. stream' = stream \/ Grown(stream, stream', e)
  BY <1>1, <1>4, StoreKeeps DEF NotStored
<1>6. Len(stream') \in Len(stream)..MaxSeq
  <2>1. Base' /\ Len(stream) \in Nat /\ MaxSeq \in Nat
    BY <1>1, EntryIs, Numbers DEF IndInv
  <2>2. Len(stream') \in Nat /\ Len(stream') <= MaxSeq
    BY <2>1 DEF Base
  <2> QED
    BY <1>5, <2>1, <2>2 DEF Grown
<1>7. CASE Visible(o)
  <2>1. At(stream, o.key) = 0
    <3>1. \A i \in Nat : NewestPut(stream, o.key, i) => stream[i].delete
      BY <1>1, <1>7 DEF OneInv, OneOp, AsRead, Visible
    <3>2. stream \in Seq(Entries)
      BY <1>1 DEF Base
    <3> QED
      BY <3>1, <3>2, AtIs
  <2>2. \A k \in Plain : At(stream', k) = At(stream, k)
    <3>1. CASE stream' = stream
      BY <3>1
    <3>2. CASE Grown(stream, stream', e)
      BY <1>1, <1>4, <2>1, <3>2, AtGrows DEF Base
    <3> QED
      BY <1>5, <3>1, <3>2
  <2>3. Stored' = Stored
    BY <2>2, Mapping, MappingNext
  <2>4. Seen(q) = Done(o, a, 0)
    BY <1>3, <1>7, SeenAnswered
  <2>5. CASE a = "no"
    <3>1. a \in KV!Failures(o.kind)
      BY <1>1, <2>5 DEF KV!Failures
    <3> QED
      BY <1>3, <1>6, <1>7, <2>3, <2>4, <3>1, FailureSeen
  <2>6. CASE a = "yes"
    <3>1. Seen(o) = Done(o, "yes", 0)
      BY <1>1, <1>7 DEF Seen
    <3>2. Requested' = [Requested EXCEPT ![p] = Seen(q)] /\ Requested[p] = Seen(o)
      BY <1>3, RequestMoves
    <3>3. DOMAIN Requested' = Clients /\ \A r \in Clients : Requested'[r] = Requested[r]
      BY <2>4, <2>6, <3>1, <3>2 DEF Requested
    <3>4. KV!Abandon
      BY <1>6, <2>3, <3>3 DEF KV!Abandon, KV!Others
    <3> QED
      BY <3>4 DEF KV!Next
  <2> QED
    BY <2>5, <2>6
<1>8. CASE ~ Visible(o)
  <2>1. o.key \notin Plain
    BY <1>1, <1>8 DEF Visible
  <2>2. Seen(q) = KV!NoCall
    BY <1>1, <1>3, <1>8, UnseenAnswered
  <2> QED
    BY <1>3, <1>4, <1>5, <2>1, <2>2, OpQuiet
<1> QED
  BY <1>7, <1>8

\* A request on a key that is not plain is not seen, whatever it goes on to.
LEMMA UnseenKeys == ASSUME NEW o, o.key \notin Plain \/ o.kind = "list" PROVE Seen(o) = KV!NoCall
BY DEF Seen, Visible

\* Only keys with a lease expire.
LEMMA IsKeyExpiredSeen == ASSUME IndInv, IndInv', OneInv, NEW p \in Clients, isKeyExpired(p) PROVE KV!Next
<1> DEFINE o == op[p]
           e == Marker(o.key)
           q == Decide(o, 0)
<1>1. /\ o \in Ops /\ Base /\ o.pc = "expire" /\ Stage(o, stream) /\ o.key \in Keys
      /\ op' = [op EXCEPT ![p] = q]
      /\ Store(e) \/ NotStored
  BY DEF IndInv, isKeyExpired, Ops
<1>2. o.key \notin Plain
  BY <1>1 DEF OneInv, OneOp, AsRead
<1>3. o.kind # "list" /\ o.result = 0 /\ Given(o, 0)
  BY <1>1, EntryIs DEF Stage, Given
<1>4. q.key = o.key
  BY <1>1, <1>3, DecideIs DEF Decided
<1> HIDE DEF q
<1>5. Seen(q) = KV!NoCall
  BY <1>2, <1>4, UnseenKeys
<1>6. e \in Entries /\ e.key = o.key
  BY <1>1, MarkerIs DEF Marker
<1> HIDE DEF e
<1>7. stream' = stream \/ Grown(stream, stream', e)
  BY <1>1, <1>6, StoreKeeps DEF NotStored
<1> QED
  BY <1>1, <1>2, <1>5, <1>6, <1>7, OpQuiet

\* A request is over.
LEMMA IdleSeen ==
    ASSUME IndInv, IndInv', NEW p \in Clients, op' = [op EXCEPT ![p] = Idle], stream' = stream
    PROVE  KV!Next
<1>1. Seen(Idle) = KV!NoCall
  BY IdleIs DEF Seen, Visible
<1> QED
  BY <1>1, OpQuiet

\* Lists are not seen.
LEMMA ListSeen ==
    ASSUME IndInv, IndInv', OneInv, NEW p \in Clients,
           ListRevision(p) \/ ListRead(p) \/ ListExpire(p) \/ ListDone(p)
    PROVE  KV!Next
<1> DEFINE o == op[p]
<1>1. o \in Ops /\ Base /\ Stage(o, stream) /\ OneOp(o, stream) /\ op \in [Clients -> Ops]
  BY DEF IndInv, OneInv
<1>2. o.kind = "list"
  BY <1>1 DEF Stage, ListRevision, ListRead, ListExpire, ListDone
<1>3. op'[p].kind = "list" /\ \A r \in Clients : r # p => op'[r] = op[r]
  <2>1. CASE ListRevision(p)
    BY <1>1, <1>2, <2>1 DEF ListRevision, Ops
  <2>2. CASE ListRead(p)
    BY <1>1, <1>2, <2>2, ZenonT(40) DEF ListRead, ListPresent, ListPast, Ops
  <2>3. CASE ListExpire(p)
    BY <1>1, <1>2, <2>3 DEF ListExpire, Ops
  <2>4. CASE ListDone(p)
    BY <1>1, <1>2, <2>4 DEF ListDone, Stamped, Answer, Ops
  <2> QED
    BY <2>1, <2>2, <2>3, <2>4
<1>4. \A r \in Clients : Seen(op'[r]) \in {KV!NoCall, Seen(op[r])}
  BY <1>3, UnseenKeys
<1>5. stream' = stream \/ \E e \in Entries : Grown(stream, stream', e) /\ e.key \notin Plain
  <2>1. CASE ListRevision(p) \/ ListRead(p) \/ ListDone(p)
    BY <2>1 DEF ListRevision, ListRead, ListDone
  <2>2. CASE ListExpire(p)
    <3>1. PICK k \in o.reap : Store(Marker(k)) \/ NotStored
      BY <2>2 DEF ListExpire
    <3>2. k \in Keys /\ k \notin Plain
      BY <1>1 DEF Ops, OneOp
    <3>3. Marker(k) \in Entries /\ Marker(k).key = k
      BY <3>2, MarkerIs DEF Marker
    <3>4. stream' = stream \/ Grown(stream, stream', Marker(k))
      BY <1>1, <3>1, <3>3, StoreKeeps DEF NotStored
    <3> QED
      BY <3>2, <3>3, <3>4
  <2> QED
    BY <2>1, <2>2
<1>6. Quiet
  BY <1>4, <1>5 DEF Quiet
<1> QED
  BY <1>6, QuietAbandons DEF IndInv

\* Watches, the end of a lease and the end of a process.
LEMMA RestSeen ==
    ASSUME IndInv, IndInv', OneInv,
           \/ \E w \in Watchers :
                \/ \E r \in {0, currentRevision + 1} : WatchStart(w, r)
                \/ listAfter(w) \/ listAfterFails(w) \/ WatchNext(w) \/ WatchExpire(w) \/ WatchCancel(w)
           \/ \E i \in DOMAIN stream : LeaseOver(i)
           \/ \E n \in Nodes : Crash(n)
    PROVE  KV!Next
<1>1. Base /\ Base' /\ op \in [Clients -> Ops]
  BY DEF IndInv
<1>2. \A p \in Clients : op'[p] = op[p] \/ op'[p] = Idle
  BY <1>1 DEF WatchStart, listAfter, listAfterFails, WatchNext, WatchExpire, WatchCancel, LeaseOver, Crash
<1>3. Seen(Idle) = KV!NoCall
  BY IdleIs DEF Seen, Visible
<1>4. stream' = stream \/ \E e \in Entries : Grown(stream, stream', e) /\ e.key \notin Plain
  <2>1. stream' = stream \/ \E w \in Watchers : WatchExpire(w)
    BY DEF WatchStart, listAfter, listAfterFails, WatchNext, WatchCancel, LeaseOver, Crash
  <2>2. ASSUME NEW w \in Watchers, WatchExpire(w), stream' # stream
        PROVE  \E e \in Entries : Grown(stream, stream', e) /\ e.key \notin Plain
    <3>1. PICK k \in watch[w].reap : stream' = Append(stream, Marker(k))
      BY <2>2 DEF WatchExpire
    <3>2. k \in Keys /\ k \notin Plain /\ stream \in Seq(Entries)
      BY <1>1 DEF Base, Watches, OneInv
    <3>3. Marker(k) \in Entries /\ Marker(k).key = k
      BY <3>2, MarkerIs DEF Marker
    <3>4. Grown(stream, stream', Marker(k))
      BY <3>1, <3>2, <3>3, AppendGrows
    <3> QED
      BY <3>2, <3>3, <3>4
  <2> QED
    BY <2>1, <2>2
<1>5. Quiet
  BY <1>2, <1>3, <1>4 DEF Quiet
<1> QED
  BY <1>1, <1>5, QuietAbandons

\* A request starts.
LEMMA CallSeen ==
    ASSUME IndInv, IndInv', NEW p \in Clients, NEW kind \in {"create", "update", "delete", "get", "list"},
           NEW k \in Keys, NEW r, NEW lease, Call(p, kind, k, r, lease), r \in Revisions
    PROVE  KV!Next
<1> DEFINE q == [Idle EXCEPT !.pc = "read", !.kind = kind, !.key = k, !.revision = r, !.lease = lease]
<1>1. op[p].pc = "idle" /\ op' = [op EXCEPT ![p] = q] /\ stream' = stream
  BY DEF Call
<1>2. q.pc = "read" /\ q.kind = kind /\ q.key = k /\ q.revision = r
  BY DEF Idle
<1> HIDE DEF q
<1>3. CASE Visible(q)
  <2>1. Seen(q) = Called(q)
    BY <1>2, <1>3 DEF Seen
  <2>2. Called(q) \in KV!Requests
    BY <1>2, <1>3, Numbers DEF Called, KV!Requests, KV!Kinds, Visible, Revisions
  <2>3. Requested[p] = KV!NoCall /\ Requested' = [Requested EXCEPT ![p] = Seen(q)]
    <3>1. Seen(op[p]) = KV!NoCall
      BY <1>1 DEF Seen, Visible
    <3> QED
      BY <1>1, <3>1, RequestMoves
  <2>4. Requested'[p] = Seen(q)
    BY <2>3 DEF Requested
  <2>5. Stored' = Stored
    BY <1>1, QuietStores DEF IndInv
  <2>6. KV!Call(p)
    BY <1>1, <2>1, <2>2, <2>3, <2>4, <2>5 DEF KV!Call
  <2> QED
    BY <2>6 DEF KV!Next
<1>4. CASE ~ Visible(q)
  <2>1. Seen(q) = KV!NoCall
    BY <1>4 DEF Seen
  <2> QED
    BY <1>1, <2>1, OpQuiet
<1> QED
  BY <1>3, <1>4

\* The requests that start are those of the store, or not seen.
LEMMA CallsSeen == ASSUME IndInv, IndInv', Calls PROVE KV!Next
<1>1. Base /\ \A k : Of(k) \subseteq DOMAIN stream
  BY DEF Of, IndInv
<1>2. \A i \in DOMAIN stream : i \in Revisions
  BY <1>1, Numbers DEF Base
<1>3. 0 \in Revisions /\ currentRevision \in Revisions
  BY <1>1, Numbers DEF currentRevision, Base
<1>4. ASSUME NEW k PROVE Newest(Of(k)) \in Revisions
  <2>1. Of(k) \in SUBSET (0..MaxSeq) /\ MaxSeq \in Nat
    BY <1>1, <1>2, Numbers
  <2> QED
    BY <2>1, NewestIs, Numbers
<1>5. CASE \E p \in Writers, k \in Keys :
             \/ Call(p, "create", k, 0, k \notin Plain)
             \/ \E r \in Of(k) : Call(p, "update", k, r, k \notin Plain)
             \/ \E r \in Of(k) \cup {0} : Call(p, "delete", k, r, FALSE)
  <2>1. PICK p \in Writers, k \in Keys :
             \/ Call(p, "create", k, 0, k \notin Plain)
             \/ \E r \in Of(k) : Call(p, "update", k, r, k \notin Plain)
             \/ \E r \in Of(k) \cup {0} : Call(p, "delete", k, r, FALSE)
    BY <1>5
  <2>2. p \in Clients
    BY DEF Clients
  <2>3. CASE Call(p, "create", k, 0, k \notin Plain)
    BY <1>3, <2>2, <2>3, CallSeen
  <2>4. ASSUME NEW r \in Of(k), Call(p, "update", k, r, k \notin Plain) PROVE KV!Next
    BY <1>1, <1>2, <2>2, <2>4, CallSeen
  <2>5. ASSUME NEW r \in Of(k) \cup {0}, Call(p, "delete", k, r, FALSE) PROVE KV!Next
    BY <1>1, <1>2, <1>3, <2>2, <2>5, CallSeen
  <2> QED
    BY <2>1, <2>3, <2>4, <2>5
<1>6. CASE \E p \in Readers, k \in Keys :
             \/ \E r \in {0, Newest(Of(k))} : Call(p, "get", k, r, FALSE)
             \/ k = Idle.key /\ \E r \in {0, currentRevision} : Call(p, "list", k, r, FALSE)
  <2>1. PICK p \in Readers, k \in Keys :
             \E r \in {0, Newest(Of(k)), currentRevision} :
                 Call(p, "get", k, r, FALSE) \/ Call(p, "list", k, r, FALSE)
    BY <1>6
  <2>2. PICK r \in {0, Newest(Of(k)), currentRevision} :
             Call(p, "get", k, r, FALSE) \/ Call(p, "list", k, r, FALSE)
    BY <2>1
  <2>3. p \in Clients /\ r \in Revisions
    BY <1>3, <1>4, <2>2 DEF Clients
  <2> QED
    BY <2>2, <2>3, CallSeen
<1> QED
  BY <1>5, <1>6 DEF Calls

\* The bucket that was left is a store with a past.
LEMMA InitSeen == ASSUME Init, IndInv PROVE KV!Init
<1>1. stream \in Seq(Entries) /\ Len(stream) \in Nat /\ Len(stream) \in 0..MaxSeq
  BY EntryIs, Numbers DEF IndInv, Base
<1>2. \A k \in Plain : At(stream, k) \in 0..Len(stream)
  BY <1>1, AtIs
<1>3. Stored \in [Plain -> 0..Len(stream)]
  BY <1>2, Mapping
<1>4. \A p \in Clients : Seen(op[p]) = KV!NoCall
  BY IdleIs DEF Init, Seen, Visible
<1>5. Requested = [p \in Clients |-> KV!NoCall]
  BY <1>4, Mapping
<1> QED
  BY <1>1, <1>3, <1>5 DEF KV!Init

\* Every step is one of the store, or changes nothing of it.
LEMMA NextSeen ==
    ASSUME IndInv, IndInv', OneInv, [Next]_vars
    PROVE  [KV!Next]_(KV!vars)
<1>1. CASE UNCHANGED vars
  <2>1. Stored' = Stored /\ Requested' = Requested
    <3>1. stream' = stream /\ op' = op
      BY <1>1 DEF vars
    <3> QED
      BY <3>1, Mapping, MappingNext
  <2> QED
    BY <1>1, <2>1 DEF KV!vars, vars
<1>2. CASE Calls
  BY <1>2, CallsSeen
<1>3. ASSUME NEW p \in Clients,
             \/ get(p) \/ isKeyExpired(p) \/ write(p) \/ writeFails(p)
             \/ mark(p) \/ Fails(p) \/ Return(p)
             \/ ListRevision(p) \/ ListRead(p) \/ ListExpire(p) \/ ListDone(p)
      PROVE  KV!Next
  <2>1. CASE Fails(p) \/ Return(p)
    BY <2>1, IdleSeen DEF Fails, Return
  <2> QED
    BY <1>3, <2>1, GetSeen, IsKeyExpiredSeen, WriteSeen, WriteFailsSeen, MarkSeen, ListSeen
<1>4. CASE \/ \E w \in Watchers :
                \/ \E r \in {0, currentRevision + 1} : WatchStart(w, r)
                \/ listAfter(w) \/ listAfterFails(w) \/ WatchNext(w) \/ WatchExpire(w) \/ WatchCancel(w)
           \/ \E i \in DOMAIN stream : LeaseOver(i)
           \/ \E n \in Nodes : Crash(n)
  BY <1>4, RestSeen
<1> QED
  BY <1>1, <1>2, <1>3, <1>4 DEF Next

\* When one process writes, it serves the plain keys of a folder as the atomic
\* store that server.Backend promises: Create, Update and Delete, each a read
\* and one or two writes under the folder's mutex, and Get without a mutex,
\* each take effect at one moment, through failed and lost writes, crashes, and
\* readers and watches that remove expired keys.
THEOREM ServesAtomically ==
    ASSUME OneProcess, SoundBucket
    PROVE  Spec => AtomicStore
<1>1. Init => KV!Init
  BY InitIndInv, InitSeen
<1>2. (IndInv /\ OneInv) /\ (IndInv /\ OneInv)' /\ [Next]_vars => [KV!Next]_(KV!vars)
  BY NextSeen
<1>3. Spec => [](IndInv /\ OneInv)
  BY AlwaysOneInv
<1> QED
  BY <1>1, <1>2, <1>3, PTL DEF Spec, AtomicStore, KV!Spec
=============================================================================
