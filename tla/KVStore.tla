------------------------------- MODULE KVStore -------------------------------
(***************************************************************************)
(* What a backend of kine promises its callers (server.Backend, types.go):  *)
(* create, update, delete and get of a key, each taking effect at one       *)
(* moment between its call and its answer.  A revision stands for the value *)
(* that was written under it; 0 is no value.                                *)
(***************************************************************************)
EXTENDS Naturals

CONSTANTS
    Procs,    \* callers
    Keys,
    MaxRev    \* bound: revisions

VARIABLES
    rev,      \* largest revision given to these keys, or to others of the store
    store,    \* store[k]: the revision of k, 0 when it is absent
    call      \* call[p]: the request of p

vars == <<rev, store, call>>

Kinds == {"create", "update", "delete", "get"}

NoCall == [pc |-> "idle"]

\* A delete that could not be carried through answers no and reports no error:
\* its no promises nothing.
Failures(kind) == IF kind = "delete" THEN {"no", "error"} ELSE {"error"}

Done(c, answer, result) ==
    [pc |-> "done", kind |-> c.kind, key |-> c.key, answer |-> answer, result |-> result]

Requests == [pc: {"called"}, kind: Kinds, key: Keys, revision: 0..MaxRev]

Call(p) ==
    /\ call[p] = NoCall
    /\ call'[p] \in Requests
    /\ call' = [call EXCEPT ![p] = call'[p]]
    /\ UNCHANGED <<rev, store>>

\* Requests for other keys have their revisions in between.
Others == rev' \in rev..MaxRev

\* The request changes nothing and has its answer.
Decline(p, answer, result) ==
    /\ call' = [call EXCEPT ![p] = Done(call[p], answer, result)]
    /\ Others /\ UNCHANGED store

\* The request gives its key a new revision.  A fault may hide the outcome.
Store(p) ==
    /\ rev' \in (rev + 1)..MaxRev
    /\ store' = [store EXCEPT ![call[p].key] = rev']
    /\ call' \in {[call EXCEPT ![p] = Done(call[p], "yes", rev')],
                  [call EXCEPT ![p] = Done(call[p], "error", 0)]}

Create(p) ==
    /\ call[p].pc = "called" /\ call[p].kind = "create"
    /\ IF store[call[p].key] = 0
       THEN Store(p)
       ELSE Decline(p, "no", 0)

Update(p) ==
    /\ call[p].pc = "called" /\ call[p].kind = "update"
    /\ IF store[call[p].key] = call[p].revision /\ call[p].revision # 0
       THEN Store(p)
       ELSE Decline(p, "no", 0)

\* The delete of a key that is absent succeeds.
Delete(p) ==
    /\ call[p].pc = "called" /\ call[p].kind = "delete"
    /\ LET k == call[p].key IN
       IF store[k] = 0
       THEN Decline(p, "yes", 0)
       ELSE IF call[p].revision \notin {0, store[k]}
       THEN Decline(p, "no", 0)
       ELSE /\ store' = [store EXCEPT ![k] = 0]
            /\ \E answer \in {"yes", "no", "error"} :
                 call' = [call EXCEPT ![p] = Done(call[p], answer, 0)]
            /\ Others

Get(p) ==
    /\ call[p].pc = "called" /\ call[p].kind = "get"
    /\ Decline(p, "yes", store[call[p].key])

\* A request fails, before or after it took effect.
Fail(p) ==
    /\ call[p].pc \in {"called", "done"}
    /\ \E answer \in Failures(call[p].kind) : Decline(p, answer, 0)

Return(p) ==
    /\ call[p].pc = "done"
    /\ call' = [call EXCEPT ![p] = NoCall]
    /\ UNCHANGED <<rev, store>>

\* A process of kine ends, and with it the requests that it was serving.
Abandon ==
    /\ Others /\ UNCHANGED store
    /\ LET now == call
           next == call'
       IN /\ DOMAIN next = Procs
          /\ \A p \in Procs : next[p] \in {NoCall, now[p]}

\* The store may have a past.
Init ==
    /\ rev \in 0..MaxRev
    /\ store \in [Keys -> 0..rev]
    /\ call = [p \in Procs |-> NoCall]

Next ==
    \/ Abandon
    \/ \E p \in Procs :
         Call(p) \/ Create(p) \/ Update(p) \/ Delete(p) \/ Get(p) \/ Fail(p) \/ Return(p)

Spec == Init /\ [][Next]_vars
=============================================================================
