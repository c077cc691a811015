----------------------------- MODULE MemoryRepo ------------------------------
(***************************************************************************)
(* The in-memory repository (adapters/repository/memory) step by step: two *)
(* Go maps guarded by one sync.RWMutex.  A writer changes the maps in      *)
(* place, one item after the other; Snapshot copies one map and then the   *)
(* other.  Nothing but the lock makes these sequences atomic.              *)
(***************************************************************************)
EXTENDS RepoPort

VARIABLES store,     \* r.gauges and r.counters
          mu,        \* r.mu, a sync.RWMutex
          pc,        \* where each client's call has got to
          op,        \* the call it is making
          idx,       \* items of its write already applied
          old,       \* the counter value a += has read
          res,       \* what it will return
          committed  \* history: the store as the last writer unlocked it

vars == <<store, mu, pc, op, idx, old, res, committed>>

Init == /\ store = EmptyStore
        /\ mu = [writer |-> Nil, pending |-> Nil, readers |-> {}, queued |-> {}]
        /\ pc = [c \in Clients |-> "idle"]
        /\ op = [c \in Clients |-> Nil]
        /\ idx = [c \in Clients |-> 0]
        /\ old = [c \in Clients |-> Nil]
        /\ res = [c \in Clients |-> Nil]
        /\ committed = EmptyStore

Goto(c, l) == pc' = [pc EXCEPT ![c] = l]

-----------------------------------------------------------------------------
(* sync.RWMutex: a writer that waits keeps new readers out; when a writer  *)
(* unlocks, the readers that queued meanwhile enter before the next one.   *)
LockPending(c) ==
    /\ mu.pending = Nil /\ mu.writer = Nil
    /\ mu' = [mu EXCEPT !.pending = c]

(* Faulty variant of LockGranted: the writer does not wait for readers.    *)
LockGrantedAmongReaders(c) ==
    /\ mu.pending = c
    /\ mu' = [mu EXCEPT !.pending = Nil, !.writer = c]

LockGranted(c) ==
    /\ mu.pending = c /\ mu.readers = {}
    /\ mu' = [mu EXCEPT !.pending = Nil, !.writer = c]

Unlock(c) == mu' = [mu EXCEPT !.writer = Nil, !.readers = mu.queued, !.queued = {}]

RLock(c) ==
    IF mu.pending = Nil /\ mu.writer = Nil
    THEN mu' = [mu EXCEPT !.readers = @ \cup {c}]
    ELSE mu' = [mu EXCEPT !.queued = @ \cup {c}]

(* Faulty variant of RUnlock: the deferred unlock is missing.              *)
RUnlockForgotten(c) == UNCHANGED mu

RUnlock(c) == mu' = [mu EXCEPT !.readers = @ \ {c}]

-----------------------------------------------------------------------------
Call(c, o) ==
    /\ pc[c] = "idle"
    /\ op' = [op EXCEPT ![c] = o]
    /\ idx' = [idx EXCEPT ![c] = 0]
    /\ res' = [res EXCEPT ![c] = Nil]
    /\ Goto(c, IF IsWrite(o) THEN "lock" ELSE "rlock")
    /\ UNCHANGED <<store, mu, old, committed>>

(* SetGauge, AddCounter, UpdateMany: r.mu.Lock()                           *)
AwaitLock(c) ==
    /\ pc[c] = "lock"
    /\ LockPending(c)
    /\ Goto(c, "pending")
    /\ UNCHANGED <<store, op, idx, old, res, committed>>

EnterWrite(c) ==
    /\ pc[c] = "pending"
    /\ LockGranted(c)
    /\ Goto(c, "load")
    /\ UNCHANGED <<store, op, idx, old, res, committed>>

(* An item is read and written back: r.counters[id] += delta.              *)
LoadItem(c) ==
    /\ pc[c] = "load" /\ idx[c] < Len(op[c].items)
    /\ LET m == op[c].items[idx[c] + 1]
       IN  old' = [old EXCEPT ![c] = IF m.mtype = "counter" THEN store.counters[m.id] ELSE Nil]
    /\ Goto(c, "put")
    /\ UNCHANGED <<store, mu, op, idx, res, committed>>

PutItem(c) ==
    /\ pc[c] = "put"
    /\ LET m == op[c].items[idx[c] + 1]
           seen == IF m.mtype = "counter"
                   THEN [store EXCEPT !.counters = [@ EXCEPT ![m.id] = old[c]]]
                   ELSE store
       IN  store' = ApplyItem(seen, m)
    /\ idx' = [idx EXCEPT ![c] = @ + 1]
    /\ Goto(c, "load")
    /\ UNCHANGED <<mu, op, old, res, committed>>

ExitWrite(c) ==
    /\ pc[c] = "load" /\ idx[c] = Len(op[c].items)
    /\ Unlock(c)
    /\ committed' = store
    /\ Goto(c, "return")
    /\ UNCHANGED <<store, op, idx, old, res>>

-----------------------------------------------------------------------------
(* GetGauge, GetCounter, Snapshot: r.mu.RLock()                            *)
AwaitRLock(c) ==
    /\ pc[c] = "rlock"
    /\ RLock(c)
    /\ Goto(c, "rwait")
    /\ UNCHANGED <<store, op, idx, old, res, committed>>

Lookup(c) ==
    /\ pc[c] = "rwait" /\ c \in mu.readers
    /\ op[c].kind \in {"GetGauge", "GetCounter"}
    /\ res' = [res EXCEPT ![c] = Result(store, op[c])]
    /\ Goto(c, "runlock")
    /\ UNCHANGED <<store, mu, op, idx, old, committed>>

CopyGauges(c) ==
    /\ pc[c] = "rwait" /\ c \in mu.readers
    /\ op[c].kind = "Snapshot"
    /\ res' = [res EXCEPT ![c] = [EmptyStore EXCEPT !.gauges = store.gauges]]
    /\ Goto(c, "copy")
    /\ UNCHANGED <<store, mu, op, idx, old, committed>>

CopyCounters(c) ==
    /\ pc[c] = "copy"
    /\ res' = [res EXCEPT ![c] = [@ EXCEPT !.counters = store.counters]]
    /\ Goto(c, "runlock")
    /\ UNCHANGED <<store, mu, op, idx, old, committed>>

ExitRead(c) ==
    /\ pc[c] = "runlock"
    /\ RUnlock(c)
    /\ Goto(c, "return")
    /\ UNCHANGED <<store, op, idx, old, res, committed>>

Finish(c) ==
    /\ pc[c] = "return"
    /\ op' = [op EXCEPT ![c] = Nil]
    /\ res' = [res EXCEPT ![c] = Nil]
    /\ old' = [old EXCEPT ![c] = Nil]
    /\ idx' = [idx EXCEPT ![c] = 0]
    /\ Goto(c, "idle")
    /\ UNCHANGED <<store, mu, committed>>

-----------------------------------------------------------------------------
Write(c) == EnterWrite(c) \/ LoadItem(c) \/ PutItem(c) \/ ExitWrite(c)

Read(c) == AwaitRLock(c) \/ Lookup(c) \/ CopyGauges(c) \/ CopyCounters(c) \/ ExitRead(c)

Next == \E c \in Clients : \/ \E o \in Ops : Call(c, o)
                           \/ AwaitLock(c) \/ Write(c) \/ Read(c) \/ Finish(c)

Spec == Init /\ [][Next]_vars

(* Every goroutine runs until it blocks; the mutex behind Lock hands itself*)
(* to a waiter eventually (sync.Mutex starvation mode).                    *)
Fairness == \A c \in Clients : /\ WF_vars(Write(c) \/ Read(c) \/ Finish(c))
                               /\ SF_vars(AwaitLock(c))

FairSpec == Spec /\ Fairness

-----------------------------------------------------------------------------
Writing(c) == pc[c] \in {"load", "put"}

Reading(c) == pc[c] \in {"copy", "runlock"} \/ (pc[c] = "rwait" /\ c \in mu.readers)

(* The variables hold what the Go types allow.                             *)
TypeOK ==
    /\ store \in Stores /\ committed \in Stores
    /\ mu \in [writer : Clients \cup {Nil}, pending : Clients \cup {Nil},
               readers : SUBSET Clients, queued : SUBSET Clients]
    /\ pc \in [Clients -> {"idle", "lock", "pending", "load", "put",
                           "rlock", "rwait", "copy", "runlock", "return"}]
    /\ op \in [Clients -> Ops \cup {Nil}]
    /\ idx \in [Clients -> Nat]
    /\ old \in [Clients -> Int64 \cup {Nil}]
    /\ DOMAIN res = Clients

(* The RWMutex keeps a writer alone in the critical section, and the       *)
(* clients it counts are the ones between their lock and their unlock.     *)
LockDiscipline ==
    /\ \A c \in Clients :
         /\ Writing(c) <=> mu.writer = c
         /\ pc[c] = "pending" <=> mu.pending = c
         /\ pc[c] \in {"rwait", "copy", "runlock"} <=> c \in mu.readers \cup mu.queued
         /\ pc[c] \in {"copy", "runlock"} => c \in mu.readers
    /\ mu.writer # Nil => mu.readers = {} /\ mu.pending = Nil
    /\ mu.readers \cap mu.queued = {}

(* A client that holds or awaits the lock for writing makes a write, which *)
(* answers nil; one that does for reading makes a read.                    *)
CallsFit ==
    \A c \in Clients :
        /\ pc[c] # "idle" => op[c] \in Ops
        /\ pc[c] \in {"lock", "pending"} \/ Writing(c) => IsWrite(op[c]) /\ res[c] = Nil
        /\ pc[c] \in {"lock", "pending"} => idx[c] = 0
        /\ pc[c] \in {"rlock", "rwait", "copy", "runlock"} => ~IsWrite(op[c])
        /\ pc[c] = "copy" => op[c].kind = "Snapshot"

(* A write in progress has applied exactly its first idx items to the      *)
(* store the previous writer left, and a read in progress holds values of  *)
(* one and the same store: the one that is there now.                      *)
StepsAreCovered ==
    /\ mu.writer = Nil => store = committed
    /\ \A c \in Clients :
         /\ Writing(c) => /\ idx[c] <= Len(op[c].items)
                          /\ store = AfterItems(committed, op[c].items, idx[c])
         /\ pc[c] = "put" =>
              /\ idx[c] < Len(op[c].items)
              /\ LET m == op[c].items[idx[c] + 1]
                 IN  m.mtype = "counter" => old[c] = store.counters[m.id]
         /\ pc[c] = "copy" => res[c] = [EmptyStore EXCEPT !.gauges = store.gauges]
         /\ pc[c] = "runlock" => res[c] = Result(store, op[c])

(* The inductive invariant behind the refinement.                          *)
StepsUnderLock == TypeOK /\ LockDiscipline /\ CallsFit /\ StepsAreCovered

(* The refinement mapping: what a caller can tell of an open call.         *)
openCall ==
    [c \in Clients |->
        CASE pc[c] = "idle"   -> [phase |-> "idle", op |-> Nil, result |-> Nil]
          [] pc[c] = "return" -> [phase |-> "done", op |-> op[c], result |-> res[c]]
          [] OTHER            -> [phase |-> "called", op |-> op[c], result |-> Nil]]

Atomic == INSTANCE MetricsRepo WITH repo <- committed, call <- openCall

(* Every call of the repository is atomic: the lock-level steps implement  *)
(* MetricsRepo, a write taking effect when it unlocks.                     *)
RefinesRepo == Atomic!RepoSpec

(* No call is left waiting for the lock: every path of every method        *)
(* releases it.                                                            *)
CallsReturn == \A c \in Clients : pc[c] # "idle" ~> pc[c] = "idle"
=============================================================================
