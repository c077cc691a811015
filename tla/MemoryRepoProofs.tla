-------------------------- MODULE MemoryRepoProofs ---------------------------
(***************************************************************************)
(* The lock makes the memory repository atomic: StepsUnderLock is an       *)
(* invariant of MemoryRepo and its steps implement MetricsRepo, for any    *)
(* number of goroutines, names and calls, which never wait in vain.        *)
(***************************************************************************)
EXTENDS MemoryRepo, MetricsProofs

Locs == {"idle", "lock", "pending", "load", "put", "rlock", "rwait", "copy", "runlock", "return"}

Mutexes == [writer : Clients \cup {Nil}, pending : Clients \cup {Nil},
            readers : SUBSET Clients, queued : SUBSET Clients]

(* The calls carry items that can be stored; a read carries none.          *)
LEMMA OpItems ==
    ASSUME NEW o \in Ops
    PROVE  /\ o.items \in Seq(UsableMetric)
           /\ ~IsWrite(o) => o.items = << >> /\ o.kind \in {"GetGauge", "GetCounter", "Snapshot"}
           /\ o.kind \in {"GetGauge", "GetCounter"} => o.name \in Names
<1>1. o \in WriteOps \/ o \in ReadOps
  BY OpsAssumption
<1>2. CASE o \in WriteOps
  BY <1>2 DEF WriteOps, IsWrite
<1>3. CASE o \in ReadOps
  <2>1. << >> \in Seq(UsableMetric)
    OBVIOUS
  <2> QED BY <1>3, <2>1 DEF ReadOps, IsWrite
<1> QED BY <1>1, <1>2, <1>3

(* A repository that was just made satisfies the invariant.                *)
LEMMA InitCovered == Init => StepsUnderLock
<1> SUFFICES ASSUME Init PROVE StepsUnderLock
  OBVIOUS
<1>1. TypeOK
  BY EmptyStoreType DEF Init, TypeOK
<1>2. LockDiscipline
  BY ClientsAssumption DEF Init, LockDiscipline, Writing
<1>3. CallsFit /\ StepsAreCovered
  BY DEF Init, CallsFit, StepsAreCovered, Writing
<1> QED BY <1>1, <1>2, <1>3 DEF StepsUnderLock

-----------------------------------------------------------------------------
(* What a step does to the item at hand: it reads a counter and writes it  *)
(* back, and both together are one iteration of UpdateMany.                *)
LEMMA PutIsApply ==
    ASSUME StepsUnderLock, NEW c \in Clients, PutItem(c)
    PROVE  /\ op[c].items[idx[c] + 1] \in UsableMetric
           /\ store' = ApplyItem(store, op[c].items[idx[c] + 1])
           /\ store' = AfterItems(committed, op[c].items, idx[c] + 1)
           /\ store' \in Stores
<1> DEFINE its == op[c].items
           m == its[idx[c] + 1]
<1>1. pc[c] = "put" /\ Writing(c) /\ op[c] \in Ops
  BY DEF PutItem, Writing, StepsUnderLock, CallsFit
<1>2. /\ its \in Seq(UsableMetric) /\ idx[c] \in Nat /\ idx[c] < Len(its)
      /\ store = AfterItems(committed, its, idx[c])
      /\ store \in Stores
      /\ m.mtype = "counter" => old[c] = store.counters[m.id]
  BY <1>1, OpItems DEF StepsUnderLock, StepsAreCovered, TypeOK
<1>3. idx[c] + 1 \in 1 .. Len(its)
  BY <1>2
<1>4. m \in UsableMetric
  BY <1>2, <1>3
<1>5. m.id \in Names
  BY <1>4 DEF UsableMetric
<1>6. (IF m.mtype = "counter"
       THEN [store EXCEPT !.counters = [@ EXCEPT ![m.id] = old[c]]] ELSE store) = store
  BY <1>2, <1>5 DEF Stores
<1>7. store' = ApplyItem(store, m)
  BY <1>6 DEF PutItem
<1>8. AfterItems(committed, its, idx[c] + 1) = ApplyItem(AfterItems(committed, its, idx[c]), m)
  <2>1. \A k \in 1 .. Len(its) :
          AfterItems(committed, its, k) = ApplyItem(AfterItems(committed, its, k - 1), its[k])
    BY <1>2, AfterItemsUnfold
  <2>2. (idx[c] + 1) - 1 = idx[c]
    BY <1>2
  <2> QED BY <1>3, <2>1, <2>2
<1>9. store' \in Stores
  BY <1>2, <1>4, <1>7, ApplyItemType
<1> QED BY <1>2, <1>4, <1>7, <1>8, <1>9

(* Every step of a client keeps the types.                                 *)
LEMMA StepTypes ==
    ASSUME StepsUnderLock, NEW c \in Clients,
           \/ \E o \in Ops : Call(c, o)
           \/ AwaitLock(c) \/ Write(c) \/ Read(c) \/ Finish(c)
    PROVE  TypeOK'
<1> USE DEF Goto
<1>0. TypeOK
  BY DEF StepsUnderLock
<1>1. ASSUME NEW o \in Ops, Call(c, o) PROVE TypeOK'
  BY <1>0, <1>1 DEF Call, TypeOK
<1>2. CASE AwaitLock(c)
  BY <1>0, <1>2 DEF AwaitLock, LockPending, TypeOK
<1>3. CASE EnterWrite(c)
  BY <1>0, <1>3 DEF EnterWrite, LockGranted, TypeOK
<1>4. CASE LoadItem(c)
  <2> DEFINE m == op[c].items[idx[c] + 1]
  <2>1. op[c] \in Ops /\ idx[c] \in Nat /\ idx[c] < Len(op[c].items)
    BY <1>0, <1>4 DEF LoadItem, StepsUnderLock, CallsFit, TypeOK
  <2>2. op[c].items \in Seq(UsableMetric) /\ idx[c] + 1 \in 1 .. Len(op[c].items)
    BY <2>1, OpItems
  <2>3. m \in UsableMetric
    BY <2>2
  <2>4. m.id \in Names
    BY <2>3 DEF UsableMetric
  <2>5. store.counters[m.id] \in Int64 \cup {Nil}
    BY <1>0, <2>4 DEF TypeOK, Stores
  <2>6. old' \in [Clients -> Int64 \cup {Nil}]
    <3> HIDE DEF m
    <3>1. old' = [old EXCEPT ![c] = IF m.mtype = "counter" THEN store.counters[m.id] ELSE Nil]
      BY <1>4 DEF LoadItem, m
    <3> QED BY <1>0, <2>5, <3>1 DEF TypeOK
  <2> QED BY <1>0, <1>4, <2>6 DEF LoadItem, TypeOK
<1>5. CASE PutItem(c)
  <2>1. store' \in Stores
    BY <1>5, PutIsApply
  <2> QED BY <1>0, <1>5, <2>1 DEF PutItem, TypeOK
<1>6. CASE ExitWrite(c)
  BY <1>0, <1>6 DEF ExitWrite, Unlock, TypeOK
<1>7. CASE AwaitRLock(c)
  BY <1>0, <1>7 DEF AwaitRLock, RLock, TypeOK
<1>8. CASE Lookup(c) \/ CopyGauges(c) \/ CopyCounters(c)
  BY <1>0, <1>8 DEF Lookup, CopyGauges, CopyCounters, TypeOK
<1>9. CASE ExitRead(c)
  BY <1>0, <1>9 DEF ExitRead, RUnlock, TypeOK
<1>10. CASE Finish(c)
  BY <1>0, <1>10 DEF Finish, TypeOK
<1> QED
  BY <1>1, <1>2, <1>3, <1>4, <1>5, <1>6, <1>7, <1>8, <1>9, <1>10 DEF Write, Read

(* Every step of a client keeps the mutex and the program counters in      *)
(* agreement.                                                              *)
LEMMA StepLock ==
    ASSUME StepsUnderLock, NEW c \in Clients,
           \/ \E o \in Ops : Call(c, o)
           \/ AwaitLock(c) \/ Write(c) \/ Read(c) \/ Finish(c)
    PROVE  LockDiscipline'
<1> USE DEF Goto
<1>0. /\ mu \in Mutexes /\ pc \in [Clients -> Locs] /\ Nil \notin Clients
      /\ LockDiscipline
  BY ClientsAssumption DEF StepsUnderLock, TypeOK, Mutexes, Locs
<1> USE DEF LockDiscipline, Writing, Mutexes
<1>1. ASSUME NEW o \in Ops, Call(c, o) PROVE LockDiscipline'
  BY <1>0, <1>1 DEF Call
<1>2. CASE AwaitLock(c)
  BY <1>0, <1>2 DEF AwaitLock, LockPending
<1>3. CASE EnterWrite(c)
  BY <1>0, <1>3 DEF EnterWrite, LockGranted
<1>4. CASE LoadItem(c)
  BY <1>0, <1>4 DEF LoadItem
<1>5. CASE PutItem(c)
  BY <1>0, <1>5 DEF PutItem
<1>6. CASE ExitWrite(c)
  BY <1>0, <1>6 DEF ExitWrite, Unlock
<1>7. CASE AwaitRLock(c)
  BY <1>0, <1>7 DEF AwaitRLock, RLock
<1>8. CASE Lookup(c) \/ CopyGauges(c) \/ CopyCounters(c)
  BY <1>0, <1>8 DEF Lookup, CopyGauges, CopyCounters
<1>9. CASE ExitRead(c)
  BY <1>0, <1>9 DEF ExitRead, RUnlock
<1>10. CASE Finish(c)
  BY <1>0, <1>10 DEF Finish
<1> QED
  BY <1>1, <1>2, <1>3, <1>4, <1>5, <1>6, <1>7, <1>8, <1>9, <1>10 DEF Write, Read

(* Every step of a client keeps it on the side of the lock its call is for.*)
LEMMA StepFits ==
    ASSUME StepsUnderLock, NEW c \in Clients,
           \/ \E o \in Ops : Call(c, o)
           \/ AwaitLock(c) \/ Write(c) \/ Read(c) \/ Finish(c)
    PROVE  CallsFit'
<1> USE DEF Goto, CallsFit, Writing
<1>0. /\ pc \in [Clients -> Locs] /\ op \in [Clients -> Ops \cup {Nil}]
      /\ idx \in [Clients -> Nat] /\ CallsFit /\ DOMAIN res = Clients
  BY DEF StepsUnderLock, TypeOK, Locs
<1>1. ASSUME NEW o \in Ops, Call(c, o) PROVE CallsFit'
  <2>1. res' = [res EXCEPT ![c] = Nil] /\ op' = [op EXCEPT ![c] = o] /\ idx' = [idx EXCEPT ![c] = 0]
    BY <1>1 DEF Call
  <2> QED BY <1>0, <1>1, <2>1 DEF Call
<1>2. CASE AwaitLock(c) \/ EnterWrite(c)
  BY <1>0, <1>2 DEF AwaitLock, EnterWrite
<1>3. CASE LoadItem(c) \/ PutItem(c) \/ ExitWrite(c)
  BY <1>0, <1>3 DEF LoadItem, PutItem, ExitWrite
<1>4. CASE AwaitRLock(c) \/ Lookup(c) \/ CopyGauges(c) \/ CopyCounters(c) \/ ExitRead(c)
  BY <1>0, <1>4 DEF AwaitRLock, Lookup, CopyGauges, CopyCounters, ExitRead
<1>5. CASE Finish(c)
  BY <1>0, <1>5 DEF Finish
<1> QED
  BY <1>1, <1>2, <1>3, <1>4, <1>5 DEF Write, Read

-----------------------------------------------------------------------------
(* The items of a write, applied one by one, add up to its batch, and no   *)
(* reader is there while they are.                                         *)
LEMMA WriteCovered ==
    ASSUME StepsUnderLock, NEW c \in Clients,
           EnterWrite(c) \/ LoadItem(c) \/ PutItem(c) \/ ExitWrite(c)
    PROVE  StepsAreCovered'
<1> USE DEF Goto, Writing
<1>0. /\ mu \in Mutexes /\ pc \in [Clients -> Locs] /\ idx \in [Clients -> Nat]
      /\ old \in [Clients -> Int64 \cup {Nil}]
      /\ LockDiscipline /\ StepsAreCovered /\ Nil \notin Clients
  BY ClientsAssumption DEF StepsUnderLock, TypeOK, Mutexes, Locs
<1>1. CASE EnterWrite(c)
  <2>1. /\ pc[c] = "pending" /\ mu.pending = c /\ mu.readers = {}
        /\ mu' = [mu EXCEPT !.pending = Nil, !.writer = c] /\ pc' = [pc EXCEPT ![c] = "load"]
        /\ UNCHANGED <<store, op, idx, old, res, committed>>
    BY <1>1 DEF EnterWrite, LockGranted
  <2>2. mu.writer = Nil
    BY <1>0, <2>1 DEF LockDiscipline, Mutexes
  <2>3. op[c].items \in Seq(UsableMetric) /\ idx[c] = 0
    BY <2>1, OpItems DEF StepsUnderLock, CallsFit
  <2>4. store = AfterItems(committed, op[c].items, 0) /\ 0 <= Len(op[c].items)
    BY <1>0, <2>2, <2>3, AfterItemsUnfold DEF StepsAreCovered
  <2>5. mu'.writer = c
    BY <1>0, <2>1 DEF Mutexes
  <2> QED BY <1>0, <2>1, <2>2, <2>3, <2>4, <2>5 DEF StepsAreCovered
<1>2. CASE LoadItem(c)
  BY <1>0, <1>2 DEF LoadItem, StepsAreCovered
<1>3. CASE PutItem(c)
  <2>1. /\ pc[c] = "put" /\ pc' = [pc EXCEPT ![c] = "load"]
        /\ idx' = [idx EXCEPT ![c] = @ + 1] /\ UNCHANGED <<mu, op, old, res, committed>>
    BY <1>3 DEF PutItem
  <2>2. mu.writer = c /\ mu.readers = {}
    BY <1>0, <2>1 DEF LockDiscipline
  <2>3. \A d \in Clients \ {c} : ~Writing(d) /\ pc[d] \notin {"copy", "runlock"}
    BY <1>0, <2>2 DEF LockDiscipline
  <2>4. store' = AfterItems(committed, op[c].items, idx[c] + 1)
    BY <1>3, PutIsApply
  <2>5. idx[c] < Len(op[c].items) /\ op[c].items \in Seq(UsableMetric)
    BY <1>0, <2>1, OpItems DEF StepsAreCovered, StepsUnderLock, CallsFit
  <2>6. idx'[c] = idx[c] + 1 /\ idx'[c] <= Len(op[c].items)
    BY <1>0, <2>1, <2>5
  <2> QED BY <1>0, <2>1, <2>2, <2>3, <2>4, <2>6 DEF StepsAreCovered
<1>4. CASE ExitWrite(c)
  <2>1. /\ pc[c] = "load" /\ pc' = [pc EXCEPT ![c] = "return"]
        /\ committed' = store /\ UNCHANGED <<store, op, idx, old, res>>
    BY <1>4 DEF ExitWrite
  <2>2. mu.writer = c /\ mu.readers = {}
    BY <1>0, <2>1 DEF LockDiscipline
  <2>3. \A d \in Clients \ {c} : ~Writing(d) /\ pc[d] \notin {"copy", "runlock"}
    BY <1>0, <2>2 DEF LockDiscipline
  <2> QED BY <1>0, <2>1, <2>3 DEF StepsAreCovered
<1> QED BY <1>1, <1>2, <1>3, <1>4

(* The parts of a snapshot are copied from one and the same store.         *)
LEMMA ReadCovered ==
    ASSUME StepsUnderLock, NEW c \in Clients,
           AwaitRLock(c) \/ Lookup(c) \/ CopyGauges(c) \/ CopyCounters(c) \/ ExitRead(c)
    PROVE  StepsAreCovered'
<1> USE DEF Goto, Writing
<1>0. /\ mu \in Mutexes /\ pc \in [Clients -> Locs] /\ DOMAIN res = Clients
      /\ StepsAreCovered /\ store \in Stores
  BY DEF StepsUnderLock, TypeOK, Mutexes, Locs
<1>1. CASE AwaitRLock(c)
  BY <1>0, <1>1 DEF AwaitRLock, RLock, StepsAreCovered, Mutexes
<1>2. CASE Lookup(c)
  BY <1>0, <1>2 DEF Lookup, StepsAreCovered
<1>3. CASE CopyGauges(c)
  BY <1>0, <1>3 DEF CopyGauges, StepsAreCovered
<1>4. CASE CopyCounters(c)
  <2>1. op[c].kind = "Snapshot" /\ res[c] = [EmptyStore EXCEPT !.gauges = store.gauges]
    BY <1>0, <1>4 DEF CopyCounters, StepsUnderLock, CallsFit, StepsAreCovered
  <2>2. [res[c] EXCEPT !.counters = store.counters] = store
    BY <1>0, <2>1 DEF EmptyStore, Stores
  <2>3. res' = [res EXCEPT ![c] = store]
    BY <1>4, <2>2 DEF CopyCounters
  <2>4. Result(store, op[c]) = store
    BY <2>1 DEF Result
  <2> QED BY <1>0, <1>4, <2>3, <2>4 DEF CopyCounters, StepsAreCovered
<1>5. CASE ExitRead(c)
  BY <1>0, <1>5 DEF ExitRead, RUnlock, StepsAreCovered, Mutexes
<1> QED BY <1>1, <1>2, <1>3, <1>4, <1>5

(* A call that begins, waits for the lock or has ended changes no map.     *)
LEMMA CallCovered ==
    ASSUME StepsUnderLock, NEW c \in Clients,
           (\E o \in Ops : Call(c, o)) \/ AwaitLock(c) \/ Finish(c)
    PROVE  StepsAreCovered'
<1> USE DEF Goto, Writing
<1>0. /\ mu \in Mutexes /\ pc \in [Clients -> Locs] /\ DOMAIN res = Clients
      /\ op \in [Clients -> Ops \cup {Nil}] /\ idx \in [Clients -> Nat]
      /\ old \in [Clients -> Int64 \cup {Nil}] /\ StepsAreCovered
  BY DEF StepsUnderLock, TypeOK, Mutexes, Locs
<1>1. ASSUME NEW o \in Ops, Call(c, o) PROVE StepsAreCovered'
  <2>1. pc' = [pc EXCEPT ![c] = "lock"] \/ pc' = [pc EXCEPT ![c] = "rlock"]
    BY <1>1 DEF Call
  <2> QED BY <1>0, <1>1, <2>1 DEF Call, StepsAreCovered
<1>2. CASE AwaitLock(c)
  BY <1>0, <1>2 DEF AwaitLock, LockPending, StepsAreCovered, Mutexes
<1>3. CASE Finish(c)
  BY <1>0, <1>3 DEF Finish, StepsAreCovered
<1> QED BY <1>1, <1>2, <1>3

(* The invariant is inductive.                                             *)
LEMMA NextCovered == StepsUnderLock /\ [Next]_vars => StepsUnderLock'
<1> SUFFICES ASSUME StepsUnderLock, [Next]_vars PROVE StepsUnderLock'
  OBVIOUS
<1>1. CASE UNCHANGED vars
  BY <1>1 DEF vars, StepsUnderLock, TypeOK, LockDiscipline, CallsFit, StepsAreCovered, Writing
<1>2. ASSUME NEW c \in Clients,
             \/ \E o \in Ops : Call(c, o)
             \/ AwaitLock(c) \/ Write(c) \/ Read(c) \/ Finish(c)
      PROVE  StepsUnderLock'
  <2>1. TypeOK' /\ LockDiscipline' /\ CallsFit'
    BY <1>2, StepTypes, StepLock, StepFits
  <2>2. StepsAreCovered'
    BY <1>2, WriteCovered, ReadCovered, CallCovered DEF Write, Read
  <2> QED BY <2>1, <2>2 DEF StepsUnderLock
<1> QED BY <1>1, <1>2 DEF Next

(* Whatever the goroutines do, a writer is alone under the lock, what it   *)
(* has done so far is a prefix of its batch, and what a reader holds is    *)
(* one store: the RWMutex of memory.go covers every step of every method.  *)
THEOREM EveryStepUnderLock == Spec => []StepsUnderLock
BY InitCovered, NextCovered, PTL DEF Spec

-----------------------------------------------------------------------------
(* The refinement mapping, one client at a time.                           *)
LEMMA OpenCallEffect ==
    ASSUME NEW c \in Clients, NEW l, NEW o, NEW r,
           pc \in [Clients -> Locs], op \in [Clients -> Ops \cup {Nil}], DOMAIN res = Clients,
           pc' = [pc EXCEPT ![c] = l], op' = [op EXCEPT ![c] = o],
           res' = [res EXCEPT ![c] = r]
    PROVE  openCall' = [openCall EXCEPT ![c] =
               CASE l = "idle"   -> [phase |-> "idle", op |-> Nil, result |-> Nil]
                 [] l = "return" -> [phase |-> "done", op |-> o, result |-> r]
                 [] OTHER        -> [phase |-> "called", op |-> o, result |-> Nil]]
<1> DEFINE Seen(k, p, q) == CASE k = "idle"   -> [phase |-> "idle", op |-> Nil, result |-> Nil]
                              [] k = "return" -> [phase |-> "done", op |-> p, result |-> q]
                              [] OTHER        -> [phase |-> "called", op |-> p, result |-> Nil]
<1>1. openCall = [d \in Clients |-> Seen(pc[d], op[d], res[d])]
  BY DEF openCall
<1>2. openCall' = [d \in Clients |-> Seen(pc'[d], op'[d], res'[d])]
  BY DEF openCall
<1>3. pc'[c] = l /\ op'[c] = o /\ res'[c] = r
  OBVIOUS
<1>4. \A d \in Clients \ {c} : pc'[d] = pc[d] /\ op'[d] = op[d] /\ res'[d] = res[d]
  OBVIOUS
<1> HIDE DEF Seen
<1>5. openCall' = [openCall EXCEPT ![c] = Seen(l, o, r)]
  BY <1>1, <1>2, <1>3, <1>4
<1> QED BY <1>5 DEF Seen

(* A step inside a call shows its caller nothing.                          *)
LEMMA OpenCallHidden ==
    ASSUME NEW c \in Clients, NEW l, pc \in [Clients -> Locs],
           pc[c] \notin {"idle", "return"}, l \notin {"idle", "return"},
           pc' = [pc EXCEPT ![c] = l], op' = op,
           res' = res \/ \E r : res' = [res EXCEPT ![c] = r], DOMAIN res = Clients
    PROVE  openCall' = openCall
<1>1. ASSUME NEW d \in Clients PROVE openCall'[d] = openCall[d]
  <2>1. CASE d = c
    BY <2>1 DEF openCall
  <2>2. CASE d # c
    <3>1. pc'[d] = pc[d] /\ op'[d] = op[d] /\ res'[d] = res[d]
      BY <2>2
    <3> QED BY <3>1 DEF openCall
  <2> QED BY <2>1, <2>2
<1> QED BY <1>1 DEF openCall

(* The abstract specification speaks of the same stores and calls.         *)
LEMMA SameOperators ==
    /\ Atomic!EmptyStore = EmptyStore
    /\ \A s, o : Atomic!Result(s, o) = Result(s, o)
    /\ \A s, its : Atomic!UpdateMany(s, its) = UpdateMany(s, its)
<1>1. Atomic!EmptyStore = EmptyStore
  BY DEF Atomic!EmptyStore, EmptyStore, Atomic!Names, Names
<1>2. \A s, o : Atomic!Result(s, o) = Result(s, o)
  BY DEF Atomic!Result, Result
<1>3. \A s, its : Atomic!UpdateMany(s, its) = UpdateMany(s, its)
  BY DEF Atomic!UpdateMany, UpdateMany, Atomic!AfterItems, AfterItems,
         Atomic!ApplyItem, ApplyItem, Atomic!SetGauge, SetGauge,
         Atomic!AddCounter, AddCounter, Atomic!Wrap, Wrap
<1> QED BY <1>1, <1>2, <1>3

(* The first state is the abstract one.                                    *)
LEMMA InitRefines == Init => Atomic!RepoInit
<1> SUFFICES ASSUME Init PROVE Atomic!RepoInit
  OBVIOUS
<1>1. openCall = [c \in Clients |-> Atomic!Idle]
  BY DEF Init, openCall, Atomic!Idle
<1> QED BY <1>1, SameOperators DEF Init, Atomic!RepoInit

(* A write takes effect at its unlock: the batch as a whole.               *)
LEMMA ExitWriteRefines ==
    ASSUME StepsUnderLock, NEW c \in Clients, ExitWrite(c)
    PROVE  Atomic!TakeEffect(c)
<1>1. /\ pc[c] = "load" /\ idx[c] = Len(op[c].items) /\ committed' = store
      /\ pc' = [pc EXCEPT ![c] = "return"] /\ UNCHANGED <<op, res>>
  BY DEF ExitWrite, Goto
<1>2. /\ pc \in [Clients -> Locs] /\ op \in [Clients -> Ops \cup {Nil}]
      /\ DOMAIN res = Clients
  BY DEF StepsUnderLock, TypeOK, Locs
<1>3. openCall[c] = [phase |-> "called", op |-> op[c], result |-> Nil]
  BY <1>1, <1>2 DEF openCall
<1>4. IsWrite(op[c]) /\ res[c] = Nil /\ op[c] \in Ops
  BY <1>1 DEF StepsUnderLock, CallsFit, Writing
<1>5. committed' = UpdateMany(committed, op[c].items)
  BY <1>1 DEF StepsUnderLock, StepsAreCovered, Writing, UpdateMany
<1>6. Result(committed, op[c]) = Nil
  BY <1>4 DEF Result, IsWrite
<1>7. openCall' = [openCall EXCEPT ![c] = [phase |-> "done", op |-> op[c], result |-> Nil]]
  <2>1. \A d \in Clients \ {c} : openCall'[d] = openCall[d]
    BY <1>1, <1>2 DEF openCall
  <2>2. openCall'[c] = [phase |-> "done", op |-> op[c], result |-> Nil]
    BY <1>1, <1>2, <1>4 DEF openCall
  <2> QED BY <2>1, <2>2 DEF openCall
<1>8. /\ committed' = Atomic!UpdateMany(committed, openCall[c].op.items)
      /\ Atomic!Result(committed, openCall[c].op) = Nil
  <2>1. openCall[c].op = op[c]
    BY <1>3
  <2> QED BY <2>1, <1>5, <1>6, SameOperators
<1>9. [phase |-> "done", op |-> openCall[c].op, result |-> Atomic!Result(committed, openCall[c].op)]
        = [phase |-> "done", op |-> op[c], result |-> Nil]
  <2>1. openCall[c].op = op[c]
    BY <1>3
  <2> QED BY <2>1, <1>8
<1>10. openCall' = [openCall EXCEPT ![c] =
          [phase |-> "done", op |-> openCall[c].op, result |-> Atomic!Result(committed, openCall[c].op)]]
  BY <1>7, <1>9, Zenon
<1>11. openCall[c].phase = "called"
  BY <1>3
<1> QED BY <1>8, <1>10, <1>11, Zenon DEF Atomic!TakeEffect

(* A read takes effect at its unlock, where nothing has changed since it   *)
(* looked.                                                                 *)
LEMMA ExitReadRefines ==
    ASSUME StepsUnderLock, NEW c \in Clients, ExitRead(c)
    PROVE  Atomic!TakeEffect(c)
<1>1. /\ pc[c] = "runlock" /\ pc' = [pc EXCEPT ![c] = "return"]
      /\ UNCHANGED <<op, res, committed>>
  BY DEF ExitRead, Goto
<1>2. /\ pc \in [Clients -> Locs] /\ op \in [Clients -> Ops \cup {Nil}]
      /\ DOMAIN res = Clients
  BY DEF StepsUnderLock, TypeOK, Locs
<1>3. openCall[c] = [phase |-> "called", op |-> op[c], result |-> Nil]
  BY <1>1, <1>2 DEF openCall
<1>4. op[c] \in Ops /\ op[c].items = << >>
  BY <1>1, OpItems DEF StepsUnderLock, CallsFit
<1>5. store = committed
  <2>1. c \in mu.readers
    BY <1>1 DEF StepsUnderLock, LockDiscipline
  <2> QED BY <2>1 DEF StepsUnderLock, LockDiscipline, StepsAreCovered
<1>6. committed' = UpdateMany(committed, op[c].items)
  BY <1>1, <1>4, AfterItemsUnfold, OpItems, Len(<< >>) = 0 DEF UpdateMany
<1>7. res[c] = Result(committed, op[c])
  BY <1>1, <1>5 DEF StepsUnderLock, StepsAreCovered
<1>8. openCall' = [openCall EXCEPT ![c] = [phase |-> "done", op |-> op[c], result |-> res[c]]]
  <2>1. \A d \in Clients \ {c} : openCall'[d] = openCall[d]
    BY <1>1, <1>2 DEF openCall
  <2>2. openCall'[c] = [phase |-> "done", op |-> op[c], result |-> res[c]]
    BY <1>1, <1>2 DEF openCall
  <2> QED BY <2>1, <2>2 DEF openCall
<1>9. /\ committed' = Atomic!UpdateMany(committed, openCall[c].op.items)
      /\ Atomic!Result(committed, openCall[c].op) = res[c]
  <2>1. openCall[c].op = op[c]
    BY <1>3
  <2> QED BY <2>1, <1>6, <1>7, SameOperators
<1>10. [phase |-> "done", op |-> openCall[c].op, result |-> Atomic!Result(committed, openCall[c].op)]
         = [phase |-> "done", op |-> op[c], result |-> res[c]]
  <2>1. openCall[c].op = op[c]
    BY <1>3
  <2> QED BY <2>1, <1>9
<1>11. openCall' = [openCall EXCEPT ![c] =
          [phase |-> "done", op |-> openCall[c].op, result |-> Atomic!Result(committed, openCall[c].op)]]
  BY <1>8, <1>10, Zenon
<1>12. openCall[c].phase = "called"
  BY <1>3
<1> QED BY <1>9, <1>11, <1>12, Zenon DEF Atomic!TakeEffect

(* Every step of a client is a step of the abstract repository or hidden   *)
(* from its callers.                                                       *)
LEMMA StepRefines ==
    ASSUME StepsUnderLock, NEW c \in Clients,
           \/ \E o \in Ops : Call(c, o)
           \/ AwaitLock(c) \/ Write(c) \/ Read(c) \/ Finish(c)
    PROVE  Atomic!RepoNext \/ UNCHANGED Atomic!repoVars
<1>0. /\ pc \in [Clients -> Locs] /\ op \in [Clients -> Ops \cup {Nil}]
      /\ DOMAIN res = Clients
  BY DEF StepsUnderLock, TypeOK, Locs
<1>1. ASSUME NEW o \in Ops, Call(c, o) PROVE Atomic!Invoke(c, o)
  <2>1. PICK l \in {"lock", "rlock"} : pc' = [pc EXCEPT ![c] = l]
    BY <1>1 DEF Call, Goto
  <2>2. /\ pc[c] = "idle" /\ op' = [op EXCEPT ![c] = o] /\ res' = [res EXCEPT ![c] = Nil]
        /\ UNCHANGED committed
    BY <1>1 DEF Call
  <2>3. openCall[c].phase = "idle"
    BY <2>2 DEF openCall
  <2>4. openCall' = [openCall EXCEPT ![c] = [phase |-> "called", op |-> o, result |-> Nil]]
    <3>1. CASE l = "lock"
      BY <1>0, <2>1, <2>2, <3>1, OpenCallEffect
    <3>2. CASE l = "rlock"
      BY <1>0, <2>1, <2>2, <3>2, OpenCallEffect
    <3> QED BY <3>1, <3>2
  <2> QED BY <2>2, <2>3, <2>4 DEF Atomic!Invoke
<1>2. CASE \/ AwaitLock(c) \/ EnterWrite(c) \/ LoadItem(c) \/ PutItem(c)
           \/ AwaitRLock(c) \/ Lookup(c) \/ CopyGauges(c) \/ CopyCounters(c)
  <2>1. /\ pc[c] \notin {"idle", "return"} /\ UNCHANGED <<op, committed>>
        /\ \E l \in {"pending", "load", "put", "rwait", "runlock", "copy"} :
              pc' = [pc EXCEPT ![c] = l]
        /\ res' = res \/ \E r : res' = [res EXCEPT ![c] = r]
    BY <1>2 DEF AwaitLock, EnterWrite, LoadItem, PutItem, AwaitRLock, Lookup, CopyGauges,
                CopyCounters, Goto
  <2>2. openCall' = openCall
    BY <1>0, <2>1, OpenCallHidden
  <2> QED BY <2>1, <2>2 DEF Atomic!repoVars
<1>3. CASE Finish(c)
  <2>1. /\ pc[c] = "return" /\ pc' = [pc EXCEPT ![c] = "idle"]
        /\ op' = [op EXCEPT ![c] = Nil] /\ res' = [res EXCEPT ![c] = Nil]
        /\ UNCHANGED committed
    BY <1>3 DEF Finish, Goto
  <2>2. openCall[c].phase = "done"
    BY <2>1 DEF openCall
  <2>3. openCall' = [openCall EXCEPT ![c] = Atomic!Idle]
    BY <1>0, <2>1, OpenCallEffect DEF Atomic!Idle
  <2>4. Atomic!Return(c)
    BY <2>1, <2>2, <2>3 DEF Atomic!Return
  <2> QED BY <2>4 DEF Atomic!RepoNext
<1>4. CASE ExitWrite(c) \/ ExitRead(c)
  BY <1>4, ExitWriteRefines, ExitReadRefines DEF Atomic!RepoNext
<1> QED BY <1>1, <1>2, <1>3, <1>4 DEF Write, Read, Atomic!RepoNext

(* The memory repository implements MetricsRepo: every call of it, however *)
(* its lock-level steps interleave with those of others, looks to its      *)
(* callers as if it took effect in one moment between call and return.     *)
THEOREM MemoryRepoIsAtomic == Spec => RefinesRepo
<1>1. StepsUnderLock /\ [Next]_vars => [Atomic!RepoNext]_(Atomic!repoVars)
  <2> SUFFICES ASSUME StepsUnderLock, [Next]_vars
               PROVE  Atomic!RepoNext \/ UNCHANGED Atomic!repoVars
    OBVIOUS
  <2>1. CASE UNCHANGED vars
    BY <2>1 DEF vars, Atomic!repoVars, openCall
  <2>2. CASE Next
    BY <2>2, StepRefines DEF Next
  <2> QED BY <2>1, <2>2
<1> QED
  BY <1>1, InitRefines, EveryStepUnderLock, PTL DEF Spec, RefinesRepo, Atomic!RepoSpec

-----------------------------------------------------------------------------
(* The guards of what a goroutine does next: it has a step to take, or it  *)
(* waits inside Lock or RLock.                                             *)
CanStep(c) ==
    \/ pc[c] \in {"put", "rlock", "copy", "runlock", "return"}
    \/ pc[c] = "load" /\ (idx[c] < Len(op[c].items) \/ idx[c] = Len(op[c].items))
    \/ pc[c] = "rwait" /\ c \in mu.readers /\ op[c].kind \in {"GetGauge", "GetCounter", "Snapshot"}
    \/ pc[c] = "lock" /\ mu.pending = Nil /\ mu.writer = Nil
    \/ pc[c] = "pending" /\ mu.pending = c /\ mu.readers = {}

(* A goroutine in Lock waits for the writer before it, or for the readers  *)
(* it found inside; one in RLock for the writer that came first.           *)
WaitsFor(c, d) ==
    \/ pc[c] = "lock" /\ d \in {mu.writer, mu.pending}
    \/ pc[c] = "pending" /\ d \in mu.readers
    \/ pc[c] = "rwait" /\ c \in mu.queued /\ d \in {mu.writer, mu.pending}

(* No wait is a deadlock: whoever is in a call can go on, or waits for one *)
(* that can, or for a writer that waits for a reader that can.             *)
WaitsAreShort ==
    \A c \in Clients : pc[c] # "idle" =>
        \/ CanStep(c)
        \/ \E d \in Clients : WaitsFor(c, d) /\
             (CanStep(d) \/ \E e \in Clients : WaitsFor(d, e) /\ CanStep(e))

(* Readers queue only behind a writer, which lets them in when it leaves.  *)
QueuedBehind == mu.queued # {} => mu.writer # Nil \/ mu.pending # Nil

(* Every step keeps the queue behind a writer.                             *)
LEMMA QueuedStep == StepsUnderLock /\ QueuedBehind /\ [Next]_vars => QueuedBehind'
<1> SUFFICES ASSUME StepsUnderLock, QueuedBehind, [Next]_vars PROVE QueuedBehind'
  OBVIOUS
<1>1. mu \in Mutexes
  BY DEF StepsUnderLock, TypeOK, Mutexes
<1>2. CASE UNCHANGED mu
  BY <1>2 DEF QueuedBehind
<1>3. ASSUME NEW c \in Clients, AwaitLock(c) \/ EnterWrite(c) PROVE QueuedBehind'
  BY <1>1, <1>3, ClientsAssumption
     DEF AwaitLock, EnterWrite, LockPending, LockGranted, QueuedBehind, Mutexes
<1>4. ASSUME NEW c \in Clients, ExitWrite(c) PROVE QueuedBehind'
  BY <1>1, <1>4 DEF ExitWrite, Unlock, QueuedBehind, Mutexes
<1>5. ASSUME NEW c \in Clients, AwaitRLock(c) PROVE QueuedBehind'
  <2>1. RLock(c)
    BY <1>5 DEF AwaitRLock
  <2>2. CASE mu.pending = Nil /\ mu.writer = Nil
    BY <1>1, <2>1, <2>2 DEF RLock, QueuedBehind, Mutexes
  <2>3. CASE ~(mu.pending = Nil /\ mu.writer = Nil)
    BY <1>1, <2>1, <2>3 DEF RLock, QueuedBehind, Mutexes
  <2> QED BY <2>2, <2>3
<1>6. ASSUME NEW c \in Clients, ExitRead(c) PROVE QueuedBehind'
  BY <1>1, <1>6 DEF ExitRead, RUnlock, QueuedBehind, Mutexes
<1>7. UNCHANGED mu \/ \E c \in Clients : AwaitLock(c) \/ EnterWrite(c) \/ ExitWrite(c)
                                          \/ AwaitRLock(c) \/ ExitRead(c)
  BY DEF Next, vars, Call, Write, Read, LoadItem, PutItem, Lookup, CopyGauges, CopyCounters, Finish
<1> QED BY <1>2, <1>3, <1>4, <1>5, <1>6, <1>7

(* Whoever holds the lock goes on, and a pending writer does so or waits   *)
(* for readers that do.                                                    *)
LEMMA HoldersStep ==
    ASSUME StepsUnderLock
    PROVE  /\ mu.writer # Nil => mu.writer \in Clients /\ CanStep(mu.writer)
           /\ \A e \in mu.readers : e \in Clients /\ CanStep(e)
           /\ mu.pending # Nil => /\ mu.pending \in Clients
                                  /\ \/ CanStep(mu.pending)
                                     \/ \E e \in Clients : WaitsFor(mu.pending, e) /\ CanStep(e)
<1>1. mu \in Mutexes /\ pc \in [Clients -> Locs] /\ idx \in [Clients -> Nat]
  BY DEF StepsUnderLock, TypeOK, Mutexes, Locs
<1>2. ASSUME mu.writer # Nil PROVE mu.writer \in Clients /\ CanStep(mu.writer)
  <2>1. mu.writer \in Clients
    BY <1>1, <1>2 DEF Mutexes
  <2> DEFINE w == mu.writer
  <2>2. pc[w] \in {"load", "put"}
    BY <2>1 DEF StepsUnderLock, LockDiscipline, Writing
  <2> HIDE DEF w
  <2>3. w \in Clients
    BY <2>1 DEF w
  <2>4. ASSUME pc[w] = "put" PROVE CanStep(w)
    BY <2>4 DEF CanStep
  <2>5. ASSUME pc[w] = "load" PROVE CanStep(w)
    <3>1. op[w] \in Ops /\ idx[w] <= Len(op[w].items)
      BY <2>3, <2>5 DEF StepsUnderLock, StepsAreCovered, CallsFit, Writing
    <3>2. Len(op[w].items) \in Nat /\ idx[w] \in Nat
      BY <1>1, <2>3, <3>1, OpItems
    <3>3. idx[w] < Len(op[w].items) \/ idx[w] = Len(op[w].items)
      BY <3>1, <3>2
    <3> QED BY <2>5, <3>3 DEF CanStep
  <2>6. CanStep(w)
    BY <2>2, <2>4, <2>5
  <2> QED BY <2>1, <2>6 DEF w
<1>3. ASSUME NEW e \in mu.readers PROVE e \in Clients /\ CanStep(e)
  <2>1. e \in Clients
    BY <1>1, <1>3 DEF Mutexes
  <2>2. pc[e] \in {"rwait", "copy", "runlock"}
    BY <1>3, <2>1 DEF StepsUnderLock, LockDiscipline
  <2>3. CASE pc[e] = "rwait"
    <3>1. op[e] \in Ops /\ ~IsWrite(op[e])
      BY <2>1, <2>3 DEF StepsUnderLock, CallsFit
    <3>2. op[e].kind \in {"GetGauge", "GetCounter", "Snapshot"}
      BY <3>1, OpItems
    <3> QED BY <1>3, <2>1, <2>3, <3>2 DEF CanStep
  <2> QED BY <2>1, <2>2, <2>3 DEF CanStep
<1>4. ASSUME mu.pending # Nil
      PROVE  /\ mu.pending \in Clients
             /\ \/ CanStep(mu.pending)
                \/ \E e \in Clients : WaitsFor(mu.pending, e) /\ CanStep(e)
  <2> DEFINE p == mu.pending
  <2>1. p \in Clients
    BY <1>1, <1>4 DEF Mutexes
  <2>2. pc[p] = "pending"
    BY <2>1 DEF StepsUnderLock, LockDiscipline
  <2>3. CASE mu.readers = {}
    BY <2>1, <2>2, <2>3 DEF CanStep
  <2>4. CASE mu.readers # {}
    <3>1. PICK e \in mu.readers : TRUE
      BY <2>4
    <3>2. e \in Clients /\ CanStep(e)
      BY <1>3
    <3>3. WaitsFor(p, e)
      BY <2>2, <3>1 DEF WaitsFor
    <3> QED BY <2>1, <3>2, <3>3
  <2> QED BY <2>3, <2>4
<1> QED BY <1>2, <1>3, <1>4

(* The safety half of CallsReturn: however calls interleave, nobody waits  *)
(* for a lock that no one will release, and a chain of waits has at most   *)
(* two links, from a reader or writer over a pending writer to a reader.   *)
THEOREM NoLockIsLost == Spec => []WaitsAreShort
<1>1. Init => QueuedBehind
  BY DEF Init, QueuedBehind
<1>2. StepsUnderLock /\ QueuedBehind => WaitsAreShort
  <2> SUFFICES ASSUME StepsUnderLock, QueuedBehind, NEW c \in Clients, pc[c] # "idle", ~CanStep(c)
               PROVE  \E d \in Clients : WaitsFor(c, d) /\
                        (CanStep(d) \/ \E e \in Clients : WaitsFor(d, e) /\ CanStep(e))
    BY DEF WaitsAreShort
  <2>1. pc[c] \in Locs
    BY DEF StepsUnderLock, TypeOK, Locs
  <2>2. ASSUME \A d \in {mu.writer, mu.pending} : WaitsFor(c, d), mu.writer # Nil \/ mu.pending # Nil
        PROVE  \E d \in Clients : WaitsFor(c, d) /\
                 (CanStep(d) \/ \E e \in Clients : WaitsFor(d, e) /\ CanStep(e))
    <3>1. CASE mu.writer # Nil
      <4>1. mu.writer \in Clients /\ CanStep(mu.writer)
        BY <3>1, HoldersStep
      <4> QED BY <2>2, <4>1
    <3>2. CASE mu.pending # Nil
      <4>1. /\ mu.pending \in Clients
            /\ \/ CanStep(mu.pending)
               \/ \E e \in Clients : WaitsFor(mu.pending, e) /\ CanStep(e)
        BY <3>2, HoldersStep
      <4> QED BY <2>2, <4>1
    <3> QED BY <2>2, <3>1, <3>2
  <2>3. CASE pc[c] \in {"load", "put"}
    <3>1. mu.writer = c /\ mu.writer # Nil
      BY <2>3, ClientsAssumption DEF StepsUnderLock, LockDiscipline, Writing
    <3>2. CanStep(mu.writer)
      BY <3>1, HoldersStep
    <3> QED BY <3>1, <3>2
  <2>4. CASE pc[c] = "lock"
    <3>1. mu.writer # Nil \/ mu.pending # Nil
      BY <2>4 DEF CanStep
    <3>2. \A d \in {mu.writer, mu.pending} : WaitsFor(c, d)
      BY <2>4 DEF WaitsFor
    <3> QED BY <2>2, <3>1, <3>2
  <2>5. CASE pc[c] = "pending"
    <3>1. mu.pending = c /\ mu.readers # {}
      BY <2>5 DEF StepsUnderLock, LockDiscipline, CanStep
    <3>2. PICK e \in mu.readers : TRUE
      BY <3>1
    <3>3. e \in Clients /\ CanStep(e)
      BY HoldersStep
    <3>4. WaitsFor(c, e)
      BY <2>5, <3>2 DEF WaitsFor
    <3> QED BY <3>3, <3>4
  <2>6. CASE pc[c] = "rwait"
    <3>1. c \in mu.readers \cup mu.queued
      BY <2>6 DEF StepsUnderLock, LockDiscipline
    <3>2. c \notin mu.readers
      BY HoldersStep
    <3>3. c \in mu.queued /\ (mu.writer # Nil \/ mu.pending # Nil)
      BY <3>1, <3>2 DEF QueuedBehind
    <3>4. \A d \in {mu.writer, mu.pending} : WaitsFor(c, d)
      BY <2>6, <3>3 DEF WaitsFor
    <3> QED BY <2>2, <3>3, <3>4
  <2> QED BY <2>1, <2>3, <2>4, <2>5, <2>6 DEF Locs, CanStep
<1> QED BY <1>1, <1>2, QueuedStep, EveryStepUnderLock, PTL DEF Spec
=============================================================================
