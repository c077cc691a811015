--------------------------- MODULE PostgresProofs ----------------------------
(***************************************************************************)
(* Proofs about the Postgres repository, for any clients and calls and any *)
(* number of attempts, errors and broken connections.                      *)
(*                                                                         *)
(* What is committed is a sequence of whole calls because a transaction's  *)
(* own rows are what its items make of the committed ones (WorkInv), which *)
(* stays true while others commit because they cannot have its locks       *)
(* (LockInv).  What a call is answered follows from an account of the      *)
(* attempts that may still commit (DebtInv).  That the rows are those of a *)
(* memory repository needs that no statement overflowed on the way         *)
(* (MemoryInv).  The victim of a deadlock of two batches succeeds with its *)
(* retry because the other then holds all its rows (RecoverInv).  Nobody   *)
(* waits in vain: a ring of waiters of least size is a cycle, and every    *)
(* other chain of waits ends at a session that moves (NobodyIsStranded).   *)
(***************************************************************************)
EXTENDS PostgresRepo, MetricsProofs

LiveIn == {"ready", "exec", "commit"}

Live(s) == session[s].phase \in LiveIn

SessionRecord(q) ==
    q = [phase |-> q.phase, done |-> q.done, pending |-> q.pending,
         result |-> q.result, lost |-> q.lost]

SessionFits(q) ==
    /\ SessionRecord(q)
    /\ q.phase \in {"none", "ready", "exec", "commit", "answering", "ended"}
    /\ q.done \in Nat /\ q.pending \in [Names -> Rows \cup {Nil}] /\ q.lost \in BOOLEAN

CallRecord(q) ==
    q = [pc |-> q.pc, op |-> q.op, try |-> q.try, result |-> q.result, since |-> q.since]

CallFits(q) ==
    /\ CallRecord(q)
    /\ q.pc \in {"idle", "trying", "backoff", "ok", "error"}
    /\ q.try \in 0 .. Delays /\ q.since \in Nat
    /\ IF q.pc = "idle" THEN q.try = 0 ELSE q.op \in Ops
    /\ q.pc = "backoff" => q.try < Delays

Types ==
    /\ table \in [Names -> Rows \cup {Nil}] /\ log \in Seq(Clients)
    /\ lock \in [Names -> Sessions \cup {Nil}]
    /\ session = [s \in Sessions |-> session[s]] /\ \A s \in Sessions : SessionFits(session[s])
    /\ call = [c \in Clients |-> call[c]] /\ \A c \in Clients : CallFits(call[c])
    /\ broken \in [Clients -> Nat]

(* Sessions belong to attempts of calls that have begun; the database is   *)
(* heard only by the attempt that is being made.                           *)
CallInv ==
    /\ \A s \in Sessions : session[s].phase # "none" =>
         call[s[1]].pc # "idle" /\ s[2] <= call[s[1]].try
    /\ \A s \in Sessions : (Live(s) \/ session[s].phase = "answering") /\ ~session[s].lost =>
         call[s[1]].pc = "trying" /\ s = Current(s[1])
    /\ \A i \in DOMAIN log : call[log[i]].pc # "idle"
    /\ \A c \in Clients : call[c].since <= Len(log)

(* A transaction holds the locks of the rows it has changed.               *)
LockInv ==
    \A s \in Sessions : \A n \in Names :
        lock[n] = s <=> Live(s) /\ session[s].pending[n] # Nil

(* What an open transaction has done: its own rows are those its items     *)
(* make of the committed ones.                                             *)
Work(s) ==
    /\ session[s].done <= Len(Op(s).items)
    /\ AutoCommit(s) => session[s].done = 0 /\ session[s].pending = NoRows
    /\ \A n \in Names :
         IF session[s].pending[n] = Nil
         THEN \A j \in 1 .. session[s].done : Op(s).items[j].id # n
         ELSE session[s].pending[n] = RowsAfter(table, Op(s).items, session[s].done)[n]

PhaseFits(s) ==
    /\ session[s].phase = "exec" => IsWrite(Op(s)) /\ session[s].done < Len(Op(s).items)
    /\ session[s].phase = "commit" => ~AutoCommit(s) /\ session[s].done = Len(Op(s).items)

WorkInv == \A s \in Sessions : Live(s) => Work(s) /\ PhaseFits(s)

(* A read answers with a committed state of its time.                      *)
ReadFrom(c, result) ==
    \E k \in call[c].since .. Len(log) : result = Result(StoreOf(Replay(k)), call[c].op)

(* A Snapshot that was cut answers with some names of such a state.        *)
CutFrom(c, result) ==
    /\ call[c].op.kind = "Snapshot"
    /\ \E k \in call[c].since .. Len(log), names \in SUBSET Names :
           result = Truncated(Result(StoreOf(Replay(k)), call[c].op), names)

ReadInv ==
    /\ \A s \in Sessions : session[s].phase = "answering" /\ ~IsWrite(Op(s)) =>
         ReadFrom(s[1], session[s].result)
    /\ ReadsCommitted

(* The attempts of c that may still commit.                                *)
LiveTries(c) == {t \in 0 .. Delays : Live(<<c, t>>)}

DebtInv ==
    /\ \A c \in Clients :
         Applied(c) + Cardinality(LiveTries(c)) + (IF call[c].pc = "backoff" THEN 1 ELSE 0)
             <= broken[c] + (IF call[c].pc \in {"idle", "error"} THEN 0 ELSE 1)
    /\ \A s \in Sessions : session[s].phase = "answering" /\ IsWrite(Op(s)) => Applied(s[1]) > 0
    /\ \A c \in Clients :
         call[c].pc = "ok" /\ IsWrite(call[c].op) /\ call[c].op.items # << >> => Applied(c) > 0

PostgresInv ==
    Types /\ CallInv /\ LockInv /\ WorkInv /\ CallsSerialize /\ ReadInv /\ DebtInv

-----------------------------------------------------------------------------
(* Rows as a function of the name.                                         *)
IsRows(rows) == rows = [n \in Names |-> rows[n]]

IsPutLoop(f, rows, items, n) ==
    f = [i \in 0 .. n |-> IF i = 0 THEN rows ELSE PutItem(f[i-1], items[i])]

(* The function RowsAfter defines by recursion exists.                     *)
LEMMA PutLoopExists ==
    ASSUME NEW rows, NEW items, NEW n \in Nat
    PROVE  \E f : IsPutLoop(f, rows, items, n)
<1> DEFINE Bad == {k \in Nat : ~\E f : IsPutLoop(f, rows, items, k)}
<1>1. SUFFICES ASSUME Bad # {} PROVE FALSE
  OBVIOUS
<1>2. PICK m \in Bad : \A k \in Bad : m <= k
  BY <1>1, LeastNatural
<1>3. CASE m = 0
  <2> DEFINE f == [i \in 0 .. 0 |-> rows]
  <2>1. IsPutLoop(f, rows, items, 0)
    BY DEF IsPutLoop
  <2> QED BY <1>2, <1>3, <2>1
<1>4. CASE m # 0
  <2>1. m - 1 \in Nat /\ m - 1 \notin Bad
    BY <1>2, <1>4
  <2>2. PICK g : IsPutLoop(g, rows, items, m - 1)
    BY <2>1
  <2> DEFINE f == [i \in 0 .. m |-> IF i = m THEN PutItem(g[m-1], items[m]) ELSE g[i]]
  <2>3. \A i \in 0 .. m - 1 : g[i] = IF i = 0 THEN rows ELSE PutItem(g[i-1], items[i])
    BY <2>2 DEF IsPutLoop
  <2>4. ASSUME NEW i \in 0 .. m
        PROVE  f[i] = IF i = 0 THEN rows ELSE PutItem(f[i-1], items[i])
    <3>1. CASE i = m
      BY <1>4, <2>1, <3>1
    <3>2. CASE i # m
      <4>1. i \in 0 .. m - 1 /\ f[i] = g[i]
        BY <2>1, <3>2
      <4>2. i # 0 => i - 1 \in 0 .. m /\ i - 1 # m /\ f[i-1] = g[i-1]
        BY <2>1, <3>2
      <4> QED BY <2>3, <4>1, <4>2
    <3> QED BY <3>1, <3>2
  <2>5. IsPutLoop(f, rows, items, m)
    BY <2>4 DEF IsPutLoop
  <2> QED BY <1>2, <2>5
<1> QED BY <1>3, <1>4

(* The rows after k items are those after k - 1 with the next item put.    *)
LEMMA RowsAfterUnfold ==
    ASSUME NEW rows, NEW items \in Seq(UsableMetric)
    PROVE  /\ RowsAfter(rows, items, 0) = rows
           /\ \A k \in 1 .. Len(items) :
                 RowsAfter(rows, items, k) = PutItem(RowsAfter(rows, items, k - 1), items[k])
<1> DEFINE f == CHOOSE f : IsPutLoop(f, rows, items, Len(items))
<1>1. Len(items) \in Nat
  OBVIOUS
<1>2. IsPutLoop(f, rows, items, Len(items))
  BY <1>1, PutLoopExists
<1>3. \A k : RowsAfter(rows, items, k) = f[k]
  BY DEF RowsAfter, IsPutLoop
<1>4. \A k \in 0 .. Len(items) :
         f[k] = IF k = 0 THEN rows ELSE PutItem(f[k-1], items[k])
  BY <1>2 DEF IsPutLoop
<1> HIDE DEF f
<1> QED BY <1>1, <1>3, <1>4

(* Upserts work row by row: what they make of a row depends on that row    *)
(* only, and they leave a row no item names.                               *)
LEMMA RowsAfterLocal ==
    ASSUME NEW rows, IsRows(rows), NEW rows2, IsRows(rows2),
           NEW items \in Seq(UsableMetric), NEW k \in 0 .. Len(items)
    PROVE  /\ IsRows(RowsAfter(rows, items, k))
           /\ \A n \in Names : rows[n] = rows2[n] =>
                RowsAfter(rows, items, k)[n] = RowsAfter(rows2, items, k)[n]
           /\ \A n \in Names : (\A j \in 1 .. k : items[j].id # n) =>
                RowsAfter(rows, items, k)[n] = rows[n]
<1> DEFINE A(i) == RowsAfter(rows, items, i)
           B(i) == RowsAfter(rows2, items, i)
           Ok(i) == /\ IsRows(A(i)) /\ IsRows(B(i))
                    /\ \A n \in Names : rows[n] = rows2[n] => A(i)[n] = B(i)[n]
                    /\ \A n \in Names : (\A j \in 1 .. i : items[j].id # n) => A(i)[n] = rows[n]
           Bad == {i \in 0 .. Len(items) : ~Ok(i)}
<1>1. /\ A(0) = rows /\ \A i \in 1 .. Len(items) : A(i) = PutItem(A(i - 1), items[i])
      /\ B(0) = rows2 /\ \A i \in 1 .. Len(items) : B(i) = PutItem(B(i - 1), items[i])
  BY RowsAfterUnfold
<1>2. \A i \in 1 .. Len(items) : items[i].id \in Names
  BY DEF UsableMetric
<1> HIDE DEF A, B
<1>3. ASSUME NEW i \in 1 .. Len(items), Ok(i - 1) PROVE Ok(i)
  <2> DEFINE x == items[i].id
             m == items[i]
  <2>1. A(i) = PutItem(A(i - 1), m) /\ B(i) = PutItem(B(i - 1), m) /\ x \in Names
    BY <1>1, <1>2
  <2>2. A(i) = [n \in Names |-> IF n = x THEN Upsert(A(i - 1)[x], m) ELSE A(i - 1)[n]]
    BY <1>3, <2>1 DEF PutItem, IsRows
  <2>3. B(i) = [n \in Names |-> IF n = x THEN Upsert(B(i - 1)[x], m) ELSE B(i - 1)[n]]
    BY <1>3, <2>1 DEF PutItem, IsRows
  <2>4. IsRows(A(i)) /\ IsRows(B(i))
    BY <2>2, <2>3 DEF IsRows
  <2>5. \A n \in Names : rows[n] = rows2[n] => A(i)[n] = B(i)[n]
    BY <1>3, <2>2, <2>3
  <2>6. \A n \in Names : (\A j \in 1 .. i : items[j].id # n) => A(i)[n] = rows[n]
    BY <1>3, <2>2
  <2> QED BY <2>4, <2>5, <2>6
<1>4. Ok(0)
  BY <1>1
<1> HIDE DEF Ok
<1>5. \A i \in 0 .. Len(items) : Ok(i)
  <2> SUFFICES ASSUME Bad # {} PROVE FALSE
    OBVIOUS
  <2>1. PICK i \in Bad : \A j \in Bad : i <= j
    BY LeastNatural, Bad \in SUBSET Nat
  <2>2. i # 0
    BY <1>4, <2>1
  <2>3. i \in 1 .. Len(items) /\ i - 1 \in 0 .. Len(items) /\ i - 1 \notin Bad
    BY <2>1, <2>2
  <2> QED BY <1>3, <2>1, <2>3
<1> QED BY <1>5 DEF Ok, A, B

(* Rows no item names stay as they are.                                    *)
LEMMA RowsAfterUntouched ==
    ASSUME NEW rows, IsRows(rows), NEW items \in Seq(UsableMetric), NEW k \in 0 .. Len(items)
    PROVE  /\ IsRows(RowsAfter(rows, items, k))
           /\ \A n \in Names : (\A j \in 1 .. k : items[j].id # n) =>
                RowsAfter(rows, items, k)[n] = rows[n]
BY RowsAfterLocal

(* One more item.                                                          *)
LEMMA RowsAfterNext ==
    ASSUME NEW rows, IsRows(rows), NEW items \in Seq(UsableMetric), NEW k \in Nat, k < Len(items)
    PROVE  LET m == items[k + 1] IN
           /\ m \in UsableMetric /\ m.id \in Names
           /\ \A n \in Names : RowsAfter(rows, items, k + 1)[n] =
                 IF n = m.id THEN Upsert(RowsAfter(rows, items, k)[n], m)
                 ELSE RowsAfter(rows, items, k)[n]
<1>1. k + 1 \in 1 .. Len(items) /\ k \in 0 .. Len(items) /\ (k + 1) - 1 = k
  OBVIOUS
<1>2. items[k + 1] \in UsableMetric /\ items[k + 1].id \in Names
  BY <1>1 DEF UsableMetric
<1>3. RowsAfter(rows, items, k + 1) = PutItem(RowsAfter(rows, items, k), items[k + 1])
  <2>1. \A i \in 1 .. Len(items) :
           RowsAfter(rows, items, i) = PutItem(RowsAfter(rows, items, i - 1), items[i])
    BY RowsAfterUnfold
  <2>2. RowsAfter(rows, items, k + 1) = PutItem(RowsAfter(rows, items, (k + 1) - 1), items[k + 1])
    BY ONLY <1>1, <2>1
  <2> QED BY ONLY <1>1, <2>2
<1>4. IsRows(RowsAfter(rows, items, k))
  BY <1>1, RowsAfterLocal
<1> QED BY <1>2, <1>3, <1>4 DEF PutItem, IsRows

-----------------------------------------------------------------------------
(* The replay of a log, given the calls.                                   *)
IsReplay(f, lg, calls, n) ==
    f = [i \in 0 .. n |-> IF i = 0 THEN NoRows ELSE PutAll(f[i-1], calls[lg[i]].op.items)]

ReplayOf(lg, calls, k) ==
    LET whole[i \in 0 .. Len(lg)] ==
          IF i = 0 THEN NoRows ELSE PutAll(whole[i-1], calls[lg[i]].op.items)
    IN  whole[k]

(* Replay as an operator of the log and the calls, so that both can be     *)
(* primed.                                                                 *)
LEMMA ReplayIs ==
    /\ \A k : Replay(k) = ReplayOf(log, call, k)
    /\ CallsSerialize <=> table = ReplayOf(log, call, Len(log))
    /\ CallsSerialize' <=> table' = ReplayOf(log', call', Len(log'))
BY DEF Replay, ReplayOf, CallsSerialize

(* The recursive function inside Replay exists.                            *)
LEMMA ReplayExists ==
    ASSUME NEW lg, NEW calls, NEW n \in Nat
    PROVE  \E f : IsReplay(f, lg, calls, n)
<1> DEFINE Bad == {k \in Nat : ~\E f : IsReplay(f, lg, calls, k)}
           Items(i) == calls[lg[i]].op.items
<1>1. SUFFICES ASSUME Bad # {} PROVE FALSE
  OBVIOUS
<1>2. PICK m \in Bad : \A k \in Bad : m <= k
  BY <1>1, LeastNatural
<1>3. CASE m = 0
  <2> DEFINE f == [i \in 0 .. 0 |-> NoRows]
  <2>1. IsReplay(f, lg, calls, 0)
    BY DEF IsReplay
  <2> QED BY <1>2, <1>3, <2>1
<1>4. CASE m # 0
  <2>1. m - 1 \in Nat /\ m - 1 \notin Bad
    BY <1>2, <1>4
  <2>2. PICK g : IsReplay(g, lg, calls, m - 1)
    BY <2>1
  <2> DEFINE f == [i \in 0 .. m |-> IF i = m THEN PutAll(g[m-1], Items(m)) ELSE g[i]]
  <2>3. \A i \in 0 .. m - 1 : g[i] = IF i = 0 THEN NoRows ELSE PutAll(g[i-1], Items(i))
    BY <2>2 DEF IsReplay
  <2> HIDE DEF Items
  <2>4. ASSUME NEW i \in 0 .. m
        PROVE  f[i] = IF i = 0 THEN NoRows ELSE PutAll(f[i-1], Items(i))
    <3>1. CASE i = m
      BY <1>4, <2>1, <3>1
    <3>2. CASE i # m
      <4>1. i \in 0 .. m - 1 /\ f[i] = g[i]
        BY <2>1, <3>2
      <4>2. i # 0 => i - 1 \in 0 .. m /\ i - 1 # m /\ f[i-1] = g[i-1]
        BY <2>1, <3>2
      <4> QED BY <2>3, <4>1, <4>2
    <3> QED BY <3>1, <3>2
  <2>5. IsReplay(f, lg, calls, m)
    BY <2>4 DEF IsReplay, Items
  <2> QED BY <1>2, <2>5
<1> QED BY <1>3, <1>4

(* Call by call.                                                           *)
LEMMA ReplayUnfold ==
    ASSUME NEW S, NEW lg \in Seq(S), NEW calls
    PROVE  /\ ReplayOf(lg, calls, 0) = NoRows
           /\ \A k \in 1 .. Len(lg) :
                ReplayOf(lg, calls, k) = PutAll(ReplayOf(lg, calls, k - 1), calls[lg[k]].op.items)
<1> DEFINE f == CHOOSE f : IsReplay(f, lg, calls, Len(lg))
<1>1. Len(lg) \in Nat
  OBVIOUS
<1>2. IsReplay(f, lg, calls, Len(lg))
  BY <1>1, ReplayExists
<1>3. \A k : ReplayOf(lg, calls, k) = f[k]
  BY DEF ReplayOf, IsReplay
<1>4. \A k \in 0 .. Len(lg) :
         f[k] = IF k = 0 THEN NoRows ELSE PutAll(f[k-1], calls[lg[k]].op.items)
  BY <1>2 DEF IsReplay
<1> HIDE DEF f
<1> QED BY <1>1, <1>3, <1>4

(* What was committed stays as it was when more is.                        *)
Extends(lg2, calls2, lg, calls) ==
    /\ lg \in Seq(Clients) /\ lg2 \in Seq(Clients) /\ Len(lg) <= Len(lg2)
    /\ \A i \in 1 .. Len(lg) : lg2[i] = lg[i] /\ calls2[lg[i]].op = calls[lg[i]].op

(* Replaying a log that was extended gives the same rows up to its old     *)
(* end.                                                                    *)
LEMMA ReplayStable ==
    ASSUME NEW lg, NEW lg2, NEW calls, NEW calls2, Extends(lg2, calls2, lg, calls)
    PROVE  \A k \in 0 .. Len(lg) : ReplayOf(lg2, calls2, k) = ReplayOf(lg, calls, k)
<1> DEFINE A(k) == ReplayOf(lg, calls, k)
           B(k) == ReplayOf(lg2, calls2, k)
           Bad == {k \in 0 .. Len(lg) : B(k) # A(k)}
<1>0. /\ lg \in Seq(Clients) /\ lg2 \in Seq(Clients) /\ Len(lg) <= Len(lg2)
      /\ \A i \in 1 .. Len(lg) : lg2[i] = lg[i] /\ calls2[lg[i]].op = calls[lg[i]].op
  BY DEF Extends
<1>1. /\ A(0) = NoRows /\ \A k \in 1 .. Len(lg) : A(k) = PutAll(A(k - 1), calls[lg[k]].op.items)
      /\ B(0) = NoRows /\ \A k \in 1 .. Len(lg2) : B(k) = PutAll(B(k - 1), calls2[lg2[k]].op.items)
  BY <1>0, ReplayUnfold
<1>2. Len(lg) \in Nat /\ Len(lg2) \in Nat
  BY <1>0
<1> HIDE DEF A, B
<1>3. SUFFICES ASSUME Bad # {} PROVE FALSE
  BY DEF A, B
<1>4. PICK k \in Bad : \A j \in Bad : k <= j
  BY <1>3, LeastNatural, Bad \in SUBSET Nat
<1>5. k # 0
  BY <1>1, <1>4
<1>6. k \in 1 .. Len(lg) /\ k \in 1 .. Len(lg2) /\ k - 1 \in 0 .. Len(lg) /\ k - 1 \notin Bad
  BY <1>0, <1>2, <1>4, <1>5
<1>7. B(k - 1) = A(k - 1)
  BY <1>6
<1>8. B(k) = PutAll(A(k - 1), calls[lg[k]].op.items)
  BY <1>0, <1>1, <1>6, <1>7
<1> QED BY <1>1, <1>4, <1>6, <1>8

-----------------------------------------------------------------------------
(* What a step does to the calls and the log: a call that has begun keeps  *)
(* its request, and nothing committed is taken back.                       *)
Kept ==
    \A d \in Clients : call[d].pc # "idle" =>
        call'[d].pc # "idle" /\ call'[d].op = call[d].op /\ call'[d].since = call[d].since

LogGrows ==
    /\ log' \in Seq(Clients) /\ Len(log) <= Len(log')
    /\ \A i \in 1 .. Len(log) : log'[i] = log[i]

(* A step that keeps begun calls and only extends the log changes no       *)
(* replay.                                                                 *)
LEMMA ReplayKept ==
    ASSUME Types, CallInv, Kept, LogGrows
    PROVE  \A k \in 0 .. Len(log) : ReplayOf(log', call', k) = ReplayOf(log, call, k)
<1>1. log \in Seq(Clients) /\ log' \in Seq(Clients) /\ Len(log) <= Len(log')
  BY DEF Types, LogGrows
<1>2. \A i \in 1 .. Len(log) : log'[i] = log[i] /\ call'[log[i]].op = call[log[i]].op
  <2> SUFFICES ASSUME NEW i \in 1 .. Len(log)
               PROVE  log'[i] = log[i] /\ call'[log[i]].op = call[log[i]].op
    OBVIOUS
  <2>1. log[i] \in Clients /\ i \in DOMAIN log
    BY <1>1
  <2>2. call[log[i]].pc # "idle"
    BY <2>1 DEF CallInv
  <2> QED BY <2>1, <2>2 DEF Kept, LogGrows
<1>3. Extends(log', call', log, call)
  BY <1>1, <1>2 DEF Extends
<1> QED BY <1>3, ReplayStable

(* ReadFrom, given the log and the calls.                                  *)
ReadIn(lg, calls, c, result) ==
    \E k \in calls[c].since .. Len(lg) :
        result = Result(StoreOf(ReplayOf(lg, calls, k)), calls[c].op)

(* CutFrom, given the log and the calls.                                   *)
CutIn(lg, calls, c, result) ==
    /\ calls[c].op.kind = "Snapshot"
    /\ \E k \in calls[c].since .. Len(lg), names \in SUBSET Names :
           result = Truncated(Result(StoreOf(ReplayOf(lg, calls, k)), calls[c].op), names)

(* ReadFrom and CutFrom as operators of the log and the calls.             *)
LEMMA ReadInIs ==
    /\ \A c, result : ReadFrom(c, result) <=> ReadIn(log, call, c, result)
    /\ \A c, result : CutFrom(c, result) <=> CutIn(log, call, c, result)
    /\ ReadsCommitted <=>
         \A c \in Clients : call[c].pc = "ok" /\ ~IsWrite(call[c].op) =>
             \/ ReadFrom(c, call[c].result)
             \/ broken[c] > 0 /\ CutFrom(c, call[c].result)
    /\ ReadInv' <=>
         /\ \A t \in Sessions : session'[t].phase = "answering" /\ ~IsWrite(call'[t[1]].op) =>
              ReadIn(log', call', t[1], session'[t].result)
         /\ \A c \in Clients : call'[c].pc = "ok" /\ ~IsWrite(call'[c].op) =>
              \/ ReadIn(log', call', c, call'[c].result)
              \/ broken'[c] > 0 /\ CutIn(log', call', c, call'[c].result)
<1>1. \A c, result : ReadFrom(c, result) <=> ReadIn(log, call, c, result)
  BY DEF ReadFrom, ReadIn, Replay, ReplayOf
<1>2. \A c, result : CutFrom(c, result) <=> CutIn(log, call, c, result)
  BY DEF CutFrom, CutIn, Replay, ReplayOf
<1>3. ReadsCommitted <=>
        \A c \in Clients : call[c].pc = "ok" /\ ~IsWrite(call[c].op) =>
            \/ ReadFrom(c, call[c].result)
            \/ broken[c] > 0 /\ CutFrom(c, call[c].result)
  BY DEF ReadsCommitted, ReadFrom, CutFrom
<1>4. ReadsCommitted' <=>
        \A c \in Clients : call'[c].pc = "ok" /\ ~IsWrite(call'[c].op) =>
            \/ ReadIn(log', call', c, call'[c].result)
            \/ broken'[c] > 0 /\ CutIn(log', call', c, call'[c].result)
  BY DEF ReadsCommitted, ReadIn, CutIn, Replay, ReplayOf
<1>5. ReadInv' <=>
        /\ \A t \in Sessions : session'[t].phase = "answering" /\ ~IsWrite(call'[t[1]].op) =>
             ReadIn(log', call', t[1], session'[t].result)
        /\ ReadsCommitted'
  BY DEF ReadFrom, ReadIn, ReadInv, Op, Replay, ReplayOf
<1> QED BY <1>1, <1>2, <1>3, <1>4, <1>5

(* What a read has found stays a committed state of its time.              *)
LEMMA ReadFromKept ==
    ASSUME Types, CallInv, Kept, LogGrows, NEW c \in Clients, call[c].pc # "idle",
           NEW result, ReadFrom(c, result)
    PROVE  ReadIn(log', call', c, result)
<1>1. call'[c].op = call[c].op /\ call'[c].since = call[c].since
  BY DEF Kept
<1>2. PICK k \in call[c].since .. Len(log) : result = Result(StoreOf(Replay(k)), call[c].op)
  BY DEF ReadFrom
<1>3. call[c].since \in Nat /\ Len(log) \in Nat /\ Len(log') \in Nat /\ Len(log) <= Len(log')
  BY DEF Types, CallFits, LogGrows
<1>4. k \in 0 .. Len(log) /\ k \in call'[c].since .. Len(log')
  BY <1>1, <1>2, <1>3
<1>5. ReplayOf(log', call', k) = Replay(k)
  BY <1>4, ReplayKept, ReplayIs
<1>6. result = Result(StoreOf(ReplayOf(log', call', k)), call'[c].op)
  BY <1>1, <1>2, <1>5
<1> QED BY <1>4, <1>6 DEF ReadIn

(* And what a cut Snapshot has stays of one.                               *)
LEMMA CutFromKept ==
    ASSUME Types, CallInv, Kept, LogGrows, NEW c \in Clients, call[c].pc # "idle",
           NEW result, CutFrom(c, result)
    PROVE  CutIn(log', call', c, result)
<1>1. call'[c].op = call[c].op
  BY DEF Kept
<1>2. PICK k \in call[c].since .. Len(log), names \in SUBSET Names :
        result = Truncated(Result(StoreOf(Replay(k)), call[c].op), names)
  BY DEF CutFrom
<1> DEFINE whole == Result(StoreOf(Replay(k)), call[c].op)
<1>3. ReadFrom(c, whole)
  BY <1>2 DEF ReadFrom
<1>4. result = Truncated(whole, names) /\ call'[c].op.kind = "Snapshot"
  BY <1>1, <1>2 DEF CutFrom
<1> HIDE DEF whole
<1>5. ReadIn(log', call', c, whole)
  BY <1>3, ReadFromKept
<1>6. PICK j \in call'[c].since .. Len(log') :
        whole = Result(StoreOf(ReplayOf(log', call', j)), call'[c].op)
  BY <1>5 DEF ReadIn
<1> QED BY <1>2, <1>4, <1>6 DEF CutIn

(* A log that stays, and a log that takes one more call.                   *)
LEMMA SameLog ==
    ASSUME Types, UNCHANGED log
    PROVE  LogGrows
BY DEF Types, LogGrows

(* The log after a commit.                                                 *)
LEMMA LongerLog ==
    ASSUME Types, NEW c \in Clients, log' = Append(log, c)
    PROVE  /\ LogGrows /\ Len(log') = Len(log) + 1 /\ log'[Len(log) + 1] = c
           /\ DOMAIN log = 1 .. Len(log) /\ DOMAIN log' = 1 .. Len(log) + 1
           /\ Len(log) \in Nat
BY DEF Types, LogGrows

(* Without a commit the rows remain those of the log.                      *)
LEMMA SerializeKept ==
    ASSUME Types, CallInv, Kept, CallsSerialize, UNCHANGED <<table, log>>
    PROVE  CallsSerialize'
<1>1. LogGrows
  BY SameLog
<1>2. Len(log) \in 0 .. Len(log) /\ Len(log') = Len(log)
  BY DEF Types
<1>3. ReplayOf(log', call', Len(log)) = ReplayOf(log, call, Len(log))
  BY <1>1, <1>2, ReplayKept
<1> QED BY <1>2, <1>3, ReplayIs

(* A commit of a whole call adds that call to the rows and to the log.     *)
LEMMA SerializeMore ==
    ASSUME Types, CallInv, Kept, CallsSerialize, NEW c \in Clients, log' = Append(log, c),
           table' = PutAll(table, call'[c].op.items)
    PROVE  CallsSerialize'
<1>1. LogGrows /\ Len(log') = Len(log) + 1 /\ log'[Len(log) + 1] = c /\ Len(log) \in Nat
  BY LongerLog
<1>2. Len(log) + 1 \in 1 .. Len(log') /\ (Len(log) + 1) - 1 = Len(log) /\ Len(log) \in 0 .. Len(log)
  BY <1>1
<1>3. ReplayOf(log', call', Len(log)) = table
  BY <1>1, <1>2, ReplayKept, ReplayIs
<1>4. log' \in Seq(Clients)
  BY <1>1 DEF LogGrows
<1>5. ReplayOf(log', call', Len(log) + 1)
        = PutAll(ReplayOf(log', call', Len(log)), call'[c].op.items)
  BY <1>1, <1>2, <1>4, ReplayUnfold
<1> QED BY <1>1, <1>3, <1>5, ReplayIs

(* The account of a call, when the log stays and when it takes one more.   *)
LEMMA CountType ==
    ASSUME NEW lg \in Seq(Clients), NEW c
    PROVE  /\ IsFiniteSet({i \in DOMAIN lg : lg[i] = c})
           /\ Cardinality({i \in DOMAIN lg : lg[i] = c}) \in Nat
<1>1. DOMAIN lg = 1 .. Len(lg) /\ Len(lg) \in Nat
  OBVIOUS
<1>2. IsFiniteSet(DOMAIN lg)
  BY <1>1, FS_Interval
<1>3. IsFiniteSet({i \in DOMAIN lg : lg[i] = c})
  BY <1>2, FS_Subset
<1> QED BY <1>3, FS_CardinalityType

(* Commits of a call are counted by a natural number.                      *)
LEMMA AppliedType ==
    /\ Types => \A c : IsFiniteSet({i \in DOMAIN log : log[i] = c}) /\ Applied(c) \in Nat
    /\ Types' => \A c : Applied(c)' \in Nat
<1>1. Types => log \in Seq(Clients)
  BY DEF Types
<1>2. Types' => log' \in Seq(Clients)
  BY DEF Types
<1> QED BY <1>1, <1>2, CountType DEF Applied

(* Without a commit no count changes.                                      *)
LEMMA AppliedSame ==
    ASSUME UNCHANGED log, NEW c
    PROVE  Applied(c)' = Applied(c)
BY DEF Applied

(* A commit counts for its own call.                                       *)
LEMMA AppliedMore ==
    ASSUME Types, NEW c \in Clients, log' = Append(log, c)
    PROVE  /\ Applied(c)' = Applied(c) + 1
           /\ \A d \in Clients \ {c} : Applied(d)' = Applied(d)
<1> DEFINE Mine(d) == {i \in DOMAIN log : log[i] = d}
           Now(d) == {i \in DOMAIN log' : log'[i] = d}
<1>1. /\ Len(log') = Len(log) + 1 /\ log'[Len(log) + 1] = c /\ Len(log) \in Nat
      /\ DOMAIN log = 1 .. Len(log) /\ DOMAIN log' = 1 .. Len(log) + 1
      /\ \A i \in 1 .. Len(log) : log'[i] = log[i]
  BY LongerLog DEF LogGrows
<1>2. Now(c) = Mine(c) \cup {Len(log) + 1} /\ Len(log) + 1 \notin Mine(c)
  BY <1>1
<1>3. ASSUME NEW d \in Clients \ {c} PROVE Now(d) = Mine(d)
  BY <1>1
<1>4. IsFiniteSet(Mine(c))
  BY AppliedType
<1> HIDE DEF Mine, Now
<1>5. Cardinality(Now(c)) = Cardinality(Mine(c)) + 1
  BY <1>2, <1>4, FS_AddElement
<1>6. \A d : Applied(d) = Cardinality(Mine(d)) /\ Applied(d)' = Cardinality(Now(d))
  BY DEF Applied, Mine, Now
<1> QED BY <1>3, <1>5, <1>6

-----------------------------------------------------------------------------
(* A step changes one session and one call.                                *)
Sets(s, q) == session' = [t \in Sessions |-> IF t = s THEN q ELSE session[t]]

Puts(c, p) == call' = [d \in Clients |-> IF d = c THEN p ELSE call[d]]

(* Live sessions of a call are counted by a natural number.                *)
LEMMA TriesType ==
    /\ \A c : IsFiniteSet(LiveTries(c)) /\ Cardinality(LiveTries(c)) \in Nat
    /\ \A c : Cardinality(LiveTries(c))' \in Nat
<1>1. IsFiniteSet(0 .. Delays)
  BY PostgresAssumption, FS_Interval
<1>2. \A T \in SUBSET (0 .. Delays) : IsFiniteSet(T) /\ Cardinality(T) \in Nat
  BY <1>1, FS_Subset, FS_CardinalityType
<1>3. \A c : LiveTries(c) \in SUBSET (0 .. Delays) /\ LiveTries(c)' \in SUBSET (0 .. Delays)
  BY DEF LiveTries
<1> QED BY <1>2, <1>3

(* The attempts that may still commit, after one session has changed.      *)
LEMMA TriesAfter ==
    ASSUME NEW s \in Sessions, NEW q, Sets(s, q)
    PROVE  /\ \A d \in Clients \ {s[1]} : LiveTries(d)' = LiveTries(d)
           /\ q.phase \in LiveIn =>
                LiveTries(s[1])' = IF Live(s) THEN LiveTries(s[1]) ELSE LiveTries(s[1]) \cup {s[2]}
           /\ q.phase \notin LiveIn => LiveTries(s[1])' = LiveTries(s[1]) \ {s[2]}
           /\ s[1] \in Clients /\ s[2] \in 0 .. Delays /\ s = <<s[1], s[2]>>
           /\ Live(s) <=> s[2] \in LiveTries(s[1])
<1>1. s[1] \in Clients /\ s[2] \in 0 .. Delays /\ s = <<s[1], s[2]>>
  BY DEF Sessions
<1>2. \A d \in Clients, t \in 0 .. Delays : <<d, t>> \in Sessions
  BY DEF Sessions
<1>3. \A d \in Clients, t \in 0 .. Delays :
         Live(<<d, t>>)' <=> IF d = s[1] /\ t = s[2] THEN q.phase \in LiveIn ELSE Live(<<d, t>>)
  <2> SUFFICES ASSUME NEW d \in Clients, NEW t \in 0 .. Delays
               PROVE  Live(<<d, t>>)' <=>
                        IF d = s[1] /\ t = s[2] THEN q.phase \in LiveIn ELSE Live(<<d, t>>)
    OBVIOUS
  <2>1. <<d, t>> \in Sessions /\ (<<d, t>> = s <=> d = s[1] /\ t = s[2])
    BY <1>1, <1>2
  <2>2. session'[<<d, t>>] = IF d = s[1] /\ t = s[2] THEN q ELSE session[<<d, t>>]
    BY <2>1 DEF Sets
  <2> QED BY <2>2 DEF Live
<1>4. Live(s) <=> s[2] \in LiveTries(s[1])
  BY <1>1 DEF LiveTries
<1>5. \A d \in Clients, t \in 0 .. Delays : t \in LiveTries(d) <=> Live(<<d, t>>)
  BY DEF LiveTries
<1>6. \A d \in Clients : \A t : t \in LiveTries(d)' <=> t \in 0 .. Delays /\ Live(<<d, t>>)'
  BY DEF LiveTries
<1>7. \A d \in Clients : LiveTries(d) \subseteq 0 .. Delays
  BY DEF LiveTries
<1>8. \A d \in Clients \ {s[1]} : LiveTries(d)' = LiveTries(d)
  BY <1>3, <1>5, <1>6, <1>7
<1>9. q.phase \in LiveIn =>
        LiveTries(s[1])' = IF Live(s) THEN LiveTries(s[1]) ELSE LiveTries(s[1]) \cup {s[2]}
  BY <1>1, <1>3, <1>4, <1>5, <1>6, <1>7
<1>10. q.phase \notin LiveIn => LiveTries(s[1])' = LiveTries(s[1]) \ {s[2]}
  BY <1>1, <1>3, <1>4, <1>5, <1>6, <1>7
<1> QED BY <1>1, <1>4, <1>8, <1>9, <1>10

(* A step of one session changes the live sessions of its own call.        *)
LEMMA CountAfter ==
    ASSUME NEW s \in Sessions, NEW q, Sets(s, q)
    PROVE  /\ \A d \in Clients \ {s[1]} : Cardinality(LiveTries(d))' = Cardinality(LiveTries(d))
           /\ Cardinality(LiveTries(s[1]))' = Cardinality(LiveTries(s[1]))
                 + (IF q.phase \in LiveIn THEN 1 ELSE 0) - (IF Live(s) THEN 1 ELSE 0)
<1> DEFINE L == LiveTries(s[1])
           M == LiveTries(s[1])'
<1>1. /\ q.phase \in LiveIn => M = IF Live(s) THEN L ELSE L \cup {s[2]}
      /\ q.phase \notin LiveIn => M = L \ {s[2]}
      /\ Live(s) <=> s[2] \in L
  BY TriesAfter
<1>2. \A d \in Clients \ {s[1]} : LiveTries(d)' = LiveTries(d)
  BY TriesAfter
<1>3. IsFiniteSet(L) /\ Cardinality(L) \in Nat
  BY TriesType
<1>4. Cardinality(LiveTries(s[1]))' = Cardinality(M)
  OBVIOUS
<1> HIDE DEF L, M
<1>5. s[2] \notin L => Cardinality(L \cup {s[2]}) = Cardinality(L) + 1
  BY <1>3, FS_AddElement
<1>6. s[2] \in L => Cardinality(L \ {s[2]}) = Cardinality(L) - 1
  BY <1>3, FS_RemoveElement
<1>7. s[2] \notin L => L \ {s[2]} = L
  OBVIOUS
<1>8. Cardinality(M) = Cardinality(L)
         + (IF q.phase \in LiveIn THEN 1 ELSE 0) - (IF Live(s) THEN 1 ELSE 0)
  <2>1. CASE q.phase \in LiveIn /\ Live(s)
    BY <1>1, <1>3, <2>1
  <2>2. CASE q.phase \in LiveIn /\ ~Live(s)
    BY <1>1, <1>3, <1>5, <2>2
  <2>3. CASE q.phase \notin LiveIn /\ Live(s)
    <3>1. M = L \ {s[2]} /\ s[2] \in L
      BY <1>1, <2>3
    <3>2. Cardinality(M) = Cardinality(L) - 1
      BY <1>6, <3>1
    <3> QED BY <1>3, <2>3, <3>2
  <2>4. CASE q.phase \notin LiveIn /\ ~Live(s)
    <3>1. M = L
      BY <1>1, <1>7, <2>4
    <3> QED BY <1>3, <2>4, <3>1
  <2> QED BY <2>1, <2>2, <2>3, <2>4
<1>9. Cardinality(LiveTries(s[1])) = Cardinality(L)
  BY DEF L
<1> QED BY <1>2, <1>4, <1>8, <1>9

(* What a call carries: a single write has one item, a read none.          *)
LEMMA OpFacts ==
    ASSUME NEW op \in Ops
    PROVE  /\ op.items \in Seq(UsableMetric) /\ Len(op.items) \in Nat
           /\ IsWrite(op) /\ op.kind # "UpdateMany" => Len(op.items) = 1
           /\ ~IsWrite(op) => op.items = << >> /\ op.kind # "UpdateMany"
<1>1. CASE op \in WriteOps
  BY <1>1 DEF WriteOps, IsWrite
<1>2. CASE op \in ReadOps
  <2>1. << >> \in Seq(UsableMetric)
    OBVIOUS
  <2>2. op.items = << >> /\ op.kind \in {"GetGauge", "GetCounter", "Snapshot"}
    BY <1>2 DEF ReadOps
  <2> QED BY <2>1, <2>2 DEF IsWrite
<1> QED BY <1>1, <1>2, OpsAssumption

(* What every step does to the session s and the call it belongs to.       *)
Move(s, q, p) ==
    /\ Sets(s, q) /\ Puts(s[1], p) /\ SessionFits(q) /\ CallFits(p)
    /\ p.pc # "idle" /\ p.since <= Len(log) /\ call[s[1]].try <= p.try
    /\ call[s[1]].pc # "idle" => p.op = call[s[1]].op /\ p.since = call[s[1]].since
    /\ q.phase # "none" => s[2] <= p.try
    /\ q.phase \in LiveIn \cup {"answering"} /\ ~q.lost => p.pc = "trying" /\ s[2] = p.try
    /\ p = call[s[1]] \/ (call[s[1]].pc = "trying" => s = Current(s[1]))

(* What a move of one session and its call leaves alone.                   *)
LEMMA MoveAt ==
    ASSUME NEW s \in Sessions, NEW q, NEW p, Move(s, q, p)
    PROVE  /\ s[1] \in Clients /\ s[2] \in 0 .. Delays /\ s = <<s[1], s[2]>>
           /\ session'[s] = q /\ call'[s[1]] = p
           /\ \A t \in Sessions \ {s} : session'[t] = session[t]
           /\ \A d \in Clients \ {s[1]} : call'[d] = call[d]
           /\ \A t \in Sessions : t[1] \in Clients /\ t[2] \in 0 .. Delays /\ t = <<t[1], t[2]>>
           /\ \A t \in Sessions : session'[t] = IF t = s THEN q ELSE session[t]
           /\ \A d \in Clients : call'[d] = IF d = s[1] THEN p ELSE call[d]
BY DEF Move, Sets, Puts, Sessions

(* A move keeps the operation and the time of every call that has begun.   *)
LEMMA MoveKeeps ==
    ASSUME NEW s \in Sessions, NEW q, NEW p, Move(s, q, p)
    PROVE  Kept
BY MoveAt DEF Move, Kept

(* A move keeps the types.                                                 *)
LEMMA MoveTypes ==
    ASSUME Types, NEW s \in Sessions, NEW q, NEW p, Move(s, q, p), LogGrows,
           table' \in [Names -> Rows \cup {Nil}], lock' \in [Names -> Sessions \cup {Nil}],
           broken' \in [Clients -> Nat]
    PROVE  Types'
<1>1. session' = [t \in Sessions |-> session'[t]] /\ call' = [d \in Clients |-> call'[d]]
  BY DEF Move, Sets, Puts
<1>2. ASSUME NEW t \in Sessions PROVE SessionFits(session'[t])
  <2>1. session'[t] = IF t = s THEN q ELSE session[t]
    BY MoveAt
  <2> QED BY <2>1 DEF Types, Move
<1>3. ASSUME NEW d \in Clients PROVE CallFits(call'[d])
  <2>1. call'[d] = IF d = s[1] THEN p ELSE call[d]
    BY MoveAt
  <2> QED BY <2>1 DEF Types, Move
<1> QED BY <1>1, <1>2, <1>3 DEF Types, LogGrows, SessionFits, CallFits

(* A move keeps sessions within their calls.                               *)
LEMMA MoveCalls ==
    ASSUME Types, CallInv, NEW s \in Sessions, NEW q, NEW p, Move(s, q, p), LogGrows,
           \A i \in DOMAIN log' : i \in 1 .. Len(log) \/ log'[i] = s[1]
    PROVE  CallInv'
<1> USE MoveAt
<1>0. Kept
  BY MoveKeeps
<1>5. \A d \in Clients : CallFits(call[d]) /\ CallFits(call'[d])
  <2> SUFFICES ASSUME NEW d \in Clients PROVE CallFits(call[d]) /\ CallFits(call'[d])
    OBVIOUS
  <2>1. call'[d] = IF d = s[1] THEN p ELSE call[d]
    OBVIOUS
  <2> QED BY <2>1 DEF Types, Move
<1>1. ASSUME NEW t \in Sessions, session'[t].phase # "none"
      PROVE  call'[t[1]].pc # "idle" /\ t[2] <= call'[t[1]].try
  <2>1. t[1] \in Clients /\ t[2] \in 0 .. Delays /\ Delays \in Nat
    BY PostgresAssumption
  <2>2. CASE t = s
    BY <1>1, <2>2 DEF Move
  <2>3. CASE t # s
    <3>1. call[t[1]].pc # "idle" /\ t[2] <= call[t[1]].try
      BY <1>1, <2>3 DEF CallInv
    <3>2. call[t[1]].try \in 0 .. Delays /\ call'[t[1]].try \in 0 .. Delays
      BY <1>5, <2>1 DEF CallFits
    <3>3. call[t[1]].try <= call'[t[1]].try
      BY <2>1, <3>2 DEF Move
    <3> QED BY <1>0, <2>1, <3>1, <3>2, <3>3 DEF Kept
  <2> QED BY <2>2, <2>3
<1>2. ASSUME NEW t \in Sessions, session'[t].phase \in LiveIn \cup {"answering"}, ~session'[t].lost
      PROVE  call'[t[1]].pc = "trying" /\ t = <<t[1], call'[t[1]].try>>
  <2>1. CASE t = s
    BY <1>2, <2>1 DEF Move
  <2>2. CASE t # s
    <3>1. call[t[1]].pc = "trying" /\ t = <<t[1], call[t[1]].try>>
      BY <1>2, <2>2 DEF CallInv, Live, Current
    <3>2. CASE t[1] # s[1]
      BY <3>1, <3>2
    <3>3. CASE t[1] = s[1]
      <4>1. p = call[s[1]]
        BY <2>2, <3>1, <3>3 DEF Move, Current
      <4> QED BY <3>1, <3>3, <4>1
    <3> QED BY <3>2, <3>3
  <2> QED BY <2>1, <2>2
<1>3. ASSUME NEW i \in DOMAIN log' PROVE call'[log'[i]].pc # "idle"
  <2>1. CASE i \in 1 .. Len(log)
    <3>1. log'[i] = log[i] /\ i \in DOMAIN log /\ log[i] \in Clients
      BY <2>1 DEF LogGrows, Types
    <3> QED BY <1>0, <3>1 DEF Kept, CallInv
  <2>2. CASE log'[i] = s[1]
    BY <2>2 DEF Move
  <2> QED BY <2>1, <2>2
<1>4. ASSUME NEW d \in Clients PROVE call'[d].since <= Len(log')
  <2>1. call'[d].since \in Nat
    BY <1>5 DEF CallFits
  <2>3. Len(log) \in Nat /\ Len(log') \in Nat /\ Len(log) <= Len(log')
    BY DEF Types, LogGrows
  <2>2. call'[d].since <= Len(log)
    <3>1. CASE d = s[1]
      BY <3>1 DEF Move
    <3>2. CASE d # s[1]
      BY <3>2 DEF CallInv
    <3> QED BY <3>1, <3>2
  <2> QED BY <2>1, <2>2, <2>3
<1> QED BY <1>1, <1>2, <1>3, <1>4 DEF CallInv, Live, Current

(* A transaction keeps its rows while no one else changes what it has      *)
(* locked.                                                                 *)
LEMMA WorkKept ==
    ASSUME Types, CallInv, WorkInv, Kept, NEW t \in Sessions, Live(t),
           session'[t].done = session[t].done, session'[t].pending = session[t].pending,
           IsRows(table'),
           \A n \in Names : session[t].pending[n] # Nil => table'[n] = table[n]
    PROVE  Work(t)' /\ Op(t)' = Op(t)
<1>1. t[1] \in Clients /\ call[t[1]].pc # "idle"
  BY DEF Sessions, CallInv, Live, LiveIn
<1>2. Op(t)' = Op(t) /\ Op(t) \in Ops
  BY <1>1 DEF Kept, Op, Types, CallFits
<1>3. Work(t)
  BY DEF WorkInv
<1>4. session[t].done \in 0 .. Len(Op(t).items) /\ Op(t).items \in Seq(UsableMetric)
  BY <1>2, <1>3, OpFacts DEF Types, SessionFits, Work
<1>5. IsRows(table)
  BY DEF Types, IsRows
<1>6. ASSUME NEW n \in Names, session[t].pending[n] # Nil
      PROVE  RowsAfter(table', Op(t).items, session[t].done)[n]
               = RowsAfter(table, Op(t).items, session[t].done)[n]
  <2>1. table'[n] = table[n]
    BY <1>6
  <2> QED BY <1>4, <1>5, <2>1, RowsAfterLocal
<1>7. AutoCommit(t)' <=> AutoCommit(t)
  BY <1>2 DEF AutoCommit
<1>8. ASSUME NEW n \in Names
      PROVE  IF session'[t].pending[n] = Nil
             THEN \A j \in 1 .. session'[t].done : Op(t)'.items[j].id # n
             ELSE session'[t].pending[n] = RowsAfter(table', Op(t)'.items, session'[t].done)[n]
  <2>1. CASE session[t].pending[n] = Nil
    BY <1>2, <1>3, <2>1 DEF Work
  <2>2. CASE session[t].pending[n] # Nil
    <3>1. session[t].pending[n] = RowsAfter(table, Op(t).items, session[t].done)[n]
      BY <1>3, <2>2 DEF Work
    <3> QED BY <1>2, <1>6, <2>2, <3>1
  <2> QED BY <2>1, <2>2
<1>9. session'[t].done <= Len(Op(t)'.items)
  BY <1>2, <1>3 DEF Work
<1>10. AutoCommit(t)' => session'[t].done = 0 /\ session'[t].pending = NoRows
  BY <1>3, <1>7 DEF Work
<1> QED BY <1>2, <1>8, <1>9, <1>10 DEF Work, RowsAfter, PutItem

(* The other sessions, when the rows they have locked stay.                *)
LEMMA WorkOfOthers ==
    ASSUME Types, CallInv, WorkInv, NEW s \in Sessions, NEW q, NEW p, Move(s, q, p),
           NEW t \in Sessions, t # s, Live(t)', IsRows(table'),
           \A n \in Names : session[t].pending[n] # Nil => table'[n] = table[n]
    PROVE  Work(t)' /\ PhaseFits(t)'
<1>1. session'[t] = session[t]
  BY MoveAt
<1>2. Live(t) /\ Kept
  BY <1>1, MoveKeeps DEF Live
<1>3. Work(t)' /\ Op(t)' = Op(t)
  BY <1>1, <1>2, WorkKept
<1>4. PhaseFits(t)
  BY <1>2 DEF WorkInv
<1> QED BY <1>1, <1>3, <1>4 DEF PhaseFits, AutoCommit

(* A move keeps what reads have found.                                     *)
LEMMA ReadsAfter ==
    ASSUME Types, CallInv, ReadInv, LogGrows,
           NEW s \in Sessions, NEW q, NEW p, Move(s, q, p),
           \A d \in Clients \ {s[1]} : broken'[d] = broken[d],
           q.phase = "answering" /\ ~IsWrite(p.op) =>
               \/ session[s].phase = "answering" /\ q.result = session[s].result
               \/ call[s[1]].pc # "idle" /\ ReadFrom(s[1], q.result),
           p.pc = "ok" /\ ~IsWrite(p.op) =>
               \/ call[s[1]].pc = "ok" /\ p.result = call[s[1]].result /\ broken'[s[1]] = broken[s[1]]
               \/ call[s[1]].pc # "idle" /\ ReadFrom(s[1], p.result)
               \/ call[s[1]].pc # "idle" /\ broken'[s[1]] > 0 /\ CutFrom(s[1], p.result)
    PROVE  ReadInv'
<1> USE MoveAt
<1>0. Kept
  BY MoveKeeps
<1>1. ASSUME NEW t \in Sessions, session'[t].phase = "answering", ~IsWrite(call'[t[1]].op)
      PROVE  ReadIn(log', call', t[1], session'[t].result)
  <2> DEFINE r == session'[t].result
  <2>0. t[1] \in Clients
    OBVIOUS
  <2>1. call[t[1]].pc # "idle" /\ ReadFrom(t[1], r)
    <3>1. CASE session[t].phase = "answering" /\ r = session[t].result
      <4>1. call[t[1]].pc # "idle"
        BY <3>1 DEF CallInv
      <4>2. call'[t[1]].op = call[t[1]].op
        BY <1>0, <2>0, <4>1 DEF Kept
      <4> QED BY <1>1, <3>1, <4>1, <4>2 DEF ReadInv, Op
    <3>2. CASE ~(session[t].phase = "answering" /\ r = session[t].result)
      <4>1. t = s
        BY <1>1, <3>2
      <4> QED BY <1>1, <3>2, <4>1
    <3> QED BY <3>1, <3>2
  <2> QED BY <1>0, <2>0, <2>1, ReadFromKept
<1>2. ASSUME NEW d \in Clients, call'[d].pc = "ok", ~IsWrite(call'[d].op)
      PROVE  \/ ReadIn(log', call', d, call'[d].result)
             \/ broken'[d] > 0 /\ CutIn(log', call', d, call'[d].result)
  <2> DEFINE r == call'[d].result
  <2>1. /\ call[d].pc # "idle"
        /\ ReadFrom(d, r) \/ (broken'[d] > 0 /\ CutFrom(d, r))
    <3>1. CASE call[d].pc = "ok" /\ r = call[d].result /\ broken'[d] = broken[d]
      <4>1. call'[d].op = call[d].op
        BY <1>0, <3>1 DEF Kept
      <4>2. ~IsWrite(call[d].op)
        BY <1>2, <4>1
      <4> QED BY <3>1, <4>2, ReadInIs DEF ReadInv
    <3>2. CASE ~(call[d].pc = "ok" /\ r = call[d].result /\ broken'[d] = broken[d])
      <4>1. d = s[1]
        BY <1>2, <3>2
      <4> QED BY <1>2, <3>2, <4>1
    <3> QED BY <3>1, <3>2
  <2> HIDE DEF r
  <2>2. CASE ReadFrom(d, r)
    <3>1. ReadIn(log', call', d, r)
      BY <1>0, <2>1, <2>2, ReadFromKept
    <3> QED BY <3>1 DEF r
  <2>3. CASE broken'[d] > 0 /\ CutFrom(d, r)
    <3>1. CutIn(log', call', d, r)
      BY <1>0, <2>1, <2>3, CutFromKept
    <3> QED BY <2>3, <3>1 DEF r
  <2> QED BY <2>1, <2>2, <2>3
<1> QED BY <1>1, <1>2, ReadInIs

(* The account of the call after the step: what it owes may grow only by   *)
(* what it may owe.                                                        *)
One(b) == IF b THEN 1 ELSE 0

Owed(c) == Applied(c) + Cardinality(LiveTries(c)) + One(call[c].pc = "backoff")

May(c) == broken[c] + One(call[c].pc \notin {"idle", "error"})

(* DebtInv with its sums named.                                            *)
LEMMA DebtIs ==
    /\ DebtInv <=>
         /\ \A c \in Clients : Owed(c) <= May(c)
         /\ \A s \in Sessions : session[s].phase = "answering" /\ IsWrite(Op(s)) => Applied(s[1]) > 0
         /\ \A c \in Clients :
              call[c].pc = "ok" /\ IsWrite(call[c].op) /\ call[c].op.items # << >> => Applied(c) > 0
    /\ DebtInv' <=>
         /\ \A c \in Clients : Owed(c)' <= May(c)'
         /\ \A s \in Sessions : session'[s].phase = "answering" /\ IsWrite(call'[s[1]].op) => Applied(s[1])' > 0
         /\ \A c \in Clients :
              call'[c].pc = "ok" /\ IsWrite(call'[c].op) /\ call'[c].op.items # << >> => Applied(c)' > 0
BY DEF DebtInv, Owed, May, One, Op

(* A move that adds no more commits than it gives up keeps the debt of its *)
(* call.                                                                   *)
LEMMA DebtAfter ==
    ASSUME Types, CallInv, DebtInv, Types',
           NEW s \in Sessions, NEW q, NEW p, Move(s, q, p),
           \A d \in Clients \ {s[1]} : broken'[d] = broken[d] /\ Applied(d)' = Applied(d),
           Applied(s[1])' >= Applied(s[1]),
           Applied(s[1])' + One(q.phase \in LiveIn) + One(p.pc = "backoff") + May(s[1])
               <= Applied(s[1]) + One(Live(s)) + One(call[s[1]].pc = "backoff")
                    + broken'[s[1]] + One(p.pc # "error"),
           q.phase = "answering" /\ IsWrite(p.op) =>
               session[s].phase = "answering" \/ Applied(s[1])' > 0,
           p.pc = "ok" /\ IsWrite(p.op) /\ p.op.items # << >> =>
               call[s[1]].pc = "ok" \/ Applied(s[1])' > 0
    PROVE  DebtInv'
<1>0. /\ s[1] \in Clients /\ call'[s[1]] = p /\ session'[s] = q
      /\ \A d \in Clients \ {s[1]} : call'[d] = call[d]
      /\ \A t \in Sessions \ {s} : session'[t] = session[t]
      /\ \A t \in Sessions : t[1] \in Clients
  BY MoveAt
<1>1. /\ \A d : Applied(d) \in Nat /\ Cardinality(LiveTries(d)) \in Nat
      /\ \A d : Applied(d)' \in Nat /\ Cardinality(LiveTries(d))' \in Nat
  <2>1. \A d : Applied(d) \in Nat /\ Cardinality(LiveTries(d)) \in Nat
    BY AppliedType, TriesType
  <2>2. \A d : Applied(d)' \in Nat /\ Cardinality(LiveTries(d))' \in Nat
    BY AppliedType, TriesType
  <2> QED BY <2>1, <2>2
<1>2. ASSUME NEW d \in Clients \ {s[1]} PROVE Owed(d)' <= May(d)'
  <2>1. Cardinality(LiveTries(d))' = Cardinality(LiveTries(d))
    BY CountAfter DEF Move
  <2>2. Owed(d)' = Owed(d) /\ May(d)' = May(d)
    BY <1>0, <2>1 DEF Owed, May
  <2> QED BY <2>2, DebtIs
<1>3. Owed(s[1])' <= May(s[1])'
  <2> DEFINE c == s[1]
             l == Cardinality(LiveTries(c))
             l2 == Cardinality(LiveTries(c))'
             a == Applied(c)
             a2 == Applied(c)'
  <2>1. l2 = l + One(q.phase \in LiveIn) - One(Live(s))
    BY CountAfter DEF Move, One
  <2>2. Owed(c) = a + l + One(call[c].pc = "backoff") /\ Owed(c)' = a2 + l2 + One(p.pc = "backoff")
    BY <1>0 DEF Owed, One
  <2>3. /\ May(c) = broken[c] + One(call[c].pc \notin {"idle", "error"})
        /\ May(c)' = broken'[c] + One(p.pc # "error")
    BY <1>0 DEF May, One, Move
  <2>4. Owed(c) <= May(c)
    BY <1>0, DebtIs
  <2>5. a2 + One(q.phase \in LiveIn) + One(p.pc = "backoff") + May(c)
          <= a + One(Live(s)) + One(call[c].pc = "backoff") + broken'[c] + One(p.pc # "error")
    OBVIOUS
  <2>6. {a, a2, l, l2, broken[c], broken'[c]} \subseteq Nat
    BY <1>0, <1>1 DEF Types
  <2>7. \A x : One(x) \in Int
    BY DEF One
  <2> HIDE DEF c, l, l2, a, a2
  <2> DEFINE x1 == One(q.phase \in LiveIn)
             x2 == One(p.pc = "backoff")
             x3 == One(Live(s))
             x4 == One(call[c].pc = "backoff")
             x5 == One(p.pc # "error")
             x6 == One(call[c].pc \notin {"idle", "error"})
             b == broken[c]
             b2 == broken'[c]
  <2>8. /\ x1 \in Int /\ x2 \in Int /\ x3 \in Int /\ x4 \in Int /\ x5 \in Int /\ x6 \in Int
        /\ b \in Int /\ b2 \in Int
    BY <2>6, <2>7
  <2>9. /\ l2 = l + x1 - x3 /\ a + l + x4 <= b + x6
        /\ a2 + x1 + x2 + (b + x6) <= a + x3 + x4 + b2 + x5
    BY <2>1, <2>2, <2>3, <2>4, <2>5
  <2>10. Owed(c)' = a2 + l2 + x2 /\ May(c)' = b2 + x5
    BY <2>2, <2>3
  <2> HIDE DEF x1, x2, x3, x4, x5, x6, b, b2
  <2>11. a2 + l2 + x2 <= b2 + x5
    <3>1. a \in Int /\ a2 \in Int /\ l \in Int /\ l2 \in Int
      BY <2>6
    <3> QED BY <2>8, <2>9, <3>1
  <2> QED BY <2>10, <2>11 DEF c
<1>4. ASSUME NEW t \in Sessions, session'[t].phase = "answering", IsWrite(call'[t[1]].op)
      PROVE  Applied(t[1])' > 0
  <2>1. CASE session[t].phase = "answering"
    <3>1. call[t[1]].pc # "idle" /\ t[1] \in Clients
      BY <1>0, <2>1 DEF CallInv
    <3>2. call'[t[1]].op = call[t[1]].op
      BY <3>1, MoveKeeps DEF Kept
    <3>5. IsWrite(Op(t))
      BY <1>4, <3>2 DEF Op
    <3>3. Applied(t[1]) > 0
      BY <2>1, <3>5, DebtIs
    <3>4. Applied(t[1])' >= Applied(t[1])
      BY <1>1, <3>1
    <3> QED BY <1>1, <3>3, <3>4
  <2>2. CASE session[t].phase # "answering"
    BY <1>0, <1>4, <2>2
  <2> QED BY <2>1, <2>2
<1>5. ASSUME NEW d \in Clients, call'[d].pc = "ok", IsWrite(call'[d].op), call'[d].op.items # << >>
      PROVE  Applied(d)' > 0
  <2>1. CASE call[d].pc = "ok"
    <3>1. call'[d].op = call[d].op
      BY <2>1, MoveKeeps DEF Kept
    <3>2. Applied(d) > 0
      BY <1>5, <2>1, <3>1, DebtIs
    <3>3. Applied(d)' >= Applied(d)
      BY <1>1
    <3> QED BY <1>1, <3>2, <3>3
  <2>2. CASE call[d].pc # "ok"
    BY <1>0, <1>5, <2>2
  <2> QED BY <2>1, <2>2
<1>6. \A d \in Clients : Owed(d)' <= May(d)'
  BY <1>2, <1>3
<1> QED BY <1>4, <1>5, <1>6, DebtIs

-----------------------------------------------------------------------------
(* A step of the client, which leaves the database alone.                  *)
Quiet(s, q, p) ==
    /\ Move(s, q, p) /\ UNCHANGED dbVars
    /\ broken' \in [Clients -> Nat] /\ \A d \in Clients \ {s[1]} : broken'[d] = broken[d]
    /\ \A n \in Names : Live(s) /\ session[s].pending[n] # Nil <=>
                        q.phase \in LiveIn /\ q.pending[n] # Nil
    /\ q.phase \in LiveIn => \/ Live(s) /\ q.done = session[s].done /\ q.pending = session[s].pending
                             \/ q.done = 0 /\ q.pending = NoRows
    /\ q.phase = "exec" => \/ session[s].phase = "exec" /\ q.done = session[s].done
                           \/ IsWrite(p.op) /\ q.done < Len(p.op.items)
    /\ q.phase = "commit" => \/ session[s].phase = "commit" /\ q.done = session[s].done
                             \/ p.op.kind = "UpdateMany" /\ q.done = Len(p.op.items)
    /\ q.phase = "answering" =>
         \/ session[s].phase = "answering" /\ q.result = session[s].result
         \/ ~IsWrite(p.op) /\ call[s[1]].pc # "idle" /\ ReadFrom(s[1], q.result)
    /\ p.pc = "ok" /\ ~IsWrite(p.op) =>
         \/ call[s[1]].pc = "ok" /\ p.result = call[s[1]].result /\ broken'[s[1]] = broken[s[1]]
         \/ call[s[1]].pc # "idle" /\ ReadFrom(s[1], p.result)
         \/ call[s[1]].pc # "idle" /\ broken'[s[1]] > 0 /\ CutFrom(s[1], p.result)
    /\ p.pc = "ok" /\ IsWrite(p.op) /\ p.op.items # << >> =>
         call[s[1]].pc = "ok" \/ Applied(s[1]) > 0
    /\ One(q.phase \in LiveIn) + One(p.pc = "backoff") + May(s[1])
         <= One(Live(s)) + One(call[s[1]].pc = "backoff") + broken'[s[1]] + One(p.pc # "error")

(* Steps that commit nothing and change no row of a transaction.           *)
LEMMA QuietStep ==
    ASSUME PostgresInv, NEW s \in Sessions, NEW q, NEW p, Quiet(s, q, p)
    PROVE  PostgresInv'
<1>0. /\ Types /\ CallInv /\ LockInv /\ WorkInv /\ CallsSerialize /\ ReadInv /\ DebtInv
      /\ Move(s, q, p) /\ UNCHANGED <<table, lock, log>>
      /\ Kept
  BY MoveKeeps DEF PostgresInv, Quiet, dbVars
<1>a. /\ s[1] \in Clients /\ session'[s] = q /\ call'[s[1]] = p
      /\ \A t \in Sessions \ {s} : session'[t] = session[t]
  BY <1>0, MoveAt
<1>b. LogGrows
  BY <1>0, SameLog
<1>1. Types'
  BY <1>0, <1>b, MoveTypes DEF Types, Quiet
<1>2. CallInv'
  <2>1. \A i \in DOMAIN log' : i \in 1 .. Len(log)
    BY <1>0 DEF Types
  <2> QED BY <1>0, <1>b, <2>1, MoveCalls
<1>3. LockInv'
  <2> SUFFICES ASSUME NEW t \in Sessions, NEW n \in Names
               PROVE  lock'[n] = t <=> session'[t].phase \in LiveIn /\ session'[t].pending[n] # Nil
    BY DEF LockInv, Live
  <2>1. lock[n] = t <=> Live(t) /\ session[t].pending[n] # Nil
    BY <1>0 DEF LockInv
  <2>2. CASE t = s
    BY <1>0, <1>a, <2>1, <2>2 DEF Quiet
  <2>3. CASE t # s
    BY <1>0, <1>a, <2>1, <2>3 DEF Live
  <2> QED BY <2>2, <2>3
<1>c. IsRows(table') /\ IsRows(table)
  BY <1>0 DEF Types, IsRows
<1>4. WorkInv'
  <2>1. ASSUME NEW t \in Sessions, t # s, Live(t)' PROVE Work(t)' /\ PhaseFits(t)'
    <3>1. \A n \in Names : session[t].pending[n] # Nil => table'[n] = table[n]
      BY <1>0
    <3> QED BY <1>0, <1>c, <2>1, <3>1, WorkOfOthers
  <2>2. ASSUME Live(s)' PROVE Work(s)' /\ PhaseFits(s)'
    <3>0. q.phase \in LiveIn /\ p.pc # "idle" /\ CallFits(p) /\ Op(s)' = p.op
      BY <1>0, <1>a, <2>2 DEF Live, Move, Op
    <3>1. p.op \in Ops
      BY <3>0 DEF CallFits
    <3>2. Work(s)'
      <4>1. CASE Live(s) /\ q.done = session[s].done /\ q.pending = session[s].pending
        <5>1. \A n \in Names : session[s].pending[n] # Nil => table'[n] = table[n]
          BY <1>0
        <5> QED BY <1>0, <1>a, <1>c, <4>1, <5>1, WorkKept
      <4>2. CASE q.done = 0 /\ q.pending = NoRows
        <5>1. Len(p.op.items) \in Nat
          BY <3>1, OpFacts
        <5>2. \A n \in Names : q.pending[n] = Nil
          BY <4>2 DEF NoRows
        <5> QED BY <1>a, <3>0, <4>2, <5>1, <5>2 DEF Work, AutoCommit
      <4> QED BY <3>0, <4>1, <4>2 DEF Quiet
    <3>3. ASSUME Live(s) PROVE p.op = Op(s) /\ PhaseFits(s)
      <4>1. call[s[1]].pc # "idle"
        BY <1>0, <3>3 DEF CallInv, Live, LiveIn
      <4> QED BY <1>0, <3>3, <4>1 DEF Move, Op, WorkInv
    <3>4. q.phase = "exec" => IsWrite(p.op) /\ q.done < Len(p.op.items)
      <4>1. session[s].phase = "exec" => Live(s)
        BY DEF Live, LiveIn
      <4> QED BY <3>3, <4>1 DEF Quiet, PhaseFits
    <3>5. q.phase = "commit" => p.op.kind = "UpdateMany" /\ q.done = Len(p.op.items)
      <4>1. session[s].phase = "commit" => Live(s)
        BY DEF Live, LiveIn
      <4> QED BY <3>3, <4>1 DEF Quiet, PhaseFits, AutoCommit
    <3>6. PhaseFits(s)'
      BY <1>a, <3>0, <3>4, <3>5 DEF PhaseFits, AutoCommit
    <3> QED BY <3>2, <3>6
  <2> QED BY <2>1, <2>2 DEF WorkInv
<1>5. CallsSerialize'
  BY <1>0, SerializeKept
<1>6. ReadInv'
  BY <1>0, <1>b, ReadsAfter DEF Quiet
<1>7. DebtInv'
  <2>1. \A d \in Clients : Applied(d)' = Applied(d) /\ Applied(d) \in Nat
    BY <1>0, AppliedSame, AppliedType
  <2> DEFINE x == One(q.phase \in LiveIn) + One(p.pc = "backoff") + May(s[1])
             y == One(Live(s)) + One(call[s[1]].pc = "backoff") + broken'[s[1]] + One(p.pc # "error")
  <2>2. \A b : One(b) \in Int
    BY DEF One
  <2>3. x <= y
    BY DEF Quiet
  <2>4. broken[s[1]] \in Int /\ broken'[s[1]] \in Int /\ May(s[1]) \in Int
    BY <1>0, <1>1, <1>a, <2>2 DEF Types, May
  <2>5. Applied(s[1])' + One(q.phase \in LiveIn) + One(p.pc = "backoff") + May(s[1])
               <= Applied(s[1]) + One(Live(s)) + One(call[s[1]].pc = "backoff")
                    + broken'[s[1]] + One(p.pc # "error")
    <3>1. Applied(s[1])' = Applied(s[1]) /\ Applied(s[1]) \in Int
      BY <1>a, <2>1
    <3> QED BY <2>2, <2>3, <2>4, <3>1
  <2>6. Applied(s[1])' >= Applied(s[1])
    BY <1>a, <2>1
  <2>7. \A d \in Clients \ {s[1]} : broken'[d] = broken[d] /\ Applied(d)' = Applied(d)
    BY <2>1 DEF Quiet
  <2>8. q.phase = "answering" /\ IsWrite(p.op) =>
               session[s].phase = "answering" \/ Applied(s[1])' > 0
    BY DEF Quiet
  <2>9. p.pc = "ok" /\ IsWrite(p.op) /\ p.op.items # << >> =>
               call[s[1]].pc = "ok" \/ Applied(s[1])' > 0
    BY <1>a, <2>1 DEF Quiet
  <2> QED BY <1>0, <1>1, <2>5, <2>6, <2>7, <2>8, <2>9, DebtAfter
<1> QED BY <1>1, <1>2, <1>3, <1>4, <1>5, <1>6, <1>7 DEF PostgresInv

-----------------------------------------------------------------------------
(* The session s and the call c after a step that keeps the rest of them.  *)
SessionWith(s, phase, result, lost) ==
    [phase |-> phase, done |-> session[s].done, pending |-> session[s].pending,
     result |-> result, lost |-> lost]

CallWith(c, pc, try, result) ==
    [pc |-> pc, op |-> call[c].op, try |-> try, result |-> result, since |-> call[c].since]

(* The session of the attempt being made.                                  *)
LEMMA CurrentFacts ==
    ASSUME Types, NEW c \in Clients
    PROVE  /\ Current(c) \in Sessions /\ Current(c)[1] = c /\ Current(c)[2] = call[c].try
           /\ call[c].try \in 0 .. Delays /\ Current(c) = <<c, call[c].try>>
           /\ call[c] = CallWith(c, call[c].pc, call[c].try, call[c].result)
BY DEF Types, CallFits, CallRecord, Current, Sessions, CallWith

(* The fields a step changes.                                              *)
LEMMA WithPhase ==
    ASSUME NEW q, NEW x, SessionRecord(q)
    PROVE  [q EXCEPT !.phase = x]
             = [phase |-> x, done |-> q.done, pending |-> q.pending, result |-> q.result, lost |-> q.lost]
BY DEF SessionRecord

(* Updates of records, field by field.                                     *)
LEMMA WithPhaseAndResult ==
    ASSUME NEW q, NEW x, NEW y, SessionRecord(q)
    PROVE  [q EXCEPT !.phase = x, !.result = y]
             = [phase |-> x, done |-> q.done, pending |-> q.pending, result |-> y, lost |-> q.lost]
<1> DEFINE r == [q EXCEPT !.phase = x]
<1>1. [q EXCEPT !.phase = x, !.result = y] = [r EXCEPT !.result = y]
  OBVIOUS
<1>2. r = [phase |-> x, done |-> q.done, pending |-> q.pending, result |-> q.result, lost |-> q.lost]
  BY DEF SessionRecord
<1> HIDE DEF r
<1>3. [r EXCEPT !.result = y]
         = [phase |-> x, done |-> q.done, pending |-> q.pending, result |-> y, lost |-> q.lost]
  BY <1>2
<1> QED BY <1>1, <1>3 DEF r

(* The same for the mark of a lost client.                                 *)
LEMMA WithLost ==
    ASSUME NEW q, NEW x, SessionRecord(q)
    PROVE  [q EXCEPT !.lost = x]
             = [phase |-> q.phase, done |-> q.done, pending |-> q.pending, result |-> q.result, lost |-> x]
BY DEF SessionRecord

(* The same for the state of a call.                                       *)
LEMMA WithPc ==
    ASSUME NEW q, NEW x, CallRecord(q)
    PROVE  [q EXCEPT !.pc = x]
             = [pc |-> x, op |-> q.op, try |-> q.try, result |-> q.result, since |-> q.since]
BY DEF CallRecord

(* The same for the state and the result of a call.                        *)
LEMMA WithPcAndResult ==
    ASSUME NEW q, NEW x, NEW y, CallRecord(q)
    PROVE  [q EXCEPT !.pc = x, !.result = y]
             = [pc |-> x, op |-> q.op, try |-> q.try, result |-> y, since |-> q.since]
<1> DEFINE r == [q EXCEPT !.pc = x]
<1>1. [q EXCEPT !.pc = x, !.result = y] = [r EXCEPT !.result = y]
  OBVIOUS
<1>2. r = [pc |-> x, op |-> q.op, try |-> q.try, result |-> q.result, since |-> q.since]
  BY DEF CallRecord
<1> HIDE DEF r
<1>3. [r EXCEPT !.result = y]
         = [pc |-> x, op |-> q.op, try |-> q.try, result |-> y, since |-> q.since]
  BY <1>2
<1> QED BY <1>1, <1>3 DEF r

(* The same for the state and the attempt of a call.                       *)
LEMMA WithPcAndTry ==
    ASSUME NEW q, NEW x, NEW y, CallRecord(q)
    PROVE  [q EXCEPT !.pc = x, !.try = y]
             = [pc |-> x, op |-> q.op, try |-> y, result |-> q.result, since |-> q.since]
<1> DEFINE r == [q EXCEPT !.pc = x]
<1>1. [q EXCEPT !.pc = x, !.try = y] = [r EXCEPT !.try = y]
  OBVIOUS
<1>2. r = [pc |-> x, op |-> q.op, try |-> q.try, result |-> q.result, since |-> q.since]
  BY DEF CallRecord
<1> HIDE DEF r
<1>3. [r EXCEPT !.try = y]
         = [pc |-> x, op |-> q.op, try |-> y, result |-> q.result, since |-> q.since]
  BY <1>2
<1> QED BY <1>1, <1>3 DEF r

(* Every session record an action writes, spelled out.                     *)
LEMMA SessionForms ==
    ASSUME Types, NEW s \in Sessions
    PROVE  /\ \A q : session' = [session EXCEPT ![s] = q] => Sets(s, q)
           /\ \A x : session' = [session EXCEPT ![s].phase = x] =>
                Sets(s, SessionWith(s, x, session[s].result, session[s].lost))
           /\ \A x, r : session' = [session EXCEPT ![s].phase = x, ![s].result = r] =>
                Sets(s, SessionWith(s, x, r, session[s].lost))
           /\ \A x : session' = [session EXCEPT ![s].lost = x] =>
                Sets(s, SessionWith(s, session[s].phase, session[s].result, x))
           /\ UNCHANGED session => Sets(s, session[s])
           /\ session[s] = SessionWith(s, session[s].phase, session[s].result, session[s].lost)
<1> DEFINE q0 == session[s]
<1>0. session = [t \in Sessions |-> session[t]]
  BY DEF Types
<1>1. SessionRecord(q0)
  BY DEF Types, SessionFits
<1>2. session[s] = SessionWith(s, session[s].phase, session[s].result, session[s].lost)
  BY <1>1 DEF SessionRecord, SessionWith
<1>3. \A q : session' = [session EXCEPT ![s] = q] => Sets(s, q)
  BY <1>0 DEF Sets
<1> HIDE DEF q0
<1>4. \A x : [q0 EXCEPT !.phase = x] =
         [phase |-> x, done |-> q0.done, pending |-> q0.pending, result |-> q0.result, lost |-> q0.lost]
  BY <1>1, WithPhase
<1>5. \A x, r : [q0 EXCEPT !.phase = x, !.result = r] =
         [phase |-> x, done |-> q0.done, pending |-> q0.pending, result |-> r, lost |-> q0.lost]
  BY <1>1, WithPhaseAndResult
<1>6. \A x : [q0 EXCEPT !.lost = x] =
         [phase |-> q0.phase, done |-> q0.done, pending |-> q0.pending, result |-> q0.result, lost |-> x]
  BY <1>1, WithLost
<1>7. \A x : session' = [session EXCEPT ![s].phase = x] =>
                Sets(s, SessionWith(s, x, session[s].result, session[s].lost))
  BY <1>0, <1>4 DEF Sets, SessionWith, q0
<1>8. \A x, r : session' = [session EXCEPT ![s].phase = x, ![s].result = r] =>
                Sets(s, SessionWith(s, x, r, session[s].lost))
  BY <1>0, <1>5 DEF Sets, SessionWith, q0
<1>9. \A x : session' = [session EXCEPT ![s].lost = x] =>
                Sets(s, SessionWith(s, session[s].phase, session[s].result, x))
  BY <1>0, <1>6 DEF Sets, SessionWith, q0
<1>10. UNCHANGED session => Sets(s, session[s])
  BY <1>0 DEF Sets
<1> QED BY <1>2, <1>3, <1>7, <1>8, <1>9, <1>10

(* Every call record an action writes, spelled out.                        *)
LEMMA CallForms ==
    ASSUME Types, NEW c \in Clients
    PROVE  /\ \A p : call' = [call EXCEPT ![c] = p] => Puts(c, p)
           /\ \A how, r : Finish(c, how, r) => Puts(c, CallWith(c, how, call[c].try, r))
           /\ \A x : call' = [call EXCEPT ![c].pc = x] =>
                Puts(c, CallWith(c, x, call[c].try, call[c].result))
           /\ call' = [call EXCEPT ![c].pc = "trying", ![c].try = @ + 1] =>
                Puts(c, CallWith(c, "trying", call[c].try + 1, call[c].result))
           /\ UNCHANGED call => Puts(c, call[c])
<1> DEFINE p0 == call[c]
<1>0. call = [d \in Clients |-> call[d]]
  BY DEF Types
<1>1. CallRecord(p0)
  BY DEF Types, CallFits
<1>2. \A p : call' = [call EXCEPT ![c] = p] => Puts(c, p)
  BY <1>0 DEF Puts
<1> HIDE DEF p0
<1>3. \A how, r : [p0 EXCEPT !.pc = how, !.result = r] =
         [pc |-> how, op |-> p0.op, try |-> p0.try, result |-> r, since |-> p0.since]
  BY <1>1, WithPcAndResult
<1>4. \A x : [p0 EXCEPT !.pc = x] =
         [pc |-> x, op |-> p0.op, try |-> p0.try, result |-> p0.result, since |-> p0.since]
  BY <1>1, WithPc
<1>5. \A x, y : [p0 EXCEPT !.pc = x, !.try = y] =
         [pc |-> x, op |-> p0.op, try |-> y, result |-> p0.result, since |-> p0.since]
  BY <1>1, WithPcAndTry
<1>6. \A how, r : Finish(c, how, r) => Puts(c, CallWith(c, how, call[c].try, r))
  BY <1>0, <1>3 DEF Puts, Finish, CallWith, p0
<1>7. \A x : call' = [call EXCEPT ![c].pc = x] =>
                Puts(c, CallWith(c, x, call[c].try, call[c].result))
  BY <1>0, <1>4 DEF Puts, CallWith, p0
<1>8. call' = [call EXCEPT ![c].pc = "trying", ![c].try = @ + 1] =>
                Puts(c, CallWith(c, "trying", call[c].try + 1, call[c].result))
  BY <1>0, <1>5 DEF Puts, CallWith, p0
<1>9. UNCHANGED call => Puts(c, call[c])
  BY <1>0 DEF Puts
<1> QED BY <1>2, <1>6, <1>7, <1>8, <1>9

(* Retry after a failure: the call backs off or has failed.                *)
LEMMA FailForms ==
    ASSUME Types, NEW c \in Clients, NEW retryable, Fails(c, retryable)
    PROVE  \/ Puts(c, CallWith(c, "error", call[c].try, Nil))
           \/ call[c].try < Delays /\ Puts(c, CallWith(c, "backoff", call[c].try, call[c].result))
<1>1. call[c].try \in Nat /\ Delays \in Nat
  BY CurrentFacts, PostgresAssumption
<1>2. CASE call[c].try >= Delays \/ ~retryable
  <2>1. Finish(c, "error", Nil)
    BY <1>2 DEF Fails
  <2> QED BY <2>1, CallForms
<1>3. CASE ~(call[c].try >= Delays \/ ~retryable)
  <2>1. call' = [call EXCEPT ![c].pc = "backoff"]
    BY <1>3 DEF Fails
  <2>2. call[c].try < Delays
    BY <1>1, <1>3
  <2> QED BY <2>1, <2>2, CallForms
<1> QED BY <1>2, <1>3

-----------------------------------------------------------------------------
(* What is known of a call that is being tried.                            *)
LEMMA TryingFacts ==
    ASSUME PostgresInv, NEW c \in Clients, call[c].pc = "trying"
    PROVE  LET s == Current(c) IN
           /\ s \in Sessions /\ s[1] = c /\ s[2] = call[c].try /\ s = <<c, call[c].try>>
           /\ call[c].op \in Ops /\ Op(s) = call[c].op /\ CallFits(call[c]) /\ SessionFits(session[s])
           /\ call[c].since <= Len(log)
           /\ Types
           /\ Live(s) => Work(s) /\ PhaseFits(s)
           /\ s[2] \in Nat /\ call[c].try \in Nat
BY CurrentFacts DEF PostgresInv, Types, CallFits, Op, CallInv, WorkInv

(* What a call may still commit.                                           *)
LEMMA Balance ==
    ASSUME Types, NEW c \in Clients
    PROVE  /\ broken[c] \in Nat
           /\ May(c) = IF call[c].pc \in {"idle", "error"} THEN broken[c] ELSE broken[c] + 1
           /\ One(TRUE) = 1 /\ One(FALSE) = 0
BY DEF Types, May, One

(* The client sends the next statement.                                    *)
LEMMA SendItemStep ==
    ASSUME PostgresInv, NEW c \in Clients, SendItem(c)
    PROVE  PostgresInv'
<1> DEFINE s == Current(c)
           p == call[c]
           q == SessionWith(s, "exec", session[s].result, session[s].lost)
<1>1. /\ p.pc = "trying" /\ session[s].phase = "ready" /\ IsWrite(p.op) /\ ~AllSent(s)
      /\ session' = [session EXCEPT ![s].phase = "exec"]
      /\ UNCHANGED <<table, lock, log, call, broken>>
  BY DEF SendItem, Trying, dbVars
<1>2. /\ s \in Sessions /\ s[1] = c /\ s[2] = p.try /\ s = <<c, p.try>>
      /\ p.op \in Ops /\ Op(s) = p.op /\ CallFits(p) /\ SessionFits(session[s])
      /\ p.since <= Len(log) /\ Types /\ s[2] \in Nat
      /\ Live(s) => Work(s) /\ PhaseFits(s)
  BY <1>1, TryingFacts
<1>3. Sets(s, q) /\ Puts(c, p)
  BY <1>1, <1>2, SessionForms, CallForms
<1>4. Live(s) /\ "exec" \in LiveIn
  BY <1>1 DEF Live, LiveIn
<1>5. SessionFits(q) /\ q.phase = "exec" /\ q.done = session[s].done /\ q.pending = session[s].pending
  BY <1>2 DEF SessionFits, SessionRecord, SessionWith
<1>6. IsWrite(p.op) /\ q.done < Len(p.op.items)
  <2>1. Len(p.op.items) \in Nat /\ session[s].done \in Nat
    BY <1>2, OpFacts DEF SessionFits
  <2>2. session[s].done <= Len(p.op.items) /\ session[s].done # Len(p.op.items)
    BY <1>1, <1>2, <1>4 DEF AllSent, Work
  <2> QED BY <1>1, <1>5, <2>1, <2>2
<1> HIDE DEF q
<1>7. Move(s, q, p)
  BY <1>1, <1>2, <1>3, <1>5 DEF Move, Current
<1>8. broken' \in [Clients -> Nat] /\ broken' = broken
  BY <1>1, <1>2 DEF Types
<1>9. One(q.phase \in LiveIn) + One(p.pc = "backoff") + May(s[1])
         <= One(Live(s)) + One(call[s[1]].pc = "backoff") + broken'[s[1]] + One(p.pc # "error")
  <2>1. broken'[s[1]] = broken[c] /\ broken[c] \in Nat /\ May(s[1]) = broken[c] + 1
    BY <1>1, <1>2, Balance
  <2>2. One(p.pc = "backoff") = 0 /\ One(p.pc # "error") = 1 /\ One(Live(s)) = 1
    BY <1>1, <1>4 DEF One
  <2>3. One(q.phase \in LiveIn) = 1
    BY <1>4, <1>5 DEF One
  <2> QED BY <1>2, <2>1, <2>2, <2>3
<1>10. Quiet(s, q, p)
  BY <1>1, <1>2, <1>4, <1>5, <1>6, <1>7, <1>8, <1>9 DEF Quiet, dbVars
<1> QED BY <1>2, <1>10, QuietStep

(* The client sends COMMIT.                                                *)
LEMMA SendCommitStep ==
    ASSUME PostgresInv, NEW c \in Clients, SendCommit(c)
    PROVE  PostgresInv'
<1> DEFINE s == Current(c)
           p == call[c]
           q == SessionWith(s, "commit", session[s].result, session[s].lost)
<1>1. /\ p.pc = "trying" /\ session[s].phase = "ready" /\ IsWrite(p.op) /\ AllSent(s)
      /\ session' = [session EXCEPT ![s].phase = "commit"]
      /\ UNCHANGED <<table, lock, log, call, broken>>
  BY DEF SendCommit, Trying, dbVars
<1>2. /\ s \in Sessions /\ s[1] = c /\ s[2] = p.try /\ s = <<c, p.try>>
      /\ p.op \in Ops /\ Op(s) = p.op /\ CallFits(p) /\ SessionFits(session[s])
      /\ p.since <= Len(log) /\ Types /\ s[2] \in Nat
      /\ Live(s) => Work(s) /\ PhaseFits(s)
  BY <1>1, TryingFacts
<1>3. Sets(s, q) /\ Puts(c, p)
  BY <1>1, <1>2, SessionForms, CallForms
<1>4. Live(s) /\ "commit" \in LiveIn
  BY <1>1 DEF Live, LiveIn
<1>5. SessionFits(q) /\ q.phase = "commit" /\ q.done = session[s].done /\ q.pending = session[s].pending
  BY <1>2 DEF SessionFits, SessionRecord, SessionWith
<1>6. p.op.kind = "UpdateMany" /\ q.done = Len(p.op.items)
  <2>1. session[s].done = Len(p.op.items)
    BY <1>1, <1>2 DEF AllSent
  <2>2. p.op.kind # "UpdateMany" => session[s].done = 0 /\ Len(p.op.items) = 1
    BY <1>1, <1>2, <1>4, OpFacts DEF Work, AutoCommit
  <2>3. \A x : ~(x = 0 /\ x = 1)
    OBVIOUS
  <2> QED BY <1>5, <2>1, <2>2, <2>3
<1> HIDE DEF q
<1>7. Move(s, q, p)
  BY <1>1, <1>2, <1>3, <1>5 DEF Move, Current
<1>8. broken' \in [Clients -> Nat] /\ broken' = broken
  BY <1>1, <1>2 DEF Types
<1>9. One(q.phase \in LiveIn) + One(p.pc = "backoff") + May(s[1])
         <= One(Live(s)) + One(call[s[1]].pc = "backoff") + broken'[s[1]] + One(p.pc # "error")
  <2>1. broken'[s[1]] = broken[c] /\ broken[c] \in Nat /\ May(s[1]) = broken[c] + 1
    BY <1>1, <1>2, Balance
  <2>2. One(p.pc = "backoff") = 0 /\ One(p.pc # "error") = 1 /\ One(Live(s)) = 1
    BY <1>1, <1>4 DEF One
  <2>3. One(q.phase \in LiveIn) = 1
    BY <1>4, <1>5 DEF One
  <2> QED BY <1>2, <2>1, <2>2, <2>3
<1>10. Quiet(s, q, p)
  BY <1>1, <1>2, <1>4, <1>5, <1>6, <1>7, <1>8, <1>9 DEF Quiet, dbVars
<1> QED BY <1>2, <1>10, QuietStep

(* A read finds a committed state.                                         *)
LEMMA QueryStep ==
    ASSUME PostgresInv, NEW c \in Clients, Query(c)
    PROVE  PostgresInv'
<1> DEFINE s == Current(c)
           p == call[c]
           r == Result(StoreOf(table), p.op)
           q == SessionWith(s, "answering", r, session[s].lost)
<1>1. /\ p.pc = "trying" /\ session[s].phase = "ready" /\ ~IsWrite(p.op)
      /\ session' = [session EXCEPT ![s].phase = "answering", ![s].result = r]
      /\ UNCHANGED <<table, lock, log, call, broken>>
  BY DEF Query, Trying, dbVars
<1>2. /\ s \in Sessions /\ s[1] = c /\ s[2] = p.try /\ s = <<c, p.try>>
      /\ p.op \in Ops /\ Op(s) = p.op /\ CallFits(p) /\ SessionFits(session[s])
      /\ p.since <= Len(log) /\ Types /\ s[2] \in Nat
      /\ Live(s) => Work(s) /\ PhaseFits(s)
  BY <1>1, TryingFacts
<1>a. ReadFrom(c, r)
  <2>1. table = Replay(Len(log))
    BY DEF PostgresInv, CallsSerialize
  <2>2. Len(log) \in p.since .. Len(log)
    BY <1>2 DEF Types, CallFits
  <2> QED BY <2>1, <2>2 DEF ReadFrom
<1> HIDE DEF r
<1>3. Sets(s, q) /\ Puts(c, p)
  BY <1>1, <1>2, SessionForms, CallForms
<1>4. Live(s) /\ "answering" \notin LiveIn
  BY <1>1 DEF Live, LiveIn
<1>5. SessionFits(q) /\ q.phase = "answering" /\ q.result = r
  BY <1>2 DEF SessionFits, SessionRecord, SessionWith
<1>6. \A n \in Names : session[s].pending[n] = Nil
  <2>1. p.op.kind # "UpdateMany"
    BY <1>1, <1>2, OpFacts
  <2>2. session[s].pending = NoRows
    BY <1>2, <1>4, <2>1 DEF Work, AutoCommit
  <2> QED BY <2>2 DEF NoRows
<1> HIDE DEF q
<1>7. Move(s, q, p)
  BY <1>1, <1>2, <1>3, <1>5 DEF Move, Current
<1>8. broken' \in [Clients -> Nat] /\ broken' = broken
  BY <1>1, <1>2 DEF Types
<1>9. One(q.phase \in LiveIn) + One(p.pc = "backoff") + May(s[1])
         <= One(Live(s)) + One(call[s[1]].pc = "backoff") + broken'[s[1]] + One(p.pc # "error")
  <2>1. broken'[s[1]] = broken[c] /\ broken[c] \in Nat /\ May(s[1]) = broken[c] + 1
    BY <1>1, <1>2, Balance
  <2>2. One(p.pc = "backoff") = 0 /\ One(p.pc # "error") = 1 /\ One(Live(s)) = 1
    BY <1>1, <1>4 DEF One
  <2>3. One(q.phase \in LiveIn) = 0
    BY <1>4, <1>5 DEF One
  <2> QED BY <1>2, <2>1, <2>2, <2>3
<1>10. Quiet(s, q, p)
  BY <1>1, <1>2, <1>a, <1>4, <1>5, <1>6, <1>7, <1>8, <1>9 DEF Quiet, dbVars, LiveIn
<1> QED BY <1>2, <1>10, QuietStep

(* New and ended sessions hold nothing.                                    *)
LEMMA EndedFacts ==
    /\ SessionFits(Ended) /\ Ended.phase = "ended" /\ Ended.phase \notin LiveIn \cup {"answering"}
    /\ SessionFits(Opened) /\ Opened.phase = "ready" /\ Opened.done = 0 /\ Opened.pending = NoRows
    /\ \A n \in Names : NoRows[n] = Nil /\ Opened.pending[n] = Nil
<1> DEFINE q == NoSession
           Rec(x) == [phase |-> x, done |-> q.done, pending |-> q.pending, result |-> q.result, lost |-> q.lost]
<1>3. SessionRecord(q) /\ q.done = 0 /\ q.pending = NoRows /\ q.lost \in BOOLEAN
  BY DEF NoSession, SessionRecord
<1> HIDE DEF q
<1>4. \A x : [q EXCEPT !.phase = x] = Rec(x)
  BY <1>3, WithPhase
<1>1. Ended = Rec("ended") /\ Opened = Rec("ready")
  BY <1>4 DEF Ended, Opened, q
<1>2. NoRows \in [Names -> Rows \cup {Nil}] /\ \A n \in Names : NoRows[n] = Nil
  BY DEF NoRows
<1> QED BY <1>1, <1>2, <1>3 DEF SessionFits, SessionRecord, LiveIn

(* The answer reaches the client.                                          *)
LEMMA AnsweredStep ==
    ASSUME PostgresInv, NEW c \in Clients, Answered(c)
    PROVE  PostgresInv'
<1> DEFINE s == Current(c)
           r == session[s].result
           p == CallWith(c, "ok", call[c].try, r)
           q == Ended
<1>1. /\ call[c].pc = "trying" /\ session[s].phase = "answering"
      /\ Finish(c, "ok", r) /\ session' = [session EXCEPT ![s] = q]
      /\ UNCHANGED <<table, lock, log, broken>>
  BY DEF Answered, Trying, dbVars
<1>2. /\ s \in Sessions /\ s[1] = c /\ s[2] = call[c].try /\ s = <<c, call[c].try>>
      /\ call[c].op \in Ops /\ Op(s) = call[c].op /\ CallFits(call[c])
      /\ call[c].since <= Len(log) /\ Types /\ s[2] \in Nat
  BY <1>1, TryingFacts
<1>3. Sets(s, q) /\ Puts(c, p)
  BY <1>1, <1>2, SessionForms, CallForms
<1>4. ~Live(s)
  BY <1>1 DEF Live, LiveIn
<1>5. /\ CallFits(p) /\ p.pc = "ok" /\ p.try = call[c].try /\ p.op = call[c].op
      /\ p.since = call[c].since /\ p.result = r
  BY <1>1, <1>2 DEF CallFits, CallRecord, CallWith
<1>6. /\ ~IsWrite(p.op) => ReadFrom(c, p.result)
      /\ IsWrite(p.op) => Applied(c) > 0
  BY <1>1, <1>2, <1>5 DEF PostgresInv, ReadInv, DebtInv
<1> HIDE DEF p
<1>7. Move(s, q, p)
  BY <1>1, <1>2, <1>3, <1>5, EndedFacts DEF Move, Current
<1>8. broken' \in [Clients -> Nat] /\ broken' = broken
  BY <1>1, <1>2 DEF Types
<1>9. One(q.phase \in LiveIn) + One(p.pc = "backoff") + May(s[1])
         <= One(Live(s)) + One(call[s[1]].pc = "backoff") + broken'[s[1]] + One(p.pc # "error")
  <2>1. broken'[s[1]] = broken[c] /\ broken[c] \in Nat /\ May(s[1]) = broken[c] + 1
    BY <1>1, <1>2, <1>8, Balance
  <2>2. One(p.pc = "backoff") = 0 /\ One(p.pc # "error") = 1 /\ One(call[s[1]].pc = "backoff") = 0
    BY <1>1, <1>2, <1>5 DEF One
  <2>3. One(q.phase \in LiveIn) = 0 /\ One(Live(s)) = 0
    BY <1>4, EndedFacts DEF One
  <2> QED BY <1>2, <2>1, <2>2, <2>3
<1> HIDE DEF q
<1>11. q.phase \notin LiveIn \cup {"answering"}
  BY EndedFacts DEF q
<1>10. Quiet(s, q, p)
  BY <1>1, <1>2, <1>4, <1>5, <1>6, <1>7, <1>8, <1>9, <1>11 DEF Quiet, dbVars, LiveIn
<1> QED BY <1>2, <1>10, QuietStep

(* A connection that breaks costs the call one attempt, which may still    *)
(* commit.                                                                 *)
LEMMA LosesStep ==
    ASSUME PostgresInv, NEW c \in Clients, call[c].pc = "trying",
           session[Current(c)].phase \in LiveIn \cup {"answering"}, Loses(c), UNCHANGED dbVars,
           NEW pc, NEW r, Puts(c, CallWith(c, pc, call[c].try, r)),
           \/ pc = "error"
           \/ pc = "backoff" /\ call[c].try < Delays
           \/ pc = "ok" /\ CutFrom(c, r)
    PROVE  PostgresInv'
<1> DEFINE s == Current(c)
           p == CallWith(c, pc, call[c].try, r)
           q == SessionWith(s, session[s].phase, session[s].result, TRUE)
<1>2. /\ s \in Sessions /\ s[1] = c /\ s[2] = call[c].try /\ s = <<c, call[c].try>>
      /\ call[c].op \in Ops /\ Op(s) = call[c].op /\ CallFits(call[c]) /\ SessionFits(session[s])
      /\ call[c].since <= Len(log) /\ Types /\ s[2] \in Nat
      /\ Live(s) => Work(s) /\ PhaseFits(s)
  BY TryingFacts
<1>3. Sets(s, q) /\ Puts(c, p)
  BY <1>2, SessionForms DEF Loses
<1>5. /\ CallFits(p) /\ p.pc = pc /\ p.try = call[c].try /\ p.op = call[c].op
      /\ p.since = call[c].since /\ p.result = r
  BY <1>2 DEF CallFits, CallRecord, CallWith
<1>6. /\ SessionFits(q) /\ q.phase = session[s].phase /\ q.done = session[s].done
      /\ q.pending = session[s].pending /\ q.result = session[s].result /\ q.lost
  BY <1>2 DEF SessionFits, SessionRecord, SessionWith
<1> HIDE DEF p, q
<1>7. Move(s, q, p)
  BY <1>2, <1>3, <1>5, <1>6 DEF Move, Current
<1>8. /\ broken' \in [Clients -> Nat] /\ broken'[c] = broken[c] + 1 /\ broken[c] \in Nat
      /\ \A d \in Clients \ {c} : broken'[d] = broken[d]
  BY <1>2 DEF Types, Loses
<1>9. One(q.phase \in LiveIn) + One(p.pc = "backoff") + May(s[1])
         <= One(Live(s)) + One(call[s[1]].pc = "backoff") + broken'[s[1]] + One(p.pc # "error")
  <2>1. broken[c] \in Nat /\ May(s[1]) = broken[c] + 1
    BY <1>2, Balance
  <2>2. One(call[s[1]].pc = "backoff") = 0 /\ One(p.pc = "backoff") <= One(p.pc # "error")
    BY <1>2, <1>5 DEF One
  <2>3. One(q.phase \in LiveIn) = One(Live(s))
    BY <1>6 DEF One, Live
  <2>4. One(p.pc = "backoff") \in Int /\ One(p.pc # "error") \in Int /\ One(Live(s)) \in Int
    BY DEF One
  <2>5. broken'[s[1]] = broken[c] + 1
    BY <1>2, <1>8
  <2> QED BY <2>1, <2>2, <2>3, <2>4, <2>5
<1>11. p.pc = "ok" => ~IsWrite(p.op) /\ broken'[c] > 0 /\ CutFrom(c, p.result)
  BY <1>5, <1>8 DEF CutFrom, IsWrite
<1>12. session[s].phase \in LiveIn => Live(s)
  BY DEF Live
<1>10. Quiet(s, q, p)
  BY <1>2, <1>5, <1>6, <1>7, <1>8, <1>9, <1>11, <1>12 DEF Quiet, Live
<1> QED BY <1>2, <1>10, QuietStep

(* The connection breaks.                                                  *)
LEMMA BreaksStep ==
    ASSUME PostgresInv, NEW c \in Clients, Breaks(c)
    PROVE  PostgresInv'
<1>1. /\ call[c].pc = "trying" /\ session[Current(c)].phase \in LiveIn \cup {"answering"}
      /\ Loses(c) /\ UNCHANGED dbVars
  BY DEF Breaks, Trying, LiveIn
<1>2. PICK retryable \in BOOLEAN : Fails(c, retryable)
  BY DEF Breaks
<1>3. Types
  BY DEF PostgresInv
<1>4. \/ Puts(c, CallWith(c, "error", call[c].try, Nil))
      \/ call[c].try < Delays /\ Puts(c, CallWith(c, "backoff", call[c].try, call[c].result))
  BY <1>2, <1>3, FailForms
<1> QED BY <1>1, <1>4, LosesStep

(* The connection breaks while rows are read.                              *)
LEMMA StreamBreaksStep ==
    ASSUME PostgresInv, NEW c \in Clients, StreamBreaks(c)
    PROVE  PostgresInv'
<1>1. /\ call[c].pc = "trying" /\ session[Current(c)].phase = "answering"
      /\ call[c].op.kind = "Snapshot" /\ Loses(c) /\ UNCHANGED dbVars
  BY DEF StreamBreaks, Trying
<1>2. PICK names \in SUBSET Names : Finish(c, "ok", Truncated(session[Current(c)].result, names))
  BY DEF StreamBreaks
<1>3. Types
  BY DEF PostgresInv
<1> DEFINE r == Truncated(session[Current(c)].result, names)
<1>4. Finish(c, "ok", r)
  BY <1>2
<1> HIDE DEF r
<1>5. Puts(c, CallWith(c, "ok", call[c].try, r))
  BY <1>3, <1>4, CallForms
<1>6. session[Current(c)].phase \in LiveIn \cup {"answering"}
  BY <1>1
<1>7. CutFrom(c, r)
  <2>1. Current(c) \in Sessions /\ Current(c)[1] = c /\ Op(Current(c)) = call[c].op
    BY <1>1, TryingFacts
  <2>2. ReadFrom(c, session[Current(c)].result)
    BY <1>1, <2>1 DEF PostgresInv, ReadInv, IsWrite
  <2>3. PICK k \in call[c].since .. Len(log) :
          session[Current(c)].result = Result(StoreOf(Replay(k)), call[c].op)
    BY <2>2 DEF ReadFrom
  <2>4. r = Truncated(Result(StoreOf(Replay(k)), call[c].op), names)
    BY <2>3 DEF r
  <2> QED BY <1>1, <2>3, <2>4 DEF CutFrom
<1> QED BY <1>1, <1>5, <1>6, <1>7, LosesStep

(* The wait before a retry is cut short.                                   *)
LEMMA CancelledStep ==
    ASSUME PostgresInv, NEW c \in Clients, Cancelled(c)
    PROVE  PostgresInv'
<1> DEFINE s == Current(c)
           p == CallWith(c, "error", call[c].try, Nil)
           q == session[s]
<1>1. /\ call[c].pc = "backoff" /\ Finish(c, "error", Nil)
      /\ UNCHANGED dbVars /\ UNCHANGED <<session, broken>>
  BY DEF Cancelled
<1>2. /\ s \in Sessions /\ s[1] = c /\ s[2] = call[c].try /\ s = <<c, call[c].try>>
      /\ call[c].op \in Ops /\ Op(s) = call[c].op /\ CallFits(call[c]) /\ SessionFits(session[s])
      /\ call[c].since <= Len(log) /\ Types /\ call[c].try \in Nat
  BY <1>1, CurrentFacts DEF PostgresInv, Types, CallFits, Op, CallInv
<1>3. Sets(s, q) /\ Puts(c, p)
  BY <1>1, <1>2, SessionForms, CallForms
<1>4. q.phase \in LiveIn \cup {"answering"} => q.lost
  BY <1>1, <1>2 DEF PostgresInv, CallInv, Live
<1>5. /\ CallFits(p) /\ p.pc = "error" /\ p.try = call[c].try /\ p.op = call[c].op
      /\ p.since = call[c].since
  BY <1>1, <1>2 DEF CallFits, CallRecord, CallWith
<1> HIDE DEF p
<1>7. Move(s, q, p)
  BY <1>1, <1>2, <1>3, <1>4, <1>5 DEF Move, Current
<1>8. broken' \in [Clients -> Nat] /\ broken' = broken
  BY <1>1, <1>2 DEF Types
<1>9. One(q.phase \in LiveIn) + One(p.pc = "backoff") + May(s[1])
         <= One(Live(s)) + One(call[s[1]].pc = "backoff") + broken'[s[1]] + One(p.pc # "error")
  <2>1. broken'[s[1]] = broken[c] /\ broken[c] \in Nat /\ May(s[1]) = broken[c] + 1
    BY <1>1, <1>2, <1>8, Balance
  <2>2. One(call[s[1]].pc = "backoff") = 1 /\ One(p.pc = "backoff") = 0 /\ One(p.pc # "error") = 0
    BY <1>1, <1>2, <1>5 DEF One
  <2>3. One(q.phase \in LiveIn) = One(Live(s)) /\ One(Live(s)) \in Int
    BY DEF One, Live
  <2> QED BY <1>2, <2>1, <2>2, <2>3
<1>10. Quiet(s, q, p)
  BY <1>1, <1>2, <1>5, <1>7, <1>8, <1>9 DEF Quiet, Live
<1> QED BY <1>2, <1>10, QuietStep

(* A new session for an attempt: the first one, or the next.               *)
LEMMA BackoffStep ==
    ASSUME PostgresInv, NEW c \in Clients, Backoff(c)
    PROVE  PostgresInv'
<1> DEFINE s == <<c, call[c].try + 1>>
           p == CallWith(c, "trying", call[c].try + 1, call[c].result)
           q == Opened
<1>1. /\ call[c].pc = "backoff" /\ session' = [session EXCEPT ![s] = q]
      /\ call' = [call EXCEPT ![c].pc = "trying", ![c].try = @ + 1]
      /\ UNCHANGED dbVars /\ UNCHANGED broken
  BY DEF Backoff
<1>0. Types /\ CallFits(call[c]) /\ call[c].since <= Len(log) /\ Delays \in Nat
  BY PostgresAssumption DEF PostgresInv, Types, CallInv
<1>2. /\ call[c].try \in Nat /\ call[c].try + 1 \in 0 .. Delays /\ call[c].op \in Ops
      /\ s \in Sessions /\ s[1] = c /\ s[2] = call[c].try + 1
  BY <1>0, <1>1 DEF CallFits, Sessions
<1>3. Sets(s, q) /\ Puts(c, p)
  BY <1>0, <1>1, <1>2, SessionForms, CallForms
<1>4. session[s].phase = "none" /\ ~Live(s)
  <2>1. ~(s[2] <= call[s[1]].try)
    BY <1>2
  <2> QED BY <1>2, <2>1 DEF PostgresInv, CallInv, Live, LiveIn
<1>5. /\ CallFits(p) /\ p.pc = "trying" /\ p.try = call[c].try + 1 /\ p.op = call[c].op
      /\ p.since = call[c].since
  BY <1>0, <1>1, <1>2 DEF CallFits, CallRecord, CallWith
<1>6. /\ SessionFits(q) /\ q.phase = "ready" /\ q.done = 0 /\ q.pending = NoRows
      /\ \A n \in Names : q.pending[n] = Nil
  BY EndedFacts
<1> HIDE DEF p, q
<1>7. Move(s, q, p)
  BY <1>0, <1>1, <1>2, <1>3, <1>5, <1>6 DEF Move
<1>8. broken' \in [Clients -> Nat] /\ broken' = broken
  BY <1>0, <1>1 DEF Types
<1>9. One(q.phase \in LiveIn) + One(p.pc = "backoff") + May(s[1])
         <= One(Live(s)) + One(call[s[1]].pc = "backoff") + broken'[s[1]] + One(p.pc # "error")
  <2>1. broken'[s[1]] = broken[c] /\ broken[c] \in Nat /\ May(s[1]) = broken[c] + 1
    BY <1>0, <1>1, <1>2, <1>8, Balance
  <2>2. One(call[s[1]].pc = "backoff") = 1 /\ One(p.pc = "backoff") = 0 /\ One(p.pc # "error") = 1
    BY <1>1, <1>2, <1>5 DEF One
  <2>3. One(q.phase \in LiveIn) = 1 /\ One(Live(s)) = 0
    BY <1>4, <1>6 DEF One, LiveIn
  <2> QED BY <1>2, <2>1, <2>2, <2>3
<1>10. Quiet(s, q, p)
  BY <1>1, <1>2, <1>4, <1>5, <1>6, <1>7, <1>8, <1>9 DEF Quiet
<1> QED BY <1>2, <1>10, QuietStep

(* A call begins.                                                          *)
LEMMA CallStep ==
    ASSUME PostgresInv, NEW c \in Clients, NEW op \in Ops, Call(c, op)
    PROVE  PostgresInv'
<1> DEFINE s == <<c, 0>>
           empty == op.kind = "UpdateMany" /\ op.items = << >>
           P(x) == [pc |-> x, op |-> op, try |-> 0, result |-> Nil, since |-> Len(log)]
           new == [NoCall EXCEPT !.pc = "trying", !.op = op, !.since = Len(log)]
<1>0. /\ Types /\ CallFits(call[c]) /\ call[c].pc = "idle" /\ UNCHANGED dbVars /\ UNCHANGED broken
      /\ Delays \in Nat /\ Len(log) \in Nat
  BY PostgresAssumption DEF PostgresInv, Types, Call
<1>1. new = P("trying") /\ [new EXCEPT !.pc = "ok"] = P("ok")
  <2>1. new = P("trying")
    <3> DEFINE n1 == [NoCall EXCEPT !.pc = "trying"]
               n2 == [n1 EXCEPT !.op = op]
    <3>1. n1 = [pc |-> "trying", op |-> Nil, try |-> 0, result |-> Nil, since |-> 0]
      BY DEF NoCall
    <3>2. new = [n2 EXCEPT !.since = Len(log)]
      BY DEF NoCall
    <3> HIDE DEF n1
    <3>3. n2 = [pc |-> "trying", op |-> op, try |-> 0, result |-> Nil, since |-> 0]
      BY <3>1
    <3> HIDE DEF n2
    <3>4. [n2 EXCEPT !.since = Len(log)] = P("trying")
      BY <3>3
    <3> QED BY <3>2, <3>4
  <2>2. CallRecord(P("trying"))
    BY DEF CallRecord
  <2>3. [P("trying") EXCEPT !.pc = "ok"] = P("ok")
    BY <2>2, WithPc
  <2> QED BY <2>1, <2>3
<1> HIDE DEF P
<1>2. \/ empty /\ call' = [call EXCEPT ![c] = P("ok")] /\ UNCHANGED session
      \/ /\ call' = [call EXCEPT ![c] = P("trying")]
         /\ session' = [session EXCEPT ![s] = Opened]
  BY <1>1 DEF Call
<1>3. s \in Sessions /\ s[1] = c /\ s[2] = 0 /\ call[c].try = 0
  BY <1>0 DEF Sessions, CallFits
<1>4. session[s].phase = "none" /\ ~Live(s) /\ SessionFits(session[s])
  BY <1>0, <1>3 DEF PostgresInv, CallInv, Live, LiveIn, Types
<1>5. ASSUME NEW x \in {"trying", "ok"}
      PROVE  CallFits(P(x)) /\ P(x).pc = x /\ P(x).op = op /\ P(x).try = 0 /\ P(x).since = Len(log)
  BY <1>0 DEF CallFits, CallRecord, P
<1>8. broken' \in [Clients -> Nat] /\ broken' = broken /\ broken[c] \in Nat /\ May(c) = broken[c]
  BY <1>0, Balance DEF Types
<1>6. CASE empty /\ call' = [call EXCEPT ![c] = P("ok")] /\ UNCHANGED session
  <2> DEFINE p == P("ok")
             q == session[s]
  <2>1. Sets(s, q) /\ Puts(c, p)
    BY <1>0, <1>3, <1>6, SessionForms, CallForms
  <2>2. CallFits(p) /\ p.pc = "ok" /\ p.op = op /\ p.try = 0 /\ p.since = Len(log)
    BY <1>5
  <2> HIDE DEF p
  <2>3. Move(s, q, p)
    BY <1>0, <1>3, <1>4, <2>1, <2>2 DEF Move, LiveIn
  <2>4. One(q.phase \in LiveIn) + One(p.pc = "backoff") + May(s[1])
         <= One(Live(s)) + One(call[s[1]].pc = "backoff") + broken'[s[1]] + One(p.pc # "error")
    <3>1. One(p.pc = "backoff") = 0 /\ One(p.pc # "error") = 1 /\ One(call[s[1]].pc = "backoff") = 0
      BY <1>0, <1>3, <2>2 DEF One
    <3>2. One(q.phase \in LiveIn) = 0 /\ One(Live(s)) = 0
      BY <1>4 DEF One, LiveIn
    <3> QED BY <1>3, <1>8, <3>1, <3>2
  <2>5. IsWrite(p.op) /\ p.op.items = << >>
    BY <1>6, <2>2 DEF IsWrite
  <2>6. Quiet(s, q, p)
    BY <1>0, <1>3, <1>4, <1>8, <2>2, <2>3, <2>4, <2>5 DEF Quiet, LiveIn
  <2> QED BY <1>3, <2>6, QuietStep
<1>7. CASE /\ call' = [call EXCEPT ![c] = P("trying")]
           /\ session' = [session EXCEPT ![s] = Opened]
  <2> DEFINE p == P("trying")
             q == Opened
  <2>1. Sets(s, q) /\ Puts(c, p)
    BY <1>0, <1>3, <1>7, SessionForms, CallForms
  <2>2. CallFits(p) /\ p.pc = "trying" /\ p.op = op /\ p.try = 0 /\ p.since = Len(log)
    BY <1>5
  <2>3. /\ SessionFits(q) /\ q.phase = "ready" /\ q.done = 0 /\ q.pending = NoRows
        /\ \A n \in Names : q.pending[n] = Nil
    BY EndedFacts
  <2> HIDE DEF p, q
  <2>4. Move(s, q, p)
    BY <1>0, <1>3, <2>1, <2>2, <2>3 DEF Move
  <2>5. One(q.phase \in LiveIn) + One(p.pc = "backoff") + May(s[1])
         <= One(Live(s)) + One(call[s[1]].pc = "backoff") + broken'[s[1]] + One(p.pc # "error")
    <3>1. One(p.pc = "backoff") = 0 /\ One(p.pc # "error") = 1 /\ One(call[s[1]].pc = "backoff") = 0
      BY <1>0, <1>3, <2>2 DEF One
    <3>2. One(q.phase \in LiveIn) = 1 /\ One(Live(s)) = 0
      BY <1>4, <2>3 DEF One, LiveIn
    <3> QED BY <1>3, <1>8, <3>1, <3>2
  <2>6. Quiet(s, q, p)
    BY <1>0, <1>3, <1>4, <1>8, <2>2, <2>3, <2>4, <2>5 DEF Quiet
  <2> QED BY <1>3, <2>6, QuietStep
<1> QED BY <1>2, <1>6, <1>7

-----------------------------------------------------------------------------
(* A session that ends without committing takes its rows and its locks     *)
(* with it.                                                                *)
LEMMA RollbackStep ==
    ASSUME PostgresInv, NEW s \in Sessions, Rollback(s), UNCHANGED broken,
           session[s].phase # "none", NEW p, Puts(s[1], p),
           \/ p = call[s[1]]
           \/ /\ call[s[1]].pc = "trying" /\ s = Current(s[1]) /\ Live(s)
              /\ \/ p = CallWith(s[1], "error", call[s[1]].try, Nil)
                 \/ /\ call[s[1]].try < Delays
                    /\ p = CallWith(s[1], "backoff", call[s[1]].try, call[s[1]].result)
    PROVE  PostgresInv'
<1> DEFINE c == s[1]
           q == Ended
<1>0. /\ Types /\ CallInv /\ LockInv /\ WorkInv /\ CallsSerialize /\ ReadInv /\ DebtInv
      /\ UNCHANGED <<table, log>> /\ Release(s) /\ session' = [session EXCEPT ![s] = q]
  BY DEF PostgresInv, Rollback
<1>1. c \in Clients /\ CallFits(call[c]) /\ call[c].since <= Len(log) /\ call[c].try \in Nat
  BY <1>0 DEF Types, Sessions, CallInv, CallFits
<1>2. /\ CallFits(p) /\ p.try = call[c].try /\ p.op = call[c].op /\ p.since = call[c].since
      /\ p.pc \in {call[c].pc, "error", "backoff"}
      /\ p.pc \in {"ok", "trying"} => p = call[c]
  BY <1>1 DEF CallFits, CallRecord, CallWith
<1>3. SessionFits(q) /\ q.phase \notin LiveIn \cup {"answering"} /\ q.phase = "ended"
  BY EndedFacts
<1>4. Sets(s, q)
  BY <1>0, SessionForms
<1> HIDE DEF q
<1>5. call[c].pc # "idle" /\ s[2] <= call[c].try
  BY <1>0 DEF CallInv
<1>6. Move(s, q, p)
  BY <1>1, <1>2, <1>3, <1>4, <1>5 DEF Move
<1>7. Kept /\ LogGrows
  BY <1>0, <1>6, MoveKeeps, SameLog
<1>8. /\ session'[s] = q /\ call'[c] = p
      /\ \A t \in Sessions \ {s} : session'[t] = session[t]
  BY <1>6, MoveAt
<1>9. lock' = [n \in Names |-> IF lock[n] = s THEN Nil ELSE lock[n]] /\ Nil \notin Sessions
  BY <1>0, PostgresAssumption DEF Release
<1>10. Types'
  <2>1. lock' \in [Names -> Sessions \cup {Nil}]
    BY <1>0, <1>9 DEF Types
  <2> QED BY <1>0, <1>6, <1>7, <2>1, MoveTypes DEF Types
<1>11. CallInv'
  <2>1. \A i \in DOMAIN log' : i \in 1 .. Len(log)
    BY <1>0 DEF Types
  <2> QED BY <1>0, <1>6, <1>7, <2>1, MoveCalls
<1>12. LockInv'
  <2> SUFFICES ASSUME NEW t \in Sessions, NEW n \in Names
               PROVE  lock'[n] = t <=> session'[t].phase \in LiveIn /\ session'[t].pending[n] # Nil
    BY DEF LockInv, Live
  <2>1. lock[n] = t <=> session[t].phase \in LiveIn /\ session[t].pending[n] # Nil
    BY <1>0 DEF LockInv, Live
  <2>2. CASE t = s
    BY <1>3, <1>8, <1>9, <2>2
  <2>3. CASE t # s
    BY <1>8, <1>9, <2>1, <2>3
  <2> QED BY <2>2, <2>3
<1>13. WorkInv'
  <2>1. ASSUME NEW t \in Sessions, Live(t)' PROVE Work(t)' /\ PhaseFits(t)'
    <3>1. t # s
      BY <1>3, <1>8, <2>1 DEF Live
    <3>2. IsRows(table') /\ \A n \in Names : session[t].pending[n] # Nil => table'[n] = table[n]
      BY <1>0 DEF Types, IsRows
    <3> QED BY <1>0, <1>6, <2>1, <3>1, <3>2, WorkOfOthers
  <2> QED BY <2>1 DEF WorkInv
<1>14. CallsSerialize'
  BY <1>0, <1>7, SerializeKept
<1>15. ReadInv'
  <2>1. q.phase # "answering" /\ \A d \in Clients : broken'[d] = broken[d]
    BY <1>3
  <2>2. p.pc = "ok" => call[c].pc = "ok" /\ p.result = call[c].result
    BY <1>2
  <2> QED BY <1>0, <1>1, <1>6, <1>7, <2>1, <2>2, ReadsAfter
<1>16. DebtInv'
  <2>1. \A d \in Clients : Applied(d)' = Applied(d) /\ Applied(d) \in Nat
    BY <1>0, AppliedSame, AppliedType
  <2>2. /\ broken' = broken /\ broken[c] \in Int
        /\ May(c) = broken[c] + One(call[c].pc # "error")
    BY <1>0, <1>1, <1>5 DEF Types, May, One
  <2>3. One(q.phase \in LiveIn) = 0
    BY <1>3 DEF One
  <2>4. One(p.pc = "backoff") + One(call[c].pc # "error")
           <= One(Live(s)) + One(call[c].pc = "backoff") + One(p.pc # "error")
    <3>1. CASE p = call[c]
      BY <3>1 DEF One
    <3>2. CASE /\ call[c].pc = "trying" /\ Live(s) /\ p.pc \in {"error", "backoff"}
      BY <3>2 DEF One
    <3> QED BY <1>2, <3>1, <3>2 DEF CallWith
  <2>5. /\ One(p.pc = "backoff") \in Int /\ One(call[c].pc # "error") \in Int /\ One(Live(s)) \in Int
        /\ One(call[c].pc = "backoff") \in Int /\ One(p.pc # "error") \in Int
    BY DEF One
  <2>6. Applied(c)' + One(q.phase \in LiveIn) + One(p.pc = "backoff") + May(c)
               <= Applied(c) + One(Live(s)) + One(call[c].pc = "backoff")
                    + broken'[c] + One(p.pc # "error")
    <3>1. Applied(c)' = Applied(c) /\ Applied(c) \in Nat /\ broken'[c] = broken[c]
      BY <1>1, <2>1, <2>2
    <3> HIDE DEF c
    <3> QED BY <2>2, <2>3, <2>4, <2>5, <3>1
  <2>7. Applied(c)' >= Applied(c)
    BY <1>1, <2>1
  <2>8. \A d \in Clients \ {c} : broken'[d] = broken[d] /\ Applied(d)' = Applied(d)
    BY <2>1, <2>2
  <2>9. q.phase # "answering" /\ (p.pc = "ok" => call[c].pc = "ok")
    BY <1>2, <1>3
  <2> QED BY <1>0, <1>6, <1>10, <2>6, <2>7, <2>8, <2>9, DebtAfter
<1> QED BY <1>10, <1>11, <1>12, <1>13, <1>14, <1>15, <1>16 DEF PostgresInv

(* The database aborts a transaction.                                      *)
LEMMA AbortStep ==
    ASSUME PostgresInv, NEW s \in Sessions, session[s].phase = "exec",
           NEW retryable, Aborts(s, retryable)
    PROVE  PostgresInv'
<1> DEFINE c == s[1]
<1>1. Types /\ c \in Clients /\ Live(s) /\ Rollback(s) /\ UNCHANGED broken
  BY DEF PostgresInv, Sessions, Live, LiveIn, Aborts
<1>2. CASE session[s].lost
  <2>1. UNCHANGED call
    BY <1>2 DEF Aborts
  <2>2. Puts(c, call[c])
    BY <1>1, <2>1, CallForms
  <2> QED BY <1>1, <2>2, RollbackStep
<1>3. CASE ~session[s].lost
  <2>1. call[c].pc = "trying" /\ s = Current(c)
    BY <1>1, <1>3 DEF PostgresInv, CallInv
  <2>2. Fails(c, retryable)
    BY <1>3 DEF Aborts
  <2>3. \/ Puts(c, CallWith(c, "error", call[c].try, Nil))
        \/ call[c].try < Delays /\ Puts(c, CallWith(c, "backoff", call[c].try, call[c].result))
    BY <1>1, <2>2, FailForms
  <2> QED BY <1>1, <2>1, <2>3, RollbackStep
<1> QED BY <1>2, <1>3

(* The database refuses a statement.                                       *)
LEMMA RefusedStep ==
    ASSUME PostgresInv, NEW c \in Clients, Refused(c)
    PROVE  PostgresInv'
<1> DEFINE s == Current(c)
<1>1. /\ call[c].pc = "trying" /\ session[s].phase \in LiveIn /\ Rollback(s) /\ UNCHANGED broken
  BY DEF Refused, Trying, LiveIn
<1>2. s \in Sessions /\ s[1] = c /\ Types
  BY <1>1, TryingFacts
<1>3. PICK retryable \in BOOLEAN : Fails(c, retryable)
  BY DEF Refused
<1>4. \/ Puts(c, CallWith(c, "error", call[c].try, Nil))
      \/ call[c].try < Delays /\ Puts(c, CallWith(c, "backoff", call[c].try, call[c].result))
  BY <1>2, <1>3, FailForms
<1>5. Live(s) /\ session[s].phase # "none" /\ s = Current(s[1])
  BY <1>1, <1>2 DEF Live, LiveIn
<1> HIDE DEF s
<1> QED BY <1>1, <1>2, <1>4, <1>5, RollbackStep

(* The database notices that its client is gone.                           *)
LEMMA AbandonedStep ==
    ASSUME PostgresInv, NEW s \in Sessions, Abandoned(s)
    PROVE  PostgresInv'
<1>1. /\ session[s].phase # "none" /\ Rollback(s) /\ UNCHANGED <<call, broken>> /\ s[1] \in Clients /\ Types
  BY DEF Abandoned, PostgresInv, Sessions
<1>2. Puts(s[1], call[s[1]])
  BY <1>1, CallForms
<1> QED BY <1>1, <1>2, RollbackStep

-----------------------------------------------------------------------------
(* An upsert leaves a row.                                                 *)
LEMMA UpsertType ==
    ASSUME NEW row \in Rows \cup {Nil}, NEW m \in UsableMetric, Fits(row, m)
    PROVE  Upsert(row, m) \in Rows
<1>1. /\ m.value \in Values \cup {Nil} /\ m.delta \in Int64 \cup {Nil}
      /\ \/ m.mtype = "gauge" /\ m.value # Nil
         \/ m.mtype = "counter" /\ m.delta # Nil
  BY DEF UsableMetric, Metric, Usable
<1>2. CASE m.mtype = "gauge"
  BY <1>1, <1>2 DEF Upsert, Rows
<1>3. CASE m.mtype = "counter"
  <2>1. OldDelta(row) + m.delta \in Int64
    BY <1>3 DEF Fits
  <2> HIDE DEF Int64
  <2> QED BY <1>3, <2>1 DEF Upsert, Rows
<1> QED BY <1>1, <1>2, <1>3

(* What a session that executes finds.                                     *)
LEMMA ExecFacts ==
    ASSUME PostgresInv, NEW s \in Sessions, Live(s)
    PROVE  /\ s[1] \in Clients /\ call[s[1]].pc # "idle" /\ s[2] <= call[s[1]].try
           /\ ~session[s].lost => call[s[1]].pc = "trying" /\ s = Current(s[1])
           /\ CallFits(call[s[1]]) /\ call[s[1]].since <= Len(log) /\ call[s[1]].try \in Nat
           /\ Op(s) = call[s[1]].op /\ Op(s) \in Ops /\ Op(s).items \in Seq(UsableMetric)
           /\ Len(Op(s).items) \in Nat
           /\ SessionFits(session[s]) /\ session[s].done \in Nat /\ Work(s) /\ PhaseFits(s)
<1>1. s[1] \in Clients /\ call[s[1]].pc # "idle" /\ s[2] <= call[s[1]].try
  BY DEF Sessions, PostgresInv, CallInv, Live, LiveIn
<1>2. CallFits(call[s[1]]) /\ SessionFits(session[s]) /\ call[s[1]].since <= Len(log)
  BY <1>1 DEF PostgresInv, Types, CallInv
<1>3. Op(s) = call[s[1]].op /\ Op(s) \in Ops /\ call[s[1]].try \in Nat /\ session[s].done \in Nat
  BY <1>1, <1>2 DEF Op, CallFits, SessionFits
<1>4. Op(s).items \in Seq(UsableMetric) /\ Len(Op(s).items) \in Nat
  BY <1>3, OpFacts
<1>5. ~session[s].lost => call[s[1]].pc = "trying" /\ s = Current(s[1])
  BY DEF PostgresInv, CallInv
<1>6. Work(s) /\ PhaseFits(s)
  BY DEF PostgresInv, WorkInv
<1> QED BY <1>1, <1>2, <1>3, <1>4, <1>5, <1>6

(* The row an upsert finds is what the items before it have made of the    *)
(* committed one.                                                          *)
LEMMA FoundRow ==
    ASSUME PostgresInv, NEW s \in Sessions, session[s].phase = "exec"
    PROVE  LET m == Item(s)
               k == session[s].done
           IN  /\ m \in UsableMetric /\ m.id \in Names /\ m = Op(s).items[k + 1]
               /\ RowSeen(s, m.id) = RowsAfter(table, Op(s).items, k)[m.id]
               /\ RowSeen(s, m.id) \in Rows \cup {Nil}
               /\ \A n \in Names : RowsAfter(table, Op(s).items, k + 1)[n] =
                    IF n = m.id THEN Upsert(RowSeen(s, n), m)
                    ELSE RowsAfter(table, Op(s).items, k)[n]
<1> DEFINE k == session[s].done
           items == Op(s).items
           m == items[k + 1]
<1>1. Live(s)
  BY DEF Live, LiveIn
<1>2. /\ items \in Seq(UsableMetric) /\ k \in Nat /\ Len(items) \in Nat /\ k < Len(items)
      /\ SessionFits(session[s]) /\ Work(s) /\ Item(s) = m
  BY <1>1, ExecFacts DEF PhaseFits, Item
<1>3. table \in [Names -> Rows \cup {Nil}] /\ IsRows(table)
  BY DEF PostgresInv, Types, IsRows
<1>4. /\ m \in UsableMetric /\ m.id \in Names
      /\ \A n \in Names : RowsAfter(table, items, k + 1)[n] =
           IF n = m.id THEN Upsert(RowsAfter(table, items, k)[n], m) ELSE RowsAfter(table, items, k)[n]
  BY <1>2, <1>3, RowsAfterNext
<1>5. RowSeen(s, m.id) = RowsAfter(table, items, k)[m.id]
  <2>1. CASE session[s].pending[m.id] = Nil
    <3>1. \A j \in 1 .. k : items[j].id # m.id
      BY <1>2, <1>4, <2>1 DEF Work
    <3>2. k \in 0 .. Len(items)
      BY <1>2
    <3>4. \A n \in Names : (\A j \in 1 .. k : items[j].id # n) =>
              RowsAfter(table, items, k)[n] = table[n]
      BY <1>2, <1>3, <3>2, RowsAfterUntouched
    <3>3. RowsAfter(table, items, k)[m.id] = table[m.id]
      BY <1>4, <3>1, <3>4
    <3> QED BY <2>1, <3>3 DEF RowSeen
  <2>2. CASE session[s].pending[m.id] # Nil
    BY <1>2, <1>4, <2>2 DEF Work, RowSeen
  <2> QED BY <2>1, <2>2
<1>6. RowSeen(s, m.id) \in Rows \cup {Nil}
  BY <1>2, <1>3, <1>4 DEF RowSeen, SessionFits
<1>7. \A n \in Names : RowsAfter(table, items, k + 1)[n] =
           IF n = m.id THEN Upsert(RowSeen(s, n), m) ELSE RowsAfter(table, items, k)[n]
  BY <1>4, <1>5
<1> HIDE DEF m
<1> QED BY <1>2, <1>4, <1>5, <1>6, <1>7 DEF m

(* A call that commits is one more whole call, and the rows other          *)
(* transactions have locked are not among those it writes.                 *)
LEMMA CommitsStep ==
    ASSUME PostgresInv, NEW s \in Sessions, Live(s), IsWrite(Op(s)),
           session' = [session EXCEPT ![s].phase = "answering"], UNCHANGED <<call, broken>>,
           log' = Append(log, s[1]), table' = PutAll(table, Op(s).items),
           table' \in [Names -> Rows \cup {Nil}], lock' \in [Names -> Sessions \cup {Nil}],
           \A t \in Sessions \ {s} : \A n \in Names :
               /\ lock'[n] = t <=> lock[n] = t
               /\ lock[n] = t => table'[n] = table[n],
           \A n \in Names : lock'[n] # s
    PROVE  PostgresInv'
<1> DEFINE c == s[1]
           p == call[c]
           q == SessionWith(s, "answering", session[s].result, session[s].lost)
<1>0. Types /\ CallInv /\ LockInv /\ WorkInv /\ CallsSerialize /\ ReadInv /\ DebtInv
  BY DEF PostgresInv
<1>1. /\ c \in Clients /\ p.pc # "idle" /\ s[2] <= p.try
      /\ ~session[s].lost => p.pc = "trying" /\ s = Current(c)
      /\ CallFits(p) /\ p.since <= Len(log) /\ p.try \in Nat
      /\ Op(s) = p.op /\ SessionFits(session[s])
  BY ExecFacts
<1>2. Sets(s, q) /\ Puts(c, p)
  BY <1>0, <1>1, SessionForms, CallForms
<1>3. SessionFits(q) /\ q.phase = "answering" /\ q.phase \notin LiveIn /\ q.lost = session[s].lost
  BY <1>1 DEF SessionFits, SessionRecord, SessionWith, LiveIn
<1> HIDE DEF q
<1>4. Move(s, q, p)
  <2>1. ~q.lost => p.pc = "trying" /\ s[2] = p.try
    BY <1>1, <1>3 DEF Current
  <2> QED BY <1>1, <1>2, <1>3, <2>1 DEF Move
<1>5. Kept /\ LogGrows
  BY <1>0, <1>1, <1>4, MoveKeeps, LongerLog
<1>6. /\ session'[s] = q /\ call'[c] = p
      /\ \A t \in Sessions \ {s} : session'[t] = session[t]
  BY <1>4, MoveAt
<1>7. Types'
  BY <1>0, <1>4, <1>5, MoveTypes DEF Types
<1>8. CallInv'
  <2>1. \A i \in DOMAIN log' : i \in 1 .. Len(log) \/ log'[i] = c
    BY <1>0, <1>1, LongerLog
  <2> QED BY <1>0, <1>4, <1>5, <2>1, MoveCalls
<1>9. LockInv'
  <2> SUFFICES ASSUME NEW t \in Sessions, NEW n \in Names
               PROVE  lock'[n] = t <=> session'[t].phase \in LiveIn /\ session'[t].pending[n] # Nil
    BY DEF LockInv, Live
  <2>1. lock[n] = t <=> session[t].phase \in LiveIn /\ session[t].pending[n] # Nil
    BY <1>0 DEF LockInv, Live
  <2>2. CASE t = s
    BY <1>3, <1>6, <2>2
  <2>3. CASE t # s
    BY <1>6, <2>1, <2>3
  <2> QED BY <2>2, <2>3
<1>10. WorkInv'
  <2>1. ASSUME NEW t \in Sessions, Live(t)' PROVE Work(t)' /\ PhaseFits(t)'
    <3>1. t # s
      BY <1>3, <1>6, <2>1 DEF Live
    <3>2. Live(t)
      BY <1>6, <2>1, <3>1 DEF Live
    <3>3. \A n \in Names : session[t].pending[n] # Nil => table'[n] = table[n]
      BY <1>0, <3>1, <3>2 DEF LockInv
    <3>4. IsRows(table')
      BY DEF IsRows
    <3> QED BY <1>0, <1>4, <2>1, <3>1, <3>3, <3>4, WorkOfOthers
  <2> QED BY <2>1 DEF WorkInv
<1>11. CallsSerialize'
  <2>1. table' = PutAll(table, call'[c].op.items)
    BY <1>1, <1>6
  <2> QED BY <1>0, <1>1, <1>5, <2>1, SerializeMore
<1>12. ReadInv'
  <2>1. IsWrite(p.op) /\ \A d \in Clients : broken'[d] = broken[d]
    BY <1>1
  <2> QED BY <1>0, <1>1, <1>4, <1>5, <2>1, ReadsAfter
<1>13. DebtInv'
  <2>1. /\ Applied(c)' = Applied(c) + 1 /\ \A d \in Clients \ {c} : Applied(d)' = Applied(d)
    BY <1>0, <1>1, AppliedMore
  <2>2. Applied(c) \in Nat
    BY <1>0, AppliedType
  <2>3. broken'[c] = broken[c] /\ broken[c] \in Nat /\ May(c) = broken[c] + One(p.pc # "error")
    BY <1>0, <1>1 DEF Types, May, One
  <2>4. One(q.phase \in LiveIn) = 0 /\ One(Live(s)) = 1
    BY <1>3 DEF One
  <2>5. One(p.pc = "backoff") \in Int /\ One(p.pc # "error") \in Int
    BY DEF One
  <2>6. Applied(c)' + One(q.phase \in LiveIn) + One(p.pc = "backoff") + May(c)
               <= Applied(c) + One(Live(s)) + One(call[c].pc = "backoff")
                    + broken'[c] + One(p.pc # "error")
    <3> DEFINE a == Applied(c)
               b == broken[c]
               x == One(p.pc = "backoff")
               y == One(p.pc # "error")
    <3>1. a \in Int /\ b \in Int /\ x \in Int /\ y \in Int
      BY <2>2, <2>3, <2>5
    <3>2. Applied(c)' = a + 1 /\ broken'[c] = b /\ May(c) = b + y
      BY <2>1, <2>3
    <3> HIDE DEF a, b, x, y
    <3>3. (a + 1) + 0 + x + (b + y) <= a + 1 + x + b + y
      BY <3>1
    <3> QED BY <2>4, <3>2, <3>3 DEF a, b, x, y
  <2>7. Applied(c)' >= Applied(c) /\ Applied(c)' > 0
    BY <2>1, <2>2
  <2>8. \A d \in Clients \ {c} : broken'[d] = broken[d] /\ Applied(d)' = Applied(d)
    BY <2>1
  <2> QED BY <1>0, <1>4, <1>7, <2>6, <2>7, <2>8, DebtAfter
<1> QED BY <1>7, <1>8, <1>9, <1>10, <1>11, <1>12, <1>13 DEF PostgresInv

(* tx.Commit: the rows of the transaction become the committed ones.       *)
LEMMA CommitStep ==
    ASSUME PostgresInv, NEW s \in Sessions, Commit(s)
    PROVE  PostgresInv'
<1> DEFINE items == Op(s).items
           pending == session[s].pending
<1>1. /\ session[s].phase = "commit" /\ Live(s) /\ table' = Overlay(table, pending)
      /\ log' = Append(log, s[1]) /\ Release(s)
      /\ session' = [session EXCEPT ![s].phase = "answering"] /\ UNCHANGED <<call, broken>>
  BY DEF Commit, Live, LiveIn
<1>2. /\ items \in Seq(UsableMetric) /\ Len(items) \in Nat /\ SessionFits(session[s])
      /\ Op(s).kind = "UpdateMany" /\ session[s].done = Len(items) /\ Work(s)
  BY <1>1, ExecFacts DEF PhaseFits, AutoCommit
<1>3. IsWrite(Op(s)) /\ pending \in [Names -> Rows \cup {Nil}]
  BY <1>2 DEF IsWrite, SessionFits
<1>4. Types /\ LockInv /\ IsRows(table) /\ Nil \notin Sessions
  BY PostgresAssumption DEF PostgresInv, Types, IsRows
<1>5. table' \in [Names -> Rows \cup {Nil}]
  BY <1>1, <1>3, <1>4 DEF Overlay, Types
<1>6. table' = PutAll(table, items)
  <2> DEFINE after == RowsAfter(table, items, Len(items))
  <2>1. Len(items) \in 0 .. Len(items)
    BY <1>2
  <2>2. /\ IsRows(after)
        /\ \A n \in Names : (\A j \in 1 .. Len(items) : items[j].id # n) => after[n] = table[n]
    BY <1>2, <1>4, <2>1, RowsAfterUntouched
  <2>3. ASSUME NEW n \in Names PROVE after[n] = IF pending[n] # Nil THEN pending[n] ELSE table[n]
    <3>1. CASE pending[n] = Nil
      <4>1. \A j \in 1 .. Len(items) : items[j].id # n
        BY <1>2, <3>1 DEF Work
      <4> QED BY <2>2, <3>1, <4>1
    <3>2. CASE pending[n] # Nil
      BY <1>2, <3>2 DEF Work
    <3> QED BY <3>1, <3>2
  <2>4. PutAll(table, items) = after
    BY DEF PutAll
  <2> HIDE DEF after, pending
  <2> QED BY <1>1, <2>2, <2>3, <2>4 DEF Overlay, IsRows
<1>7. lock' = [n \in Names |-> IF lock[n] = s THEN Nil ELSE lock[n]]
  BY <1>1 DEF Release
<1>8. lock' \in [Names -> Sessions \cup {Nil}]
  BY <1>4, <1>7 DEF Types
<1>9. \A n \in Names : lock'[n] # s
  BY <1>4, <1>7
<1>10. ASSUME NEW t \in Sessions \ {s}, NEW n \in Names
       PROVE  (lock'[n] = t <=> lock[n] = t) /\ (lock[n] = t => table'[n] = table[n])
  <2>1. lock'[n] = t <=> lock[n] = t
    BY <1>4, <1>7
  <2>2. lock[n] = t => pending[n] = Nil
    BY <1>1, <1>4 DEF LockInv
  <2>3. lock[n] = t => table'[n] = table[n]
    BY <1>1, <2>2 DEF Overlay
  <2> QED BY <2>1, <2>3
<1> QED BY <1>1, <1>3, <1>5, <1>6, <1>8, <1>9, <1>10, CommitsStep

(* A single statement commits by itself.                                   *)
LEMMA ExecAutoStep ==
    ASSUME PostgresInv, NEW s \in Sessions, ExecItem(s), AutoCommit(s)
    PROVE  PostgresInv'
<1> DEFINE items == Op(s).items
           m == Item(s)
           row == Upsert(RowSeen(s, m.id), m)
<1>1. /\ session[s].phase = "exec" /\ Live(s) /\ Locked(s, m.id) /\ Fits(RowSeen(s, m.id), m)
      /\ table' = [table EXCEPT ![m.id] = row] /\ log' = Append(log, s[1])
      /\ session' = [session EXCEPT ![s].phase = "answering"] /\ UNCHANGED lock
      /\ UNCHANGED <<call, broken>>
  BY DEF ExecItem, Live, LiveIn
<1>2. /\ items \in Seq(UsableMetric) /\ Op(s) \in Ops /\ IsWrite(Op(s))
      /\ session[s].done = 0 /\ session[s].pending = NoRows
  BY <1>1, ExecFacts DEF PhaseFits, Work
<1>3. Len(items) = 1
  BY <1>2, OpFacts DEF AutoCommit
<1>4. Types /\ LockInv /\ IsRows(table) /\ Nil \notin Sessions
  BY PostgresAssumption DEF PostgresInv, Types, IsRows
<1>5. /\ m \in UsableMetric /\ m.id \in Names
      /\ RowSeen(s, m.id) \in Rows \cup {Nil}
      /\ \A n \in Names : RowsAfter(table, items, 0 + 1)[n] =
           IF n = m.id THEN Upsert(RowSeen(s, n), m) ELSE RowsAfter(table, items, 0)[n]
  BY <1>1, <1>2, FoundRow
<1>6. row \in Rows
  BY <1>1, <1>5, UpsertType
<1>7. table' \in [Names -> Rows \cup {Nil}]
  BY <1>1, <1>4, <1>5, <1>6 DEF Types
<1>8. table' = PutAll(table, items)
  <2>1. RowsAfter(table, items, 0) = table
    BY <1>2, RowsAfterUnfold
  <2>2. IsRows(RowsAfter(table, items, 1))
    <3>1. 1 \in 0 .. Len(items)
      BY <1>3
    <3> QED BY <1>2, <1>4, <3>1, RowsAfterUntouched
  <2>3. \A n \in Names : RowsAfter(table, items, 1)[n] = IF n = m.id THEN row ELSE table[n]
    BY <1>5, <2>1
  <2>4. PutAll(table, items) = RowsAfter(table, items, 1)
    BY <1>3 DEF PutAll
  <2> HIDE DEF row, m
  <2>5. table' = [n \in Names |-> IF n = m.id THEN row ELSE table[n]]
    BY <1>1, <1>4 DEF IsRows
  <2> QED BY <2>2, <2>3, <2>4, <2>5 DEF IsRows
<1>9. \A n \in Names : lock[n] # s
  <2>1. \A n \in Names : session[s].pending[n] = Nil
    BY <1>2 DEF NoRows
  <2> QED BY <1>4, <2>1 DEF LockInv
<1>10. ASSUME NEW t \in Sessions \ {s}, NEW n \in Names
       PROVE  (lock'[n] = t <=> lock[n] = t) /\ (lock[n] = t => table'[n] = table[n])
  <2>1. lock[n] = t => n # m.id
    BY <1>1, <1>4 DEF Locked
  <2> HIDE DEF row, m
  <2> QED BY <1>1, <1>4, <2>1 DEF Types
<1>11. lock' \in [Names -> Sessions \cup {Nil}] /\ \A n \in Names : lock'[n] # s
  BY <1>1, <1>4, <1>9 DEF Types
<1> QED BY <1>1, <1>2, <1>7, <1>8, <1>10, <1>11, CommitsStep

(* One more item of a transaction.                                         *)
LEMMA ExecTxForm ==
    ASSUME Types, NEW s \in Sessions, NEW k, NEW x \in Names, NEW row,
           session' = [session EXCEPT ![s].phase = "ready", ![s].done = k, ![s].pending[x] = row]
    PROVE  Sets(s, [phase |-> "ready", done |-> k, pending |-> [session[s].pending EXCEPT ![x] = row],
                    result |-> session[s].result, lost |-> session[s].lost])
<1> DEFINE q == session[s]
           r1 == [q EXCEPT !.phase = "ready"]
           r2 == [r1 EXCEPT !.done = k]
           r3 == [r2 EXCEPT !.pending = [q.pending EXCEPT ![x] = row]]
<1>0. session = [t \in Sessions |-> session[t]] /\ SessionRecord(q)
  BY DEF Types, SessionFits
<1>1. session' = [session EXCEPT ![s] = r3]
  BY <1>0 DEF SessionRecord
<1>2. Sets(s, r3)
  BY <1>0, <1>1 DEF Sets
<1> HIDE DEF q
<1>3. r1 = [phase |-> "ready", done |-> q.done, pending |-> q.pending, result |-> q.result, lost |-> q.lost]
  BY <1>0 DEF SessionRecord
<1> HIDE DEF r1
<1>4. r2 = [phase |-> "ready", done |-> k, pending |-> q.pending, result |-> q.result, lost |-> q.lost]
  BY <1>3
<1> HIDE DEF r2
<1> DEFINE pend == [q.pending EXCEPT ![x] = row]
<1> HIDE DEF pend
<1>5. [r2 EXCEPT !.pending = pend]
        = [phase |-> "ready", done |-> k, pending |-> pend, result |-> q.result, lost |-> q.lost]
  BY <1>4
<1>6. r3 = [phase |-> "ready", done |-> k, pending |-> pend, result |-> q.result, lost |-> q.lost]
  BY <1>5 DEF pend
<1> HIDE DEF r3
<1> QED BY <1>2, <1>6 DEF q, pend

(* A statement of a transaction executes.                                  *)
LEMMA ExecTxStep ==
    ASSUME PostgresInv, NEW s \in Sessions, ExecItem(s), ~AutoCommit(s)
    PROVE  PostgresInv'
<1> DEFINE items == Op(s).items
           m == Item(s)
           x == m.id
           k == session[s].done
           row == Upsert(RowSeen(s, x), m)
           c == s[1]
           p == call[c]
           q == [phase |-> "ready", done |-> k + 1, pending |-> [session[s].pending EXCEPT ![x] = row],
                 result |-> session[s].result, lost |-> session[s].lost]
<1>0. Types /\ CallInv /\ LockInv /\ WorkInv /\ CallsSerialize /\ ReadInv /\ DebtInv
  BY DEF PostgresInv
<1>1. /\ session[s].phase = "exec" /\ Live(s) /\ Locked(s, x) /\ Fits(RowSeen(s, x), m)
      /\ lock' = [lock EXCEPT ![x] = s]
      /\ session' = [session EXCEPT ![s].phase = "ready", ![s].done = k + 1, ![s].pending[x] = row]
      /\ UNCHANGED <<table, log, call, broken>>
  BY DEF ExecItem, Live, LiveIn
<1>2. /\ c \in Clients /\ p.pc # "idle" /\ s[2] <= p.try
      /\ ~session[s].lost => p.pc = "trying" /\ s = Current(c)
      /\ CallFits(p) /\ p.since <= Len(log) /\ p.try \in Nat
      /\ Op(s) = p.op /\ items \in Seq(UsableMetric) /\ Len(items) \in Nat
      /\ SessionFits(session[s]) /\ k \in Nat /\ Work(s) /\ PhaseFits(s)
  BY <1>1, ExecFacts
<1>3. k < Len(items)
  BY <1>1, <1>2 DEF PhaseFits
<1>4. /\ m \in UsableMetric /\ x \in Names /\ m = items[k + 1]
      /\ RowSeen(s, x) \in Rows \cup {Nil}
      /\ \A n \in Names : RowsAfter(table, items, k + 1)[n] =
           IF n = x THEN Upsert(RowSeen(s, n), m) ELSE RowsAfter(table, items, k)[n]
  BY <1>1, FoundRow
<1>5. row \in Rows /\ Nil \notin Rows /\ Nil \notin Sessions
  BY <1>1, <1>4, UpsertType, PostgresAssumption
<1>6. \A n \in Names : RowsAfter(table, items, k + 1)[n] =
           IF n = x THEN row ELSE RowsAfter(table, items, k)[n]
  BY <1>4
<1>7. items[k + 1].id = x
  BY <1>4
<1> HIDE DEF m, row, x
<1>8. Sets(s, q) /\ Puts(c, p)
  <2>1. Sets(s, q)
    BY <1>0, <1>1, <1>4, ExecTxForm
  <2> QED BY <1>0, <1>1, <1>2, <2>1, CallForms
<1> DEFINE pending == session[s].pending
<1>9. /\ q.phase = "ready" /\ q.done = k + 1 /\ q.lost = session[s].lost
      /\ \A n \in Names : q.pending[n] = IF n = x THEN row ELSE pending[n]
      /\ q.pending \in [Names -> Rows \cup {Nil}] /\ SessionRecord(q)
  <2>1. pending \in [Names -> Rows \cup {Nil}]
    BY <1>2 DEF SessionFits
  <2> QED BY <1>4, <1>5, <2>1 DEF SessionRecord
<1>10. SessionFits(q) /\ q.phase \in LiveIn
  <2>1. k + 1 \in Nat /\ session[s].lost \in BOOLEAN
    BY <1>2 DEF SessionFits
  <2> HIDE DEF q
  <2> QED BY <1>9, <2>1 DEF SessionFits, LiveIn
<1> HIDE DEF q
<1>11. Move(s, q, p)
  <2>1. ~q.lost => p.pc = "trying" /\ s[2] = p.try
    BY <1>2, <1>9 DEF Current
  <2> QED BY <1>2, <1>8, <1>9, <1>10, <2>1 DEF Move
<1>12. Kept /\ LogGrows
  BY <1>0, <1>1, <1>11, MoveKeeps, SameLog
<1>13. /\ session'[s] = q /\ call'[c] = p
       /\ \A t \in Sessions \ {s} : session'[t] = session[t]
  BY <1>11, MoveAt
<1>14. Types'
  <2>1. lock' \in [Names -> Sessions \cup {Nil}]
    BY <1>0, <1>1, <1>4 DEF Types
  <2> QED BY <1>0, <1>1, <1>11, <1>12, <2>1, MoveTypes DEF Types
<1>15. CallInv'
  <2>1. \A i \in DOMAIN log' : i \in 1 .. Len(log)
    BY <1>0, <1>1 DEF Types
  <2> QED BY <1>0, <1>11, <1>12, <2>1, MoveCalls
<1>16. LockInv'
  <2> SUFFICES ASSUME NEW t \in Sessions, NEW n \in Names
               PROVE  lock'[n] = t <=> session'[t].phase \in LiveIn /\ session'[t].pending[n] # Nil
    BY DEF LockInv, Live
  <2>1. lock[n] = t <=> session[t].phase \in LiveIn /\ session[t].pending[n] # Nil
    BY <1>0 DEF LockInv, Live
  <2>2. lock'[n] = IF n = x THEN s ELSE lock[n]
    BY <1>0, <1>1, <1>4 DEF Types
  <2>3. CASE t = s
    <3>1. lock[n] = s <=> pending[n] # Nil
      BY <1>1, <2>1, <2>3 DEF Live
    <3>2. session'[t].phase \in LiveIn /\ session'[t].pending[n] = IF n = x THEN row ELSE pending[n]
      BY <1>9, <1>10, <1>13, <2>3
    <3> QED BY <1>5, <2>2, <2>3, <3>1, <3>2
  <2>4. CASE t # s
    <3>1. lock[x] \in {Nil, s}
      BY <1>1 DEF Locked
    <3> QED BY <1>5, <1>13, <2>1, <2>2, <2>4, <3>1
  <2> QED BY <2>3, <2>4
<1>17. WorkInv'
  <2>0. IsRows(table') /\ \A n \in Names : table'[n] = table[n]
    BY <1>0, <1>1 DEF Types, IsRows
  <2>1. ASSUME NEW t \in Sessions, Live(t)', t # s PROVE Work(t)' /\ PhaseFits(t)'
    BY <1>0, <1>11, <2>0, <2>1, WorkOfOthers
  <2>2. Op(s)' = Op(s)
    BY <1>1 DEF Op
  <2>3. PhaseFits(s)'
    BY <1>9, <1>13 DEF PhaseFits
  <2>4. ASSUME NEW n \in Names
        PROVE  IF q.pending[n] = Nil
               THEN \A j \in 1 .. k + 1 : items[j].id # n
               ELSE q.pending[n] = RowsAfter(table, items, k + 1)[n]
    <3>1. CASE n = x
      BY <1>5, <1>6, <1>9, <3>1
    <3>2. CASE n # x /\ pending[n] = Nil
      <4>1. \A j \in 1 .. k : items[j].id # n
        BY <1>2, <3>2 DEF Work
      <4>2. \A j \in 1 .. k + 1 : j \in 1 .. k \/ j = k + 1
        BY <1>2
      <4>3. items[k + 1].id # n
        BY <1>7, <3>2
      <4> QED BY <1>9, <3>2, <4>1, <4>2, <4>3
    <3>3. CASE n # x /\ pending[n] # Nil
      <4>1. pending[n] = RowsAfter(table, items, k)[n]
        BY <1>2, <3>3 DEF Work
      <4> QED BY <1>6, <1>9, <3>3, <4>1
    <3> QED BY <3>1, <3>2, <3>3
  <2>5. k + 1 <= Len(items)
    <3>1. k \in Nat /\ Len(items) \in Nat
      BY <1>2
    <3> QED BY ONLY <1>3, <3>1
  <2>6. Work(s)'
    <3>1. ~AutoCommit(s)' /\ session'[s].done = k + 1 /\ table' = table
      BY <1>1, <1>9, <1>13, <2>2 DEF AutoCommit
    <3>2. ASSUME NEW n \in Names
          PROVE  IF session'[s].pending[n] = Nil
                 THEN \A j \in 1 .. session'[s].done : Op(s)'.items[j].id # n
                 ELSE session'[s].pending[n] = RowsAfter(table', Op(s)'.items, session'[s].done)[n]
      BY <1>13, <2>2, <2>4, <3>1
    <3>3. session'[s].done <= Len(Op(s)'.items)
      BY <2>2, <2>5, <3>1
    <3> QED BY <3>1, <3>2, <3>3 DEF Work, RowsAfter, PutItem
  <2> QED BY <2>1, <2>3, <2>6 DEF WorkInv
<1>18. CallsSerialize'
  BY <1>0, <1>1, <1>12, SerializeKept
<1>19. ReadInv'
  <2>1. q.phase # "answering" /\ \A d \in Clients : broken'[d] = broken[d]
    BY <1>1, <1>9
  <2> QED BY <1>0, <1>2, <1>11, <1>12, <2>1, ReadsAfter
<1>20. DebtInv'
  <2>1. \A d \in Clients : Applied(d)' = Applied(d) /\ Applied(d) \in Nat /\ broken'[d] = broken[d]
    BY <1>0, <1>1, AppliedSame, AppliedType
  <2>2. broken[c] \in Nat /\ May(c) = broken[c] + One(p.pc # "error")
    BY <1>0, <1>2 DEF Types, May, One
  <2>3. One(q.phase \in LiveIn) = 1 /\ One(Live(s)) = 1
    BY <1>1, <1>10 DEF One
  <2>4. Applied(c)' + One(q.phase \in LiveIn) + One(p.pc = "backoff") + May(c)
               <= Applied(c) + One(Live(s)) + One(call[c].pc = "backoff")
                    + broken'[c] + One(p.pc # "error")
    <3> DEFINE a == Applied(c)
               b == broken[c]
               y == One(p.pc = "backoff")
               z == One(p.pc # "error")
    <3>1. a \in Int /\ b \in Int /\ y \in Int /\ z \in Int
      BY <1>2, <2>1, <2>2 DEF One
    <3>2. Applied(c)' = a /\ broken'[c] = b /\ May(c) = b + z
      BY <1>2, <2>1, <2>2
    <3> HIDE DEF a, b, y, z
    <3>3. a + 1 + y + (b + z) <= a + 1 + y + b + z
      BY <3>1
    <3> QED BY <2>3, <3>2, <3>3 DEF a, b, y, z
  <2>5. q.phase # "answering" /\ Applied(c)' >= Applied(c)
    BY <1>2, <1>9, <2>1
  <2> QED BY <1>0, <1>11, <1>14, <2>1, <2>4, <2>5, DebtAfter
<1> QED BY <1>14, <1>15, <1>16, <1>17, <1>18, <1>19, <1>20 DEF PostgresInv

-----------------------------------------------------------------------------
(* The initial state satisfies the invariant.                              *)
LEMMA PostgresInit == Init => PostgresInv
<1> SUFFICES ASSUME Init PROVE PostgresInv
  OBVIOUS
<1>1. /\ table = NoRows /\ log = << >> /\ lock = [n \in Names |-> Nil]
      /\ session = [s \in Sessions |-> NoSession] /\ call = [c \in Clients |-> NoCall]
      /\ broken = [c \in Clients |-> 0]
  BY DEF Init
<1>2. /\ \A s \in Sessions : session[s] = NoSession
      /\ \A c \in Clients : call[c] = NoCall /\ broken[c] = 0
      /\ DOMAIN log = {} /\ Len(log) = 0 /\ Delays \in Nat
  BY <1>1, PostgresAssumption
<1>3. NoRows \in [Names -> Rows \cup {Nil}]
  BY DEF NoRows
<1>4. SessionFits(NoSession) /\ NoSession.phase = "none"
  BY <1>3 DEF NoSession, SessionFits, SessionRecord
<1>5. CallFits(NoCall) /\ NoCall.pc = "idle" /\ NoCall.since = 0
  BY <1>2 DEF NoCall, CallFits, CallRecord
<1>6. Types
  <2>1. log \in Seq(Clients)
    BY <1>1
  <2>2. broken \in [Clients -> Nat] /\ lock \in [Names -> Sessions \cup {Nil}]
    BY <1>1
  <2> QED BY <1>1, <1>2, <1>3, <1>4, <1>5, <2>1, <2>2 DEF Types
<1>7. CallInv
  BY <1>2, <1>4, <1>5 DEF CallInv, Live, LiveIn
<1>8. LockInv
  BY <1>1, <1>2, <1>4, PostgresAssumption DEF LockInv, Live, LiveIn
<1>9. WorkInv
  BY <1>2, <1>4 DEF WorkInv, Live, LiveIn
<1>10. CallsSerialize
  BY <1>1, <1>2, <1>6, ReplayUnfold, ReplayIs DEF Types
<1>11. ReadInv
  BY <1>2, <1>4, <1>5 DEF ReadInv, ReadsCommitted
<1>12. DebtInv
  <2>1. ASSUME NEW c \in Clients PROVE Applied(c) = 0 /\ Cardinality(LiveTries(c)) = 0
    <3>1. {i \in DOMAIN log : log[i] = c} = {}
      BY <1>2
    <3>2. \A t \in 0 .. Delays : ~Live(<<c, t>>)
      BY <1>2, <1>4 DEF Live, LiveIn, Sessions
    <3>3. LiveTries(c) = {}
      BY <3>2 DEF LiveTries
    <3> QED BY <3>1, <3>3, FS_EmptySet DEF Applied
  <2> QED BY <1>2, <1>4, <1>5, <2>1 DEF DebtInv
<1> QED BY <1>6, <1>7, <1>8, <1>9, <1>10, <1>11, <1>12 DEF PostgresInv

(* Every step keeps the invariant.                                         *)
LEMMA PostgresStep == PostgresInv /\ [Next]_vars => PostgresInv'
<1> SUFFICES ASSUME PostgresInv, [Next]_vars PROVE PostgresInv'
  OBVIOUS
<1>1. ASSUME NEW c \in Clients, NEW op \in Ops, Call(c, op) PROVE PostgresInv'
  BY <1>1, CallStep
<1>2. ASSUME NEW c \in Clients, ClientStep(c) PROVE PostgresInv'
  BY <1>2, BackoffStep, SendItemStep, SendCommitStep, QueryStep, AnsweredStep DEF ClientStep
<1>3. ASSUME NEW c \in Clients, Refused(c) \/ Breaks(c) \/ Cancelled(c) \/ StreamBreaks(c)
      PROVE  PostgresInv'
  BY <1>3, RefusedStep, BreaksStep, CancelledStep, StreamBreaksStep
<1>4. ASSUME NEW s \in Sessions, DatabaseStep(s) PROVE PostgresInv'
  <2>1. CASE ExecItem(s)
    BY <2>1, ExecAutoStep, ExecTxStep
  <2>2. CASE Commit(s)
    BY <2>2, CommitStep
  <2>3. CASE OutOfRange(s)
    <3>1. session[s].phase = "exec" /\ Aborts(s, FALSE)
      BY <2>3 DEF OutOfRange
    <3> QED BY <3>1, AbortStep
  <2>4. CASE DeadlockDetected(s)
    <3>1. session[s].phase = "exec" /\ Aborts(s, TRUE)
      BY <2>4 DEF DeadlockDetected, Waiting
    <3> QED BY <3>1, AbortStep
  <2>5. CASE Abandoned(s)
    BY <2>5, AbandonedStep
  <2> QED BY <1>4, <2>1, <2>2, <2>3, <2>4, <2>5 DEF DatabaseStep
<1>5. CASE UNCHANGED vars
  <2>0. UNCHANGED <<table, lock, log, session, call, broken>>
    BY <1>5 DEF vars, dbVars
  <2>1. Types' /\ CallInv' /\ LockInv'
    <3>1. Types'
      BY <2>0 DEF PostgresInv, Types, SessionFits, SessionRecord, CallFits, CallRecord
    <3>2. CallInv'
      BY <2>0 DEF PostgresInv, CallInv, Live, Current
    <3>3. LockInv'
      BY <2>0 DEF PostgresInv, LockInv, Live
    <3> QED BY <3>1, <3>2, <3>3
  <2>2. WorkInv'
    <3>1. Types /\ CallInv /\ WorkInv /\ IsRows(table') /\ Kept
      BY <2>0 DEF PostgresInv, Types, IsRows, Kept
    <3>2. ASSUME NEW s \in Sessions, Live(s)' PROVE Work(s)' /\ PhaseFits(s)'
      <4>1. Live(s) /\ PhaseFits(s)
        BY <2>0, <3>1, <3>2 DEF Live, WorkInv
      <4>2. Work(s)'
        BY <2>0, <3>1, <4>1, WorkKept
      <4> QED BY <2>0, <4>1, <4>2 DEF PhaseFits, Op, AutoCommit
    <3> QED BY <3>2 DEF WorkInv
  <2>3. CallsSerialize'
    BY <2>0, ReplayIs DEF PostgresInv
  <2>4. ReadInv'
    BY <2>0, ReadInIs DEF PostgresInv, ReadInv, Op
  <2>5. DebtInv'
    BY <2>0 DEF PostgresInv, DebtInv, Applied, LiveTries, Live, Op
  <2> QED BY <2>1, <2>2, <2>3, <2>4, <2>5 DEF PostgresInv
<1> QED BY <1>1, <1>2, <1>3, <1>4, <1>5 DEF Next

(* The invariant holds in every reachable state.                           *)
LEMMA PostgresInvariant == Spec => []PostgresInv
<1>1. Init => PostgresInv
  BY PostgresInit
<1>2. PostgresInv /\ [Next]_vars => PostgresInv'
  BY PostgresStep
<1> QED BY <1>1, <1>2, PTL DEF Spec

(* UpdateMany is atomic and calls are serializable, for any clients and    *)
(* calls, any number of attempts, deadlocks, SQL errors and broken         *)
(* connections: the committed rows are always those that the calls in the  *)
(* log make of the empty table, one whole call after the other.            *)
THEOREM RowsAreWholeCalls == Spec => []CallsSerialize
<1>1. PostgresInv => CallsSerialize
  BY DEF PostgresInv
<1> QED BY <1>1, PostgresInvariant, PTL

(* What Retry tells the caller of a write: success only when its items are *)
(* stored, and never stored more often than connections broke, plus the    *)
(* one time the answer speaks of.                                          *)
THEOREM AnswersCountCommits == Spec => []AppliedAsAnswered
<1>1. PostgresInv => AppliedAsAnswered
  <2> SUFFICES ASSUME PostgresInv, NEW c \in Clients
               PROVE  /\ Applied(c) <= broken[c] + IF call[c].pc = "error" THEN 0 ELSE 1
                      /\ call[c].pc = "ok" /\ IsWrite(call[c].op) /\ call[c].op.items # << >> => Applied(c) > 0
    BY DEF AppliedAsAnswered
  <2>1. Types /\ DebtInv
    BY DEF PostgresInv
  <2>2. Applied(c) \in Nat /\ Cardinality(LiveTries(c)) \in Nat /\ broken[c] \in Nat
    BY <2>1, AppliedType, TriesType DEF Types
  <2>3. Applied(c) + Cardinality(LiveTries(c)) + (IF call[c].pc = "backoff" THEN 1 ELSE 0)
             <= broken[c] + (IF call[c].pc \in {"idle", "error"} THEN 0 ELSE 1)
    BY <2>1 DEF DebtInv
  <2>4. Applied(c) <= broken[c] + IF call[c].pc = "error" THEN 0 ELSE 1
    BY <2>2, <2>3
  <2> QED BY <2>1, <2>4 DEF DebtInv
<1> QED BY <1>1, PostgresInvariant, PTL

(* GetGauge, GetCounter and Snapshot answer with one committed state of    *)
(* the time between call and return, whichever transactions are open; a    *)
(* Snapshot that was cut, with names of one.                               *)
THEOREM ReadsSeeWholeCalls == Spec => []ReadsCommitted
<1>1. PostgresInv => ReadsCommitted
  BY DEF PostgresInv, ReadInv
<1> QED BY <1>1, PostgresInvariant, PTL

-----------------------------------------------------------------------------
(* The items of all committed calls in one sequence, which is what the     *)
(* memory repository is compared on.  UpdateMany takes them one by one.    *)
LEMMA UpdateManyAppend ==
    ASSUME NEW st, NEW items \in Seq(UsableMetric), NEW m \in UsableMetric
    PROVE  UpdateMany(st, Append(items, m)) = ApplyItem(UpdateMany(st, items), m)
<1> DEFINE more == Append(items, m)
           P(k) == AfterItems(st, items, k)
           Q(k) == AfterItems(st, more, k)
           Bad == {k \in 0 .. Len(items) : P(k) # Q(k)}
<1>1. /\ more \in Seq(UsableMetric) /\ Len(more) = Len(items) + 1 /\ Len(items) \in Nat
      /\ more[Len(items) + 1] = m /\ \A k \in 1 .. Len(items) : more[k] = items[k]
  OBVIOUS
<1>2. P(0) = st /\ \A k \in 1 .. Len(items) : P(k) = ApplyItem(P(k - 1), items[k])
  BY AfterItemsUnfold
<1> HIDE DEF more
<1>3. Q(0) = st /\ \A k \in 1 .. Len(more) : Q(k) = ApplyItem(Q(k - 1), more[k])
  BY <1>1, AfterItemsUnfold
<1>4. UpdateMany(st, more) = Q(Len(more)) /\ UpdateMany(st, items) = P(Len(items))
  BY DEF UpdateMany
<1> HIDE DEF P, Q
<1>5. Bad = {}
  <2> SUFFICES ASSUME Bad # {} PROVE FALSE
    OBVIOUS
  <2>1. PICK k \in Bad : \A j \in Bad : k <= j
    BY LeastNatural, Bad \in SUBSET Nat
  <2>2. k # 0
    BY <1>2, <1>3, <2>1
  <2>3. k - 1 \in 0 .. Len(items) /\ k - 1 \notin Bad /\ k \in 1 .. Len(items) /\ k \in 1 .. Len(more)
    BY <1>1, <2>1, <2>2
  <2>4. P(k) = Q(k)
    BY <1>1, <1>2, <1>3, <2>3
  <2> QED BY <2>1, <2>4
<1>6. P(Len(items)) = Q(Len(items))
  BY <1>1, <1>5
<1>7. Len(more) \in 1 .. Len(more) /\ Len(more) - 1 = Len(items)
  BY <1>1
<1>8. Q(Len(more)) = ApplyItem(Q(Len(items)), m)
  BY <1>1, <1>3, <1>7
<1>9. UpdateMany(st, more) = ApplyItem(UpdateMany(st, items), m)
  BY <1>4, <1>6, <1>8
<1> QED BY <1>9 DEF more

IsFlatLoop(f, seqs, n) ==
    f = [i \in 1 .. n |-> IF i = 1 THEN seqs[i] ELSE f[i-1] \o seqs[i]]

(* The function FlattenSeq defines by recursion exists.                    *)
LEMMA FlatLoopExists ==
    ASSUME NEW seqs, NEW n \in Nat
    PROVE  \E f : IsFlatLoop(f, seqs, n)
<1> DEFINE Bad == {k \in Nat : ~\E f : IsFlatLoop(f, seqs, k)}
<1>1. SUFFICES ASSUME Bad # {} PROVE FALSE
  OBVIOUS
<1>2. PICK m \in Bad : \A k \in Bad : m <= k
  BY <1>1, LeastNatural
<1>3. CASE m = 0
  <2> DEFINE f == [i \in 1 .. 0 |-> seqs]
  <2>1. IsFlatLoop(f, seqs, 0)
    BY DEF IsFlatLoop
  <2> QED BY <1>2, <1>3, <2>1
<1>4. CASE m # 0
  <2>1. m - 1 \in Nat /\ m - 1 \notin Bad
    BY <1>2, <1>4
  <2>2. PICK g : IsFlatLoop(g, seqs, m - 1)
    BY <2>1
  <2> DEFINE last == IF m = 1 THEN seqs[m] ELSE g[m-1] \o seqs[m]
             f == [i \in 1 .. m |-> IF i = m THEN last ELSE g[i]]
  <2>3. \A i \in 1 .. m - 1 : g[i] = IF i = 1 THEN seqs[i] ELSE g[i-1] \o seqs[i]
    BY <2>2 DEF IsFlatLoop
  <2>4. ASSUME NEW i \in 1 .. m
        PROVE  f[i] = IF i = 1 THEN seqs[i] ELSE f[i-1] \o seqs[i]
    <3>1. CASE i = m
      <4>1. f[i] = last
        BY <3>1
      <4>2. i # 1 => f[i-1] = g[m-1]
        BY <2>1, <3>1
      <4> QED BY <3>1, <4>1, <4>2
    <3>2. CASE i # m
      <4>1. i \in 1 .. m - 1 /\ f[i] = g[i]
        BY <2>1, <3>2
      <4>2. i # 1 => i - 1 \in 1 .. m /\ i - 1 # m /\ f[i-1] = g[i-1]
        BY <2>1, <3>2
      <4> HIDE DEF f
      <4> QED BY <2>3, <4>1, <4>2
    <3> QED BY <3>1, <3>2
  <2>5. IsFlatLoop(f, seqs, m)
    BY <2>4 DEF IsFlatLoop
  <2> QED BY <1>2, <2>5
<1> QED BY <1>3, <1>4

(* FlattenSeq is the last value of that function.                          *)
LEMMA FlattenUnfold ==
    ASSUME NEW S, NEW seqs \in Seq(Seq(S))
    PROVE  \E f : /\ Len(seqs) > 0 => FlattenSeq(seqs) = f[Len(seqs)]
                  /\ \A i \in 1 .. Len(seqs) :
                       f[i] = IF i = 1 THEN seqs[i] ELSE f[i-1] \o seqs[i]
                  /\ \A i \in 1 .. Len(seqs) : f[i] \in Seq(S)
<1> DEFINE f == CHOOSE f : IsFlatLoop(f, seqs, Len(seqs))
           Bad == {i \in 1 .. Len(seqs) : f[i] \notin Seq(S)}
<1>1. Len(seqs) \in Nat /\ \A i \in 1 .. Len(seqs) : seqs[i] \in Seq(S)
  OBVIOUS
<1>2. IsFlatLoop(f, seqs, Len(seqs))
  BY <1>1, FlatLoopExists
<1>3. Len(seqs) > 0 => FlattenSeq(seqs) = f[Len(seqs)]
  BY <1>1 DEF FlattenSeq, IsFlatLoop
<1>4. \A i \in 1 .. Len(seqs) : f[i] = IF i = 1 THEN seqs[i] ELSE f[i-1] \o seqs[i]
  BY <1>2 DEF IsFlatLoop
<1> HIDE DEF f
<1>5. Bad = {}
  <2> SUFFICES ASSUME Bad # {} PROVE FALSE
    OBVIOUS
  <2>1. PICK k \in Bad : \A j \in Bad : k <= j
    BY <1>1, LeastNatural, Bad \in SUBSET Nat
  <2>2. CASE k = 1
    BY <1>1, <1>4, <2>1, <2>2
  <2>3. CASE k # 1
    <3>1. k \in 1 .. Len(seqs) /\ k - 1 \in 1 .. Len(seqs) /\ k - 1 \notin Bad
      BY <1>1, <2>1, <2>3
    <3>2. f[k-1] \in Seq(S) /\ seqs[k] \in Seq(S) /\ f[k] = f[k-1] \o seqs[k]
      BY <1>1, <1>4, <2>3, <3>1
    <3>3. f[k-1] \o seqs[k] \in Seq(S)
      BY <3>2
    <3> QED BY <2>1, <3>2, <3>3
  <2> QED BY <2>2, <2>3
<1> QED BY <1>3, <1>4, <1>5

(* One more sequence.                                                      *)
LEMMA FlattenAppend ==
    ASSUME NEW S, NEW seqs \in Seq(Seq(S)), NEW x \in Seq(S)
    PROVE  /\ FlattenSeq(seqs) \in Seq(S)
           /\ FlattenSeq(Append(seqs, x)) = FlattenSeq(seqs) \o x
<1> DEFINE more == Append(seqs, x)
           n == Len(seqs)
<1>1. /\ n \in Nat /\ more \in Seq(Seq(S)) /\ Len(more) = n + 1 /\ more[n + 1] = x
      /\ \A i \in 1 .. n : more[i] = seqs[i]
  OBVIOUS
<1> HIDE DEF more
<1>2. PICK f : /\ n > 0 => FlattenSeq(seqs) = f[n]
               /\ \A i \in 1 .. n : f[i] = IF i = 1 THEN seqs[i] ELSE f[i-1] \o seqs[i]
               /\ \A i \in 1 .. n : f[i] \in Seq(S)
  BY FlattenUnfold
<1>3. PICK g : /\ Len(more) > 0 => FlattenSeq(more) = g[Len(more)]
               /\ \A i \in 1 .. Len(more) : g[i] = IF i = 1 THEN more[i] ELSE g[i-1] \o more[i]
               /\ \A i \in 1 .. Len(more) : g[i] \in Seq(S)
  BY <1>1, FlattenUnfold
<1> DEFINE Bad == {i \in 1 .. n : f[i] # g[i]}
<1>4. Bad = {}
  <2> SUFFICES ASSUME Bad # {} PROVE FALSE
    OBVIOUS
  <2>1. PICK k \in Bad : \A j \in Bad : k <= j
    BY <1>1, LeastNatural, Bad \in SUBSET Nat
  <2>2. k \in 1 .. n /\ k \in 1 .. Len(more) /\ more[k] = seqs[k]
    BY <1>1, <2>1
  <2>3. CASE k = 1
    BY <1>2, <1>3, <2>1, <2>2, <2>3
  <2>4. CASE k # 1
    <3>1. k - 1 \in 1 .. n /\ k - 1 \notin Bad
      BY <1>1, <2>1, <2>2, <2>4
    <3> QED BY <1>2, <1>3, <2>1, <2>2, <2>4, <3>1
  <2> QED BY <2>3, <2>4
<1>5. CASE n = 0
  <2>0. seqs = << >> /\ Len(seqs) = 0
    BY <1>5
  <2>1. FlattenSeq(seqs) = << >>
    BY <2>0 DEF FlattenSeq
  <2>2. FlattenSeq(more) = x
    BY <1>1, <1>3, <1>5
  <2>3. << >> \in Seq(S) /\ << >> \o x = x
    OBVIOUS
  <2> QED BY <2>1, <2>2, <2>3 DEF more
<1>6. CASE n # 0
  <2>1. n \in 1 .. n /\ n + 1 \in 1 .. Len(more) /\ n + 1 # 1 /\ (n + 1) - 1 = n
    BY <1>1, <1>6
  <2> HIDE DEF n
  <2>2. g[n + 1] = g[n] \o x
    <3>1. g[n + 1] = g[(n + 1) - 1] \o more[n + 1]
      BY <1>3, <2>1
    <3> QED BY <1>1, <2>1, <3>1
  <2>3. f[n] = g[n]
    BY <1>4, <2>1
  <2>4. FlattenSeq(seqs) = f[n] /\ f[n] \in Seq(S)
    BY <1>1, <1>2, <2>1
  <2>5. FlattenSeq(more) = g[n + 1]
    BY <1>1, <1>3
  <2> QED BY <2>2, <2>3, <2>4, <2>5 DEF more
<1> QED BY <1>5, <1>6

-----------------------------------------------------------------------------
(* A name is used with one type, and the rows say of it what the memory    *)
(* repository does.  A row is there because an item of its type was.       *)
UsedAs(flat, n, t) == \E i \in DOMAIN flat : flat[i].id = n /\ flat[i].mtype = t

OneType(flat, n) == ~(UsedAs(flat, n, "gauge") /\ UsedAs(flat, n, "counter"))

Agree(rows, st, n) ==
    StoreOf(rows).gauges[n] = st.gauges[n] /\ StoreOf(rows).counters[n] = st.counters[n]

LikeMemory(rows, flat) ==
    \A n \in Names :
        /\ rows[n] # Nil => UsedAs(flat, n, rows[n].mtype)
        /\ OneType(flat, n) => Agree(rows, UpdateMany(EmptyStore, flat), n)

AllRows == [Names -> Rows \cup {Nil}]

(* What SELECT finds of one row.                                           *)
GaugeOf(row) == IF row # Nil /\ row.mtype = "gauge" THEN row.value ELSE Nil

CounterOf(row) == IF row # Nil /\ row.mtype = "counter" THEN row.delta ELSE Nil

(* StoreOf, row by row.                                                    *)
LEMMA StoreOfIs ==
    ASSUME NEW rows, NEW n \in Names
    PROVE  StoreOf(rows).gauges[n] = GaugeOf(rows[n]) /\ StoreOf(rows).counters[n] = CounterOf(rows[n])
BY DEF StoreOf, GaugeOf, CounterOf

(* One item on either side, for a row of its type or none, when int64 does *)
(* not overflow.                                                           *)
LEMMA SameItem ==
    ASSUME NEW row \in Rows \cup {Nil}, NEW m \in UsableMetric, Fits(row, m),
           row # Nil => row.mtype = m.mtype,
           NEW st \in Stores, st.gauges[m.id] = GaugeOf(row), st.counters[m.id] = CounterOf(row)
    PROVE  /\ ApplyItem(st, m).gauges[m.id] = GaugeOf(Upsert(row, m))
           /\ ApplyItem(st, m).counters[m.id] = CounterOf(Upsert(row, m))
<1>1. /\ m.id \in Names /\ m.value \in Values \cup {Nil} /\ m.delta \in Int64 \cup {Nil}
      /\ \/ m.mtype = "gauge" /\ m.value # Nil
         \/ m.mtype = "counter" /\ m.delta # Nil
      /\ st.gauges \in [Names -> Values \cup {Nil}] /\ st.counters \in [Names -> Int64 \cup {Nil}]
  BY DEF UsableMetric, Metric, Usable, Stores
<1>2. Upsert(row, m) # Nil
  BY UpsertType, PostgresAssumption
<1>3. CASE m.mtype = "gauge" /\ m.value # Nil
  <2>1. ApplyItem(st, m) = SetGauge(st, m.id, m.value)
    BY <1>3 DEF ApplyItem
  <2>2. /\ ApplyItem(st, m).gauges[m.id] = m.value
        /\ ApplyItem(st, m).counters[m.id] = st.counters[m.id]
    BY <1>1, <2>1 DEF SetGauge
  <2>3. Upsert(row, m) = [mtype |-> "gauge", value |-> m.value, delta |-> Nil]
    BY <1>3 DEF Upsert
  <2>4. GaugeOf(Upsert(row, m)) = m.value /\ CounterOf(Upsert(row, m)) = Nil
    BY <1>2, <2>3 DEF GaugeOf, CounterOf
  <2>5. CounterOf(row) = Nil
    BY <1>3 DEF CounterOf
  <2> QED BY <2>2, <2>4, <2>5
<1>4. CASE m.mtype = "counter" /\ m.delta # Nil
  <2> DEFINE old == IF st.counters[m.id] = Nil THEN 0 ELSE st.counters[m.id]
  <2>1. ApplyItem(st, m) = AddCounter(st, m.id, m.delta)
    BY <1>4 DEF ApplyItem
  <2>2. /\ ApplyItem(st, m).gauges[m.id] = st.gauges[m.id]
        /\ ApplyItem(st, m).counters[m.id] = Wrap(old + m.delta)
    BY <1>1, <2>1 DEF AddCounter
  <2>3. old = OldDelta(row)
    BY <1>4 DEF CounterOf, OldDelta
  <2>4. Wrap(old + m.delta) = OldDelta(row) + m.delta
    <3>1. OldDelta(row) + m.delta \in Int64
      BY <1>4 DEF Fits
    <3> HIDE DEF old
    <3> QED BY <2>3, <3>1, WrapIdentity
  <2>5. Upsert(row, m) = [mtype |-> "counter", value |-> Nil, delta |-> OldDelta(row) + m.delta]
    BY <1>4 DEF Upsert
  <2>6. GaugeOf(Upsert(row, m)) = Nil /\ CounterOf(Upsert(row, m)) = OldDelta(row) + m.delta
    BY <1>2, <2>5 DEF GaugeOf, CounterOf
  <2>7. GaugeOf(row) = Nil
    BY <1>4 DEF GaugeOf
  <2> QED BY <2>2, <2>4, <2>6, <2>7
<1> QED BY <1>1, <1>3, <1>4

(* An item leaves the other names of the memory repository alone.          *)
LEMMA OtherNames ==
    ASSUME NEW st \in Stores, NEW m \in UsableMetric, NEW n \in Names, n # m.id
    PROVE  ApplyItem(st, m).gauges[n] = st.gauges[n] /\ ApplyItem(st, m).counters[n] = st.counters[n]
<1>1. /\ m.id \in Names
      /\ st.gauges \in [Names -> Values \cup {Nil}] /\ st.counters \in [Names -> Int64 \cup {Nil}]
  BY DEF UsableMetric, Stores
<1>2. CASE ApplyItem(st, m) = SetGauge(st, m.id, m.value)
  BY <1>1, <1>2 DEF SetGauge
<1>3. CASE ApplyItem(st, m) = AddCounter(st, m.id, m.delta)
  BY <1>1, <1>3 DEF AddCounter
<1>4. \/ ApplyItem(st, m) = SetGauge(st, m.id, m.value)
      \/ ApplyItem(st, m) = AddCounter(st, m.id, m.delta)
  BY DEF ApplyItem, UsableMetric, Usable
<1> QED BY <1>2, <1>3, <1>4

(* One more item keeps the two alike.                                      *)
LEMMA LikeOne ==
    ASSUME NEW rows \in AllRows, NEW flat \in Seq(UsableMetric), NEW m \in UsableMetric,
           LikeMemory(rows, flat), Fits(rows[m.id], m)
    PROVE  PutItem(rows, m) \in AllRows /\ LikeMemory(PutItem(rows, m), Append(flat, m))
<1> DEFINE more == Append(flat, m)
           after == PutItem(rows, m)
           st == UpdateMany(EmptyStore, flat)
           st2 == UpdateMany(EmptyStore, more)
<1>1. m.id \in Names /\ m.mtype \in {"gauge", "counter"}
  BY DEF UsableMetric, Usable
<1>2. /\ rows[m.id] \in Rows \cup {Nil} /\ Upsert(rows[m.id], m) \in Rows
      /\ Upsert(rows[m.id], m) # Nil /\ Upsert(rows[m.id], m).mtype = m.mtype
  <2>1. rows[m.id] \in Rows \cup {Nil}
    BY <1>1 DEF AllRows
  <2>2. Upsert(rows[m.id], m) \in Rows
    BY <2>1, UpsertType
  <2>3. Upsert(rows[m.id], m).mtype = m.mtype
    BY <1>1 DEF Upsert
  <2> QED BY <2>1, <2>2, <2>3, PostgresAssumption
<1>3. /\ after \in AllRows /\ after[m.id] = Upsert(rows[m.id], m)
      /\ \A n \in Names \ {m.id} : after[n] = rows[n]
  BY <1>1, <1>2 DEF PutItem, AllRows
<1>4. st \in Stores /\ st2 = ApplyItem(st, m)
  BY EmptyStoreType, UpdateManyType, UpdateManyAppend
<1>5. /\ DOMAIN more = 1 .. Len(flat) + 1 /\ DOMAIN flat = 1 .. Len(flat) /\ Len(flat) \in Nat
      /\ more[Len(flat) + 1] = m /\ \A i \in 1 .. Len(flat) : more[i] = flat[i]
  OBVIOUS
<1> HIDE DEF more
<1>6. /\ UsedAs(more, m.id, m.mtype)
      /\ \A n, t : UsedAs(flat, n, t) => UsedAs(more, n, t)
  <2>1. \A i \in DOMAIN flat : i \in DOMAIN more /\ more[i] = flat[i]
    BY <1>5
  <2>2. Len(flat) + 1 \in DOMAIN more
    BY <1>5
  <2> QED BY <1>5, <2>1, <2>2 DEF UsedAs
<1> HIDE DEF after, st, st2
<1>7. ASSUME NEW n \in Names, after[n] # Nil PROVE UsedAs(more, n, after[n].mtype)
  <2>1. CASE n = m.id
    BY <1>2, <1>3, <1>6, <2>1
  <2>2. CASE n # m.id
    BY <1>3, <1>6, <1>7, <2>2 DEF LikeMemory
  <2> QED BY <2>1, <2>2
<1>8. ASSUME NEW n \in Names, OneType(more, n) PROVE Agree(after, st2, n)
  <2>1. OneType(flat, n)
    BY <1>6, <1>8 DEF OneType
  <2>2. Agree(rows, st, n)
    BY <2>1 DEF LikeMemory, st
  <2>3. st.gauges[n] = GaugeOf(rows[n]) /\ st.counters[n] = CounterOf(rows[n])
    BY <2>2, StoreOfIs DEF Agree
  <2>4. st2.gauges[n] = GaugeOf(after[n]) /\ st2.counters[n] = CounterOf(after[n])
    <3>1. CASE n # m.id
      BY <1>3, <1>4, <2>3, <3>1, OtherNames
    <3>2. CASE n = m.id
      <4>1. rows[n] # Nil => rows[n].mtype = m.mtype
        <5> SUFFICES ASSUME rows[n] # Nil PROVE rows[n].mtype = m.mtype
          OBVIOUS
        <5>1. UsedAs(more, n, rows[n].mtype) /\ UsedAs(more, n, m.mtype)
          BY <1>6, <3>2 DEF LikeMemory
        <5>2. rows[n].mtype \in {"gauge", "counter"}
          BY <1>2, <3>2 DEF Rows
        <5> QED BY <1>1, <1>8, <5>1, <5>2 DEF OneType
      <4> QED BY <1>2, <1>3, <1>4, <2>3, <3>2, <4>1, SameItem
    <3> QED BY <3>1, <3>2
  <2> QED BY <2>4, StoreOfIs DEF Agree
<1>9. LikeMemory(after, more)
  BY <1>7, <1>8 DEF LikeMemory, st2
<1> QED BY <1>3, <1>9 DEF after, more

(* A whole call, when none of its items overflows.                         *)
NoOverflow(rows, items, done) ==
    \A k \in 1 .. done : Fits(RowsAfter(rows, items, k - 1)[items[k].id], items[k])

(* A whole call keeps the two alike.                                       *)
LEMMA LikeAll ==
    ASSUME NEW rows \in AllRows, NEW flat \in Seq(UsableMetric), NEW items \in Seq(UsableMetric),
           LikeMemory(rows, flat), NoOverflow(rows, items, Len(items))
    PROVE  LikeMemory(PutAll(rows, items), flat \o items)
<1> DEFINE R(k) == RowsAfter(rows, items, k)
           G(k) == flat \o SubSeq(items, 1, k)
           Ok(k) == R(k) \in AllRows /\ LikeMemory(R(k), G(k))
           Bad == {k \in 0 .. Len(items) : ~Ok(k)}
<1>1. R(0) = rows /\ \A k \in 1 .. Len(items) : R(k) = PutItem(R(k - 1), items[k])
  BY RowsAfterUnfold
<1>2. G(0) = flat /\ G(Len(items)) = flat \o items
  <2>1. SubSeq(items, 1, 0) = << >> /\ SubSeq(items, 1, Len(items)) = items
    OBVIOUS
  <2>2. flat \o << >> = flat
    OBVIOUS
  <2> QED BY <2>1, <2>2
<1>3. ASSUME NEW k \in 1 .. Len(items)
      PROVE  /\ G(k - 1) \in Seq(UsableMetric) /\ items[k] \in UsableMetric
             /\ G(k) = Append(G(k - 1), items[k])
  <2>1. /\ SubSeq(items, 1, k - 1) \in Seq(UsableMetric) /\ items[k] \in UsableMetric
        /\ SubSeq(items, 1, k) = Append(SubSeq(items, 1, k - 1), items[k])
    OBVIOUS
  <2> DEFINE h == SubSeq(items, 1, k - 1)
  <2> HIDE DEF h
  <2>2. \A m \in UsableMetric, g \in Seq(UsableMetric) : flat \o Append(g, m) = Append(flat \o g, m)
    OBVIOUS
  <2>3. flat \o h \in Seq(UsableMetric)
    BY <2>1 DEF h
  <2> QED BY <2>1, <2>2, <2>3 DEF h
<1>4. \A k \in 1 .. Len(items) : Fits(R(k - 1)[items[k].id], items[k])
  BY DEF NoOverflow
<1>5. PutAll(rows, items) = R(Len(items))
  BY DEF PutAll
<1> HIDE DEF R, G
<1>6. ASSUME NEW k \in 1 .. Len(items), Ok(k - 1) PROVE Ok(k)
  <2>1. Fits(R(k - 1)[items[k].id], items[k])
    BY <1>4
  <2>2. PutItem(R(k - 1), items[k]) \in AllRows
        /\ LikeMemory(PutItem(R(k - 1), items[k]), Append(G(k - 1), items[k]))
    BY <1>3, <1>6, <2>1, LikeOne
  <2> QED BY <1>1, <1>3, <2>2
<1>7. Ok(0)
  BY <1>1, <1>2
<1> HIDE DEF Ok
<1>8. Bad = {}
  <2> SUFFICES ASSUME Bad # {} PROVE FALSE
    OBVIOUS
  <2>1. PICK k \in Bad : \A j \in Bad : k <= j
    BY LeastNatural, Bad \in SUBSET Nat
  <2>2. k # 0
    BY <1>7, <2>1
  <2>3. k \in 1 .. Len(items) /\ k - 1 \in 0 .. Len(items) /\ k - 1 \notin Bad
    BY <2>1, <2>2
  <2> QED BY <1>6, <2>1, <2>3
<1>9. Ok(Len(items))
  BY <1>8, Len(items) \in 0 .. Len(items)
<1> QED BY <1>2, <1>5, <1>9 DEF Ok

(* The items of the committed calls.                                       *)
Flat(lg, calls) == FlattenSeq([i \in DOMAIN lg |-> calls[lg[i]].op.items])

ItemsOf(lg, calls) == [i \in DOMAIN lg |-> calls[lg[i]].op.items]

(* They are sequences of items.                                            *)
LEMMA FlatType ==
    ASSUME Types, CallInv
    PROVE  ItemsOf(log, call) \in Seq(Seq(UsableMetric)) /\ Flat(log, call) \in Seq(UsableMetric)
<1>1. log \in Seq(Clients) /\ DOMAIN log = 1 .. Len(log) /\ Len(log) \in Nat
  BY DEF Types
<1>2. ASSUME NEW i \in 1 .. Len(log) PROVE call[log[i]].op.items \in Seq(UsableMetric)
  <2>1. log[i] \in Clients /\ call[log[i]].pc # "idle"
    BY <1>1 DEF CallInv
  <2>2. call[log[i]].op \in Ops
    BY <2>1 DEF Types, CallFits
  <2> QED BY <2>2, OpFacts
<1>3. ItemsOf(log, call) \in Seq(Seq(UsableMetric))
  BY <1>1, <1>2 DEF ItemsOf
<1>4. << >> \in Seq(UsableMetric)
  OBVIOUS
<1>5. Flat(log, call) = FlattenSeq(ItemsOf(log, call))
  BY DEF Flat, ItemsOf
<1> QED BY <1>3, <1>4, <1>5, FlattenAppend

(* A step that commits nothing leaves them, a commit adds those of a call. *)
LEMMA FlatKept ==
    ASSUME Types, CallInv, Kept, UNCHANGED log
    PROVE  Flat(log', call') = Flat(log, call)
<1>1. ASSUME NEW i \in DOMAIN log PROVE call'[log[i]].op = call[log[i]].op
  <2>1. call[log[i]].pc # "idle"
    BY <1>1 DEF CallInv
  <2>2. log[i] \in Clients
    BY <1>1 DEF Types
  <2> QED BY <2>1, <2>2 DEF Kept
<1>2. ItemsOf(log', call') = ItemsOf(log, call)
  BY <1>1 DEF ItemsOf
<1> QED BY <1>2 DEF Flat, ItemsOf

(* A sequence with one more element.                                       *)
LEMMA AppendIs ==
    ASSUME NEW S, NEW q \in Seq(S), NEW y \in S
    PROVE  Append(q, y) = [i \in 1 .. Len(q) + 1 |-> IF i = Len(q) + 1 THEN y ELSE q[i]]
<1> DEFINE a == Append(q, y)
<1>1. /\ a \in Seq(S) /\ Len(a) = Len(q) + 1 /\ a[Len(q) + 1] = y /\ Len(q) \in Nat
      /\ \A i \in 1 .. Len(q) : a[i] = q[i]
  OBVIOUS
<1> HIDE DEF a
<1>2. a = [i \in 1 .. Len(q) + 1 |-> a[i]]
  BY <1>1
<1>3. \A i \in 1 .. Len(q) + 1 : a[i] = IF i = Len(q) + 1 THEN y ELSE q[i]
  BY <1>1
<1>4. a = [i \in 1 .. Len(q) + 1 |-> IF i = Len(q) + 1 THEN y ELSE q[i]]
  BY <1>2, <1>3
<1> QED BY <1>4 DEF a

(* A commit adds the items of its call.                                    *)
LEMMA FlatMore ==
    ASSUME Types, CallInv, UNCHANGED call, NEW c \in Clients, call[c].pc # "idle", log' = Append(log, c)
    PROVE  Flat(log', call') = Flat(log, call) \o call[c].op.items
<1> DEFINE x == call[c].op.items
<1>1. log \in Seq(Clients) /\ DOMAIN log = 1 .. Len(log) /\ Len(log) \in Nat
  BY DEF Types
<1>2. /\ DOMAIN log' = 1 .. Len(log) + 1 /\ log'[Len(log) + 1] = c
      /\ \A i \in 1 .. Len(log) : log'[i] = log[i]
  BY <1>1
<1>3. x \in Seq(UsableMetric)
  <2>1. call[c].op \in Ops
    BY DEF Types, CallFits
  <2> QED BY <2>1, OpFacts
<1>4. ItemsOf(log, call) \in Seq(Seq(UsableMetric))
  BY FlatType
<1>5. ItemsOf(log', call) = Append(ItemsOf(log, call), x)
  <2> DEFINE a == ItemsOf(log, call)
             b == ItemsOf(log', call)
  <2>1. Len(a) = Len(log) /\ \A i \in 1 .. Len(log) : a[i] = call[log[i]].op.items
    BY <1>1, <1>4 DEF ItemsOf
  <2>2. b = [i \in 1 .. Len(log) + 1 |-> call[log'[i]].op.items]
    BY <1>2 DEF ItemsOf
  <2> HIDE DEF a, b, x
  <2>6. a \in Seq(Seq(UsableMetric))
    BY <1>4 DEF a
  <2>3. Append(a, x) = [i \in 1 .. Len(log) + 1 |-> IF i = Len(log) + 1 THEN x ELSE a[i]]
    <3> DEFINE S == Seq(UsableMetric)
    <3>1. a \in Seq(S) /\ x \in S
      BY <1>3, <2>6 DEF x
    <3> HIDE DEF S
    <3>2. Append(a, x) = [i \in 1 .. Len(a) + 1 |-> IF i = Len(a) + 1 THEN x ELSE a[i]]
      BY ONLY <3>1, AppendIs
    <3>3. Len(a) = Len(log)
      BY <2>1
    <3> QED BY ONLY <3>2, <3>3
  <2>4. ASSUME NEW i \in 1 .. Len(log) + 1
        PROVE  call[log'[i]].op.items = IF i = Len(log) + 1 THEN x ELSE a[i]
    <3>1. CASE i = Len(log) + 1
      BY <1>2, <3>1 DEF x
    <3>2. CASE i # Len(log) + 1
      <4>1. i \in 1 .. Len(log)
        BY <1>1, <3>2
      <4> QED BY <1>2, <2>1, <3>2, <4>1
    <3> QED BY <3>1, <3>2
  <2>5. b = Append(a, x)
    BY <2>2, <2>3, <2>4
  <2> QED BY <2>5 DEF a, b
<1> HIDE DEF x
<1>6. FlattenSeq(Append(ItemsOf(log, call), x)) = FlattenSeq(ItemsOf(log, call)) \o x
  BY <1>3, <1>4, FlattenAppend
<1>7. Flat(log', call) = Flat(log, call) \o x
  BY <1>5, <1>6 DEF Flat, ItemsOf
<1> QED BY <1>7 DEF x

-----------------------------------------------------------------------------
(* No statement that an open transaction has executed would have wrapped   *)
(* an int64, and the committed rows are like the memory repository.        *)
FitsInv ==
    \A s \in Sessions : Live(s) => NoOverflow(table, Op(s).items, session[s].done)

MemoryInv == FitsInv /\ LikeMemory(table, Flat(log, call))

(* A step that commits nothing and executes no statement.                  *)
Calm ==
    /\ UNCHANGED <<table, log>> /\ Kept
    /\ \A t \in Sessions : Live(t)' =>
         \/ session'[t].done = 0 /\ session'[t].pending = NoRows
         \/ /\ Live(t) /\ session'[t].done = session[t].done
            /\ session'[t].pending = session[t].pending

(* Open transactions belong to calls that have begun.                      *)
LEMMA OpKept ==
    ASSUME PostgresInv, Kept, NEW t \in Sessions, Live(t)
    PROVE  Op(t)' = Op(t)
<1>1. t[1] \in Clients /\ call[t[1]].pc # "idle"
  BY ExecFacts
<1> QED BY <1>1 DEF Kept, Op

(* A calm step keeps the invariant: the rows are the same.                 *)
LEMMA CalmKeeps ==
    ASSUME PostgresInv, MemoryInv, Calm
    PROVE  MemoryInv'
<1>1. Flat(log', call') = Flat(log, call)
  BY FlatKept DEF PostgresInv, Calm
<1>2. LikeMemory(table', Flat(log', call'))
  BY <1>1 DEF MemoryInv, Calm
<1>3. ASSUME NEW t \in Sessions, Live(t)'
      PROVE  NoOverflow(table', Op(t)'.items, session'[t].done)
  <2>1. CASE session'[t].done = 0
    BY <2>1 DEF NoOverflow
  <2>2. CASE Live(t) /\ session'[t].done = session[t].done
    <3>0. Kept
      BY DEF Calm
    <3>1. Op(t)' = Op(t)
      BY <2>2, <3>0, OpKept
    <3>2. NoOverflow(table, Op(t).items, session[t].done)
      BY <2>2 DEF MemoryInv, FitsInv
    <3> QED BY <2>2, <3>1, <3>2 DEF Calm
  <2> QED BY <1>3, <2>1, <2>2 DEF Calm
<1>4. FitsInv'
  BY <1>3 DEF FitsInv, NoOverflow, RowsAfter, PutItem
<1>5. LikeMemory(table, Flat(log, call))'
  BY <1>2 DEF LikeMemory, Flat
<1> QED BY <1>4, <1>5 DEF MemoryInv

(* What a commit adds to the rows is the whole call.                       *)
LEMMA CommittedCall ==
    ASSUME PostgresInv, CallsSerialize', NEW c \in Clients, UNCHANGED call, log' = Append(log, c)
    PROVE  table' = PutAll(table, call[c].op.items)
<1>0. Types /\ CallInv /\ CallsSerialize
  BY DEF PostgresInv
<1>1. LogGrows /\ Len(log') = Len(log) + 1 /\ log'[Len(log) + 1] = c /\ Len(log) \in Nat
  BY <1>0, LongerLog
<1>2. Kept
  BY DEF Kept
<1>3. Len(log) + 1 \in 1 .. Len(log') /\ (Len(log) + 1) - 1 = Len(log) /\ Len(log) \in 0 .. Len(log)
  BY <1>1
<1>4. ReplayOf(log', call', Len(log)) = table
  BY <1>0, <1>1, <1>2, <1>3, ReplayKept, ReplayIs
<1>5. log' \in Seq(Clients)
  BY <1>1 DEF LogGrows
<1>6. ReplayOf(log', call', Len(log) + 1)
        = PutAll(ReplayOf(log', call', Len(log)), call'[c].op.items)
  BY <1>1, <1>3, <1>5, ReplayUnfold
<1>7. table' = ReplayOf(log', call', Len(log'))
  BY ReplayIs
<1> QED BY <1>1, <1>4, <1>6, <1>7

(* The statements of an open transaction, while others commit.             *)
LEMMA OthersFit ==
    ASSUME PostgresInv, MemoryInv, IsRows(table'), NEW t \in Sessions, Live(t),
           \A n \in Names : session[t].pending[n] # Nil => table'[n] = table[n]
    PROVE  NoOverflow(table', Op(t).items, session[t].done)
<1> DEFINE items == Op(t).items
           done == session[t].done
<1>1. /\ items \in Seq(UsableMetric) /\ Len(items) \in Nat /\ done \in Nat /\ done <= Len(items)
      /\ Work(t) /\ IsRows(table)
  BY ExecFacts DEF Work, PostgresInv, Types, IsRows
<1>2. NoOverflow(table, items, done)
  BY DEF MemoryInv, FitsInv
<1> SUFFICES ASSUME NEW k \in 1 .. done
             PROVE  Fits(RowsAfter(table', items, k - 1)[items[k].id], items[k])
  BY DEF NoOverflow
<1>3. k - 1 \in 0 .. Len(items) /\ k \in 1 .. Len(items)
  BY <1>1
<1>4. items[k].id \in Names
  BY <1>1, <1>3 DEF UsableMetric
<1>5. session[t].pending[items[k].id] # Nil
  BY <1>1, <1>4 DEF Work
<1>6. table'[items[k].id] = table[items[k].id]
  BY <1>4, <1>5
<1> HIDE DEF items, done
<1> DEFINE j == k - 1
           n == items[k].id
<1>7. j \in 0 .. Len(items) /\ n \in Names /\ table'[n] = table[n]
  BY <1>3, <1>4, <1>6
<1> HIDE DEF j, n
<1>8. RowsAfter(table', items, j)[n] = RowsAfter(table, items, j)[n]
  BY <1>1, <1>7, RowsAfterLocal
<1>9. Fits(RowsAfter(table, items, k - 1)[items[k].id], items[k])
  BY <1>2 DEF NoOverflow
<1> QED BY <1>8, <1>9 DEF j, n

(* A commit.                                                               *)
LEMMA CommitKeeps ==
    ASSUME PostgresInv, PostgresInv', MemoryInv, NEW s \in Sessions, Live(s), UNCHANGED call,
           log' = Append(log, s[1]), ~Live(s)',
           NoOverflow(table, Op(s).items, Len(Op(s).items)),
           \A t \in Sessions \ {s} : session'[t] = session[t],
           \A t \in Sessions \ {s} : \A n \in Names : lock[n] = t => table'[n] = table[n]
    PROVE  MemoryInv'
<1> DEFINE items == Op(s).items
<1>0. Types /\ CallInv /\ LockInv /\ CallsSerialize'
  BY DEF PostgresInv
<1>1. /\ s[1] \in Clients /\ call[s[1]].pc # "idle" /\ Op(s) = call[s[1]].op
      /\ items \in Seq(UsableMetric)
  BY ExecFacts
<1>2. table' = PutAll(table, items)
  BY <1>0, <1>1, CommittedCall
<1>3. Flat(log', call') = Flat(log, call) \o items
  BY <1>0, <1>1, FlatMore
<1>4. table \in AllRows /\ IsRows(table') /\ Flat(log, call) \in Seq(UsableMetric)
  <2>1. table \in AllRows
    BY <1>0 DEF Types, AllRows
  <2>2. IsRows(table')
    BY DEF PostgresInv, Types, IsRows
  <2> QED BY <1>0, <2>1, <2>2, FlatType
<1>5. LikeMemory(PutAll(table, items), Flat(log, call) \o items)
  BY <1>1, <1>4, LikeAll DEF MemoryInv
<1>6. LikeMemory(table', Flat(log', call'))
  BY <1>2, <1>3, <1>5
<1>7. ASSUME NEW t \in Sessions, Live(t)'
      PROVE  NoOverflow(table', Op(t)'.items, session'[t].done)
  <2>1. t # s
    BY <1>7
  <2>2. session'[t] = session[t] /\ Live(t) /\ Op(t)' = Op(t)
    BY <1>7, <2>1 DEF Live, Op
  <2>3. \A n \in Names : session[t].pending[n] # Nil => table'[n] = table[n]
    BY <1>0, <2>1, <2>2 DEF LockInv
  <2>4. NoOverflow(table', Op(t).items, session[t].done)
    <3>1. Live(t) /\ IsRows(table')
      BY <1>4, <2>2
    <3> QED BY ONLY PostgresInv, MemoryInv, t \in Sessions, <2>3, <3>1, OthersFit
  <2> QED BY <2>2, <2>4
<1>8. FitsInv'
  BY <1>7 DEF FitsInv, NoOverflow, RowsAfter, PutItem
<1>9. LikeMemory(table, Flat(log, call))'
  BY <1>6 DEF LikeMemory, Flat
<1> QED BY <1>8, <1>9 DEF MemoryInv

(* tx.Commit writes only rows it has locked.                               *)
LEMMA CommitStepKeeps ==
    ASSUME PostgresInv, PostgresInv', MemoryInv, NEW s \in Sessions, Commit(s)
    PROVE  MemoryInv'
<1>0. Types /\ LockInv
  BY DEF PostgresInv
<1>1. /\ session[s].phase = "commit" /\ Live(s) /\ table' = Overlay(table, session[s].pending)
      /\ log' = Append(log, s[1])
      /\ session' = [session EXCEPT ![s].phase = "answering"] /\ UNCHANGED call
  BY DEF Commit, Live, LiveIn
<1>2. session[s].done = Len(Op(s).items)
  BY <1>1, ExecFacts DEF PhaseFits
<1>3. NoOverflow(table, Op(s).items, Len(Op(s).items))
  BY <1>1, <1>2 DEF MemoryInv, FitsInv
<1>4. Sets(s, SessionWith(s, "answering", session[s].result, session[s].lost))
  BY <1>0, <1>1, SessionForms
<1>5. ~Live(s)' /\ \A t \in Sessions \ {s} : session'[t] = session[t]
  BY <1>4 DEF Sets, SessionWith, Live, LiveIn
<1>6. \A t \in Sessions \ {s} : \A n \in Names : lock[n] = t => table'[n] = table[n]
  <2> SUFFICES ASSUME NEW t \in Sessions \ {s}, NEW n \in Names, lock[n] = t
               PROVE  table'[n] = table[n]
    OBVIOUS
  <2>1. session[s].pending[n] = Nil
    BY <1>0, <1>1 DEF LockInv
  <2> QED BY <1>1, <2>1 DEF Overlay
<1> QED BY <1>1, <1>3, <1>5, <1>6, CommitKeeps

(* A statement executes only if its counter fits; alone it commits.        *)
LEMMA ExecStepKeeps ==
    ASSUME PostgresInv, PostgresInv', MemoryInv, NEW s \in Sessions, ExecItem(s)
    PROVE  MemoryInv'
<1> DEFINE items == Op(s).items
           k == session[s].done
           m == Item(s)
           row == Upsert(RowSeen(s, m.id), m)
<1>0. Types /\ LockInv
  BY DEF PostgresInv
<1>1. /\ session[s].phase = "exec" /\ Live(s) /\ Locked(s, m.id) /\ Fits(RowSeen(s, m.id), m)
      /\ UNCHANGED call
  BY DEF ExecItem, Live, LiveIn
<1>2. /\ items \in Seq(UsableMetric) /\ Op(s) \in Ops /\ IsWrite(Op(s)) /\ k \in Nat /\ k < Len(items)
      /\ AutoCommit(s) => k = 0
  BY <1>1, ExecFacts DEF PhaseFits, Work
<1>3. m.id \in Names /\ m = items[k + 1] /\ RowSeen(s, m.id) = RowsAfter(table, items, k)[m.id]
  BY <1>1, FoundRow
<1>4. NoOverflow(table, items, k + 1)
  <2>1. NoOverflow(table, items, k)
    BY <1>1 DEF MemoryInv, FitsInv
  <2> SUFFICES ASSUME NEW j \in 1 .. k + 1
               PROVE  Fits(RowsAfter(table, items, j - 1)[items[j].id], items[j])
    BY DEF NoOverflow
  <2>2. CASE j = k + 1
    <3>1. j - 1 = k
      BY <1>2, <2>2
    <3> QED BY <1>1, <1>3, <2>2, <3>1
  <2>3. CASE j # k + 1
    <3>1. j \in 1 .. k
      BY <1>2, <2>3
    <3> QED BY <2>1, <3>1 DEF NoOverflow
  <2> QED BY <2>2, <2>3
<1> HIDE DEF items, k, m
<1>5. CASE AutoCommit(s)
  <2>1. /\ table' = [table EXCEPT ![m.id] = row] /\ log' = Append(log, s[1])
        /\ session' = [session EXCEPT ![s].phase = "answering"]
    BY <1>5 DEF ExecItem, m
  <2>2. Len(items) = 1 /\ k = 0
    BY <1>2, <1>5, OpFacts DEF AutoCommit, items
  <2>3. NoOverflow(table, Op(s).items, Len(Op(s).items))
    BY <1>4, <2>2 DEF items
  <2>4. Sets(s, SessionWith(s, "answering", session[s].result, session[s].lost))
    BY <1>0, <2>1, SessionForms
  <2>5. ~Live(s)' /\ \A t \in Sessions \ {s} : session'[t] = session[t]
    BY <2>4 DEF Sets, SessionWith, Live, LiveIn
  <2> HIDE DEF row
  <2>6. \A t \in Sessions \ {s} : \A n \in Names : lock[n] = t => table'[n] = table[n]
    <3> SUFFICES ASSUME NEW t \in Sessions \ {s}, NEW n \in Names, lock[n] = t
                 PROVE  table'[n] = table[n]
      OBVIOUS
    <3>1. n # m.id
      BY <1>1, PostgresAssumption DEF Locked
    <3> QED BY <1>0, <2>1, <3>1 DEF Types
  <2> QED BY <1>1, <2>1, <2>3, <2>5, <2>6, CommitKeeps
<1>6. CASE ~AutoCommit(s)
  <2>1. /\ UNCHANGED <<table, log>>
        /\ session' = [session EXCEPT ![s].phase = "ready", ![s].done = k + 1, ![s].pending[m.id] = row]
    BY <1>6 DEF ExecItem, m, k
  <2>2. Sets(s, [phase |-> "ready", done |-> k + 1, pending |-> [session[s].pending EXCEPT ![m.id] = row],
                 result |-> session[s].result, lost |-> session[s].lost])
    BY <1>0, <1>3, <2>1, ExecTxForm
  <2>3. session'[s].done = k + 1 /\ \A t \in Sessions \ {s} : session'[t] = session[t]
    BY <2>2 DEF Sets
  <2>4. Kept
    BY <1>1 DEF Kept
  <2>5. Flat(log', call') = Flat(log, call)
    BY <1>1, <2>1, <2>4, FlatKept DEF PostgresInv
  <2>6. ASSUME NEW t \in Sessions, Live(t)'
        PROVE  NoOverflow(table', Op(t)'.items, session'[t].done)
    <3>1. CASE t = s
      BY <1>1, <1>4, <2>1, <2>3, <3>1 DEF Op, items
    <3>2. CASE t # s
      <4>1. session'[t] = session[t] /\ Live(t) /\ Op(t)' = Op(t)
        BY <1>1, <2>3, <2>6, <3>2 DEF Live, Op
      <4>2. NoOverflow(table, Op(t).items, session[t].done)
        BY <4>1 DEF MemoryInv, FitsInv
      <4> QED BY <2>1, <4>1, <4>2
    <3> QED BY <3>1, <3>2
  <2>7. FitsInv'
    BY <2>6 DEF FitsInv, NoOverflow, RowsAfter, PutItem
  <2>8. LikeMemory(table, Flat(log, call))'
    <3>1. LikeMemory(table', Flat(log', call'))
      BY <2>1, <2>5 DEF MemoryInv
    <3> QED BY <3>1 DEF LikeMemory, Flat
  <2> QED BY <2>7, <2>8 DEF MemoryInv
<1> QED BY <1>5, <1>6

-----------------------------------------------------------------------------
(* The other actions commit nothing and execute no statement.              *)
LEMMA CalmForm ==
    ASSUME NEW s \in Sessions, NEW q, Sets(s, q), Kept, UNCHANGED <<table, log>>,
           q.phase \in LiveIn =>
             \/ q.done = 0 /\ q.pending = NoRows
             \/ Live(s) /\ q.done = session[s].done /\ q.pending = session[s].pending
    PROVE  Calm
<1>1. ASSUME NEW t \in Sessions, Live(t)'
      PROVE  \/ session'[t].done = 0 /\ session'[t].pending = NoRows
             \/ /\ Live(t) /\ session'[t].done = session[t].done
                /\ session'[t].pending = session[t].pending
  <2>1. CASE t = s
    BY <1>1, <2>1 DEF Sets, Live
  <2>2. CASE t # s
    BY <1>1, <2>2 DEF Sets, Live
  <2> QED BY <2>1, <2>2
<1> QED BY <1>1 DEF Calm

(* A call that is only moved on keeps its request.                         *)
LEMMA KeptForm ==
    ASSUME NEW c \in Clients, NEW pc, pc # "idle", NEW try, NEW result,
           Puts(c, CallWith(c, pc, try, result))
    PROVE  Kept
BY DEF Puts, CallWith, Kept

(* Retry keeps the request, whether it goes on or gives up.                *)
LEMMA FailsKeep ==
    ASSUME Types, NEW c \in Clients, NEW retryable, Fails(c, retryable)
    PROVE  Kept
<1>1. CASE Puts(c, CallWith(c, "error", call[c].try, Nil))
  BY <1>1, KeptForm
<1>2. CASE Puts(c, CallWith(c, "backoff", call[c].try, call[c].result))
  BY <1>2, KeptForm
<1> QED BY <1>1, <1>2, FailForms

(* A session that is Ended or has just been Opened has done nothing.       *)
LEMMA FreshDone ==
    Opened.done = 0 /\ Opened.pending = NoRows /\ Ended.done = 0 /\ Ended.phase \notin LiveIn
BY DEF Opened, Ended, NoSession, LiveIn

(* A session that is rolled back is gone.                                  *)
LEMMA RollbackCalm ==
    ASSUME PostgresInv, NEW s \in Sessions, Rollback(s), Kept
    PROVE  Calm
<1>1. session' = [session EXCEPT ![s] = Ended] /\ UNCHANGED <<table, log>> /\ Types
  BY DEF Rollback, PostgresInv
<1>2. Sets(s, Ended)
  BY <1>1, SessionForms
<1> QED BY <1>1, <1>2, FreshDone, CalmForm

(* A call begins with a session that has done nothing.                     *)
LEMMA CallCalm ==
    ASSUME PostgresInv, NEW c \in Clients, NEW op \in Ops, Call(c, op)
    PROVE  Calm
<1> DEFINE s == <<c, 0>>
<1>1. Types /\ call[c].pc = "idle" /\ UNCHANGED <<table, log>> /\ s \in Sessions
  BY PostgresAssumption DEF PostgresInv, Call, dbVars, Sessions
<1>2. Kept
  <2>1. \E p : call' = [call EXCEPT ![c] = p]
    BY DEF Call
  <2>2. PICK p : Puts(c, p)
    BY <1>1, <2>1, CallForms
  <2> QED BY <1>1, <2>2 DEF Kept, Puts
<1>3. CASE UNCHANGED session
  <2>1. \A t \in Sessions : Live(t)' =>
           Live(t) /\ session'[t].done = session[t].done /\ session'[t].pending = session[t].pending
    BY <1>3 DEF Live
  <2> QED BY <1>1, <1>2, <2>1 DEF Calm
<1>4. CASE session' = [session EXCEPT ![s] = Opened]
  <2>1. Sets(s, Opened)
    BY <1>1, <1>4, SessionForms
  <2> HIDE DEF s
  <2>2. Opened.done = 0 /\ Opened.pending = NoRows
    BY FreshDone
  <2> QED BY <1>1, <1>2, <2>1, <2>2, CalmForm
<1>5. UNCHANGED session \/ session' = [session EXCEPT ![s] = Opened]
  BY DEF Call
<1> QED BY <1>3, <1>4, <1>5

(* What a client does by itself commits nothing.                           *)
LEMMA ClientCalm ==
    ASSUME PostgresInv, NEW c \in Clients, ClientStep(c)
    PROVE  Calm
<1> DEFINE s == Current(c)
<1>0. Types /\ s \in Sessions /\ UNCHANGED <<table, log>>
  BY CurrentFacts
     DEF PostgresInv, ClientStep, Backoff, SendItem, SendCommit, Query, Answered, dbVars
<1>1. CASE Backoff(c)
  <2> DEFINE n == <<c, call[c].try + 1>>
  <2>1. /\ call[c].pc = "backoff" /\ session' = [session EXCEPT ![n] = Opened]
        /\ call' = [call EXCEPT ![c].pc = "trying", ![c].try = @ + 1]
    BY <1>1 DEF Backoff
  <2>2. Puts(c, CallWith(c, "trying", call[c].try + 1, call[c].result))
    BY <1>0, <2>1, CallForms
  <2>3. Kept
    BY <2>2, KeptForm
  <2>4. n \in Sessions
    <3>1. CallFits(call[c]) /\ Delays \in Nat
      BY <1>0, PostgresAssumption DEF Types
    <3>2. call[c].try + 1 \in 0 .. Delays
      BY <2>1, <3>1 DEF CallFits
    <3> QED BY <3>2 DEF Sessions
  <2>5. Sets(n, Opened)
    BY <1>0, <2>1, <2>4, SessionForms
  <2> HIDE DEF n
  <2>6. Opened.done = 0 /\ Opened.pending = NoRows
    BY FreshDone
  <2> QED BY <1>0, <2>3, <2>4, <2>5, <2>6, CalmForm
<1>2. CASE SendItem(c) \/ SendCommit(c)
  <2>1. UNCHANGED call /\ session[s].phase = "ready" /\ Live(s)
        /\ \E x \in {"exec", "commit"} : session' = [session EXCEPT ![s].phase = x]
    BY <1>2 DEF SendItem, SendCommit, Trying, Live, LiveIn
  <2>2. PICK x \in {"exec", "commit"} : session' = [session EXCEPT ![s].phase = x]
    BY <2>1
  <2> DEFINE q == SessionWith(s, x, session[s].result, session[s].lost)
  <2>3. Sets(s, q) /\ q.done = session[s].done /\ q.pending = session[s].pending
    <3>1. Sets(s, q)
      BY <1>0, <2>2, SessionForms
    <3> QED BY <3>1 DEF SessionWith
  <2>4. Kept
    BY <2>1 DEF Kept
  <2> HIDE DEF q
  <2> QED BY <1>0, <2>1, <2>3, <2>4, CalmForm
<1>3. CASE Query(c)
  <2> DEFINE r == Result(StoreOf(table), call[c].op)
             q == SessionWith(s, "answering", r, session[s].lost)
  <2>1. UNCHANGED call /\ session' = [session EXCEPT ![s].phase = "answering", ![s].result = r]
    BY <1>3 DEF Query
  <2> HIDE DEF r
  <2>2. Sets(s, q) /\ q.phase \notin LiveIn
    <3>1. Sets(s, q)
      BY <1>0, <2>1, SessionForms
    <3> QED BY <3>1 DEF SessionWith, LiveIn
  <2>3. Kept
    BY <2>1 DEF Kept
  <2> HIDE DEF q
  <2> QED BY <1>0, <2>2, <2>3, CalmForm
<1>4. CASE Answered(c)
  <2>1. session' = [session EXCEPT ![s] = Ended] /\ Finish(c, "ok", session[s].result)
    BY <1>4 DEF Answered
  <2>2. Sets(s, Ended)
    BY <1>0, <2>1, SessionForms
  <2>3. Puts(c, CallWith(c, "ok", call[c].try, session[s].result))
    BY <1>0, <2>1, CallForms
  <2>4. Kept
    BY <2>3, KeptForm
  <2> QED BY <1>0, <2>2, <2>4, FreshDone, CalmForm
<1> QED BY <1>1, <1>2, <1>3, <1>4 DEF ClientStep

(* Neither do errors and broken connections.                               *)
LEMMA FaultCalm ==
    ASSUME PostgresInv, NEW c \in Clients,
           Refused(c) \/ Breaks(c) \/ Cancelled(c) \/ StreamBreaks(c)
    PROVE  Calm
<1> DEFINE s == Current(c)
<1>0. Types /\ s \in Sessions
  BY CurrentFacts DEF PostgresInv
<1>1. CASE Refused(c)
  <2>1. Rollback(s) /\ \E retryable \in BOOLEAN : Fails(c, retryable)
    BY <1>1 DEF Refused
  <2>2. Kept
    BY <1>0, <2>1, FailsKeep
  <2> QED BY <1>0, <2>1, <2>2, RollbackCalm
<1>2. ASSUME Loses(c), Kept, UNCHANGED <<table, log>> PROVE Calm
  <2> DEFINE q == SessionWith(s, session[s].phase, session[s].result, TRUE)
  <2>1. session' = [session EXCEPT ![s].lost = TRUE]
    BY <1>2 DEF Loses
  <2>2. /\ Sets(s, q) /\ q.done = session[s].done /\ q.pending = session[s].pending
        /\ q.phase \in LiveIn => Live(s)
    <3>1. Sets(s, q)
      BY <1>0, <2>1, SessionForms
    <3> QED BY <3>1 DEF SessionWith, Live
  <2> HIDE DEF q
  <2> QED BY <1>0, <1>2, <2>2, CalmForm
<1>3. CASE Breaks(c)
  <2>1. Loses(c) /\ UNCHANGED <<table, log>> /\ \E retryable \in BOOLEAN : Fails(c, retryable)
    BY <1>3 DEF Breaks, dbVars
  <2>2. Kept
    BY <1>0, <2>1, FailsKeep
  <2> QED BY <1>2, <2>1, <2>2
<1>4. CASE Cancelled(c)
  <2>1. Finish(c, "error", Nil) /\ UNCHANGED <<table, log, session>>
    BY <1>4 DEF Cancelled, dbVars
  <2>2. Puts(c, CallWith(c, "error", call[c].try, Nil))
    BY <1>0, <2>1, CallForms
  <2>3. Kept
    BY <2>2, KeptForm
  <2> QED BY <2>1, <2>3 DEF Calm, Live
<1>5. CASE StreamBreaks(c)
  <2>1. Loses(c) /\ UNCHANGED <<table, log>>
        /\ \E names \in SUBSET Names : Finish(c, "ok", Truncated(session[s].result, names))
    BY <1>5 DEF StreamBreaks, dbVars
  <2>2. PICK names \in SUBSET Names : Finish(c, "ok", Truncated(session[s].result, names))
    BY <2>1
  <2> DEFINE r == Truncated(session[s].result, names)
  <2>3. Finish(c, "ok", r)
    BY <2>2
  <2> HIDE DEF r
  <2>4. Puts(c, CallWith(c, "ok", call[c].try, r))
    BY <1>0, <2>3, CallForms
  <2>5. Kept
    BY <2>4, KeptForm
  <2> QED BY <1>2, <2>1, <2>5
<1> QED BY <1>1, <1>3, <1>4, <1>5

(* Nor what the database gives up.                                         *)
LEMMA AbortCalm ==
    ASSUME PostgresInv, NEW s \in Sessions, OutOfRange(s) \/ DeadlockDetected(s) \/ Abandoned(s)
    PROVE  Calm
<1>0. Types /\ s[1] \in Clients
  BY DEF PostgresInv, Sessions
<1>1. Rollback(s)
  BY DEF OutOfRange, DeadlockDetected, Abandoned, Aborts
<1>2. UNCHANGED call \/ \E retryable \in BOOLEAN : Fails(s[1], retryable)
  BY DEF OutOfRange, DeadlockDetected, Abandoned, Aborts
<1>3. Kept
  <2>1. CASE UNCHANGED call
    BY <2>1 DEF Kept
  <2>2. CASE \E retryable \in BOOLEAN : Fails(s[1], retryable)
    BY <1>0, <2>2, FailsKeep
  <2> QED BY <1>2, <2>1, <2>2
<1> QED BY <1>1, <1>3, RollbackCalm

(* Every step keeps the two alike.                                         *)
LEMMA MemoryStep == PostgresInv /\ PostgresInv' /\ MemoryInv /\ [Next]_vars => MemoryInv'
<1> SUFFICES ASSUME PostgresInv, PostgresInv', MemoryInv, [Next]_vars PROVE MemoryInv'
  OBVIOUS
<1>1. ASSUME NEW c \in Clients, NEW op \in Ops, Call(c, op) PROVE MemoryInv'
  BY <1>1, CallCalm, CalmKeeps
<1>2. ASSUME NEW c \in Clients, ClientStep(c) PROVE MemoryInv'
  BY <1>2, ClientCalm, CalmKeeps
<1>3. ASSUME NEW c \in Clients, Refused(c) \/ Breaks(c) \/ Cancelled(c) \/ StreamBreaks(c)
      PROVE  MemoryInv'
  BY <1>3, FaultCalm, CalmKeeps
<1>4. ASSUME NEW s \in Sessions, DatabaseStep(s) PROVE MemoryInv'
  <2>1. CASE ExecItem(s)
    BY <2>1, ExecStepKeeps
  <2>2. CASE Commit(s)
    BY <2>2, CommitStepKeeps
  <2>3. CASE OutOfRange(s) \/ DeadlockDetected(s) \/ Abandoned(s)
    BY <2>3, AbortCalm, CalmKeeps
  <2> QED BY <1>4, <2>1, <2>2, <2>3 DEF DatabaseStep
<1>5. CASE UNCHANGED vars
  <2>1. UNCHANGED <<table, log, session, call>>
    BY <1>5 DEF vars, dbVars
  <2>2. Calm
    BY <2>1 DEF Calm, Kept, Live
  <2> QED BY <2>2, CalmKeeps
<1> QED BY <1>1, <1>2, <1>3, <1>4, <1>5 DEF Next

(* The empty table is like an empty memory repository.                     *)
LEMMA MemoryInit == Init => MemoryInv
<1> SUFFICES ASSUME Init PROVE MemoryInv
  OBVIOUS
<1>1. /\ table = NoRows /\ log = << >> /\ \A s \in Sessions : session[s] = NoSession
  BY DEF Init
<1>2. FitsInv
  BY <1>1 DEF FitsInv, Live, LiveIn, NoSession
<1>3. Flat(log, call) = << >>
  <2>1. ItemsOf(log, call) = << >> /\ Len(<< >>) = 0
    BY <1>1 DEF ItemsOf
  <2>2. Flat(log, call) = FlattenSeq(ItemsOf(log, call))
    BY DEF Flat, ItemsOf
  <2> QED BY <2>1, <2>2 DEF FlattenSeq
<1>4. UpdateMany(EmptyStore, << >>) = EmptyStore
  <2>1. << >> \in Seq(UsableMetric) /\ Len(<< >>) = 0
    OBVIOUS
  <2>2. AfterItems(EmptyStore, << >>, 0) = EmptyStore
    BY <2>1, AfterItemsUnfold
  <2> QED BY <2>1, <2>2 DEF UpdateMany
<1>5. ASSUME NEW n \in Names PROVE table[n] = Nil /\ Agree(table, EmptyStore, n)
  <2>1. table[n] = Nil
    BY <1>1 DEF NoRows
  <2>2. GaugeOf(Nil) = Nil /\ CounterOf(Nil) = Nil
    BY DEF GaugeOf, CounterOf
  <2>3. EmptyStore.gauges[n] = Nil /\ EmptyStore.counters[n] = Nil
    BY DEF EmptyStore
  <2> QED BY <2>1, <2>2, <2>3, StoreOfIs DEF Agree
<1>6. LikeMemory(table, Flat(log, call))
  BY <1>3, <1>4, <1>5 DEF LikeMemory
<1> QED BY <1>2, <1>6 DEF MemoryInv

(* Whatever the database does in between, it answers like the memory       *)
(* repository that was given the committed calls, for every name that is   *)
(* used with one type only: what Upsert and the SELECTs make of rows is    *)
(* what UpdateMany makes of maps, and no counter wraps on the way.         *)
THEOREM AnswersAsMemoryDoes == Spec => []AnswersLikeMemory
<1>1. PostgresInv /\ MemoryInv => AnswersLikeMemory
  <2> SUFFICES ASSUME PostgresInv, MemoryInv PROVE AnswersLikeMemory
    OBVIOUS
  <2> DEFINE items == Flat(log, call)
             S(n) == {items[i].mtype : i \in {j \in DOMAIN items : items[j].id = n}}
  <2>1. items \in Seq(UsableMetric)
    BY FlatType DEF PostgresInv
  <2>2. LikeMemory(table, items)
    BY DEF MemoryInv
  <2> HIDE DEF items
  <2>3. ASSUME NEW n \in Names, Cardinality(S(n)) <= 1
        PROVE  Agree(table, UpdateMany(EmptyStore, items), n)
    <3>1. OneType(items, n)
      <4> SUFFICES ASSUME UsedAs(items, n, "gauge"), UsedAs(items, n, "counter") PROVE FALSE
        BY DEF OneType
      <4>1. "gauge" \in S(n) /\ "counter" \in S(n)
        BY DEF UsedAs
      <4>2. \A i \in DOMAIN items : items[i].mtype \in {"gauge", "counter"}
        BY <2>1 DEF UsableMetric, Usable
      <4>3. S(n) = {"gauge"} \cup {"counter"}
        BY <4>1, <4>2
      <4>4. IsFiniteSet({"gauge"}) /\ Cardinality({"gauge"}) = 1 /\ "counter" \notin {"gauge"}
        BY FS_Singleton
      <4>5. Cardinality({"gauge"} \cup {"counter"}) = 1 + 1
        BY <4>4, FS_AddElement
      <4> QED BY <2>3, <4>3, <4>5
    <3> QED BY <2>2, <3>1 DEF LikeMemory
  <2> QED BY <2>3 DEF AnswersLikeMemory, Agree, items, Flat
<1>2. Init => MemoryInv
  BY MemoryInit
<1>3. PostgresInv /\ PostgresInv' /\ MemoryInv /\ [Next]_vars => MemoryInv'
  BY MemoryStep
<1> QED BY <1>1, <1>2, <1>3, PostgresInvariant, PTL DEF Spec

-----------------------------------------------------------------------------

(* The recursion of FoldFunction for a sum, on the subsets T of the        *)
(* indices.                                                                *)
Some(s) == CHOOSE x \in s : TRUE

SumStep(f, B, s) == IF s = {} THEN 0 ELSE B[Some(s)] + f[s \ {Some(s)}]

IsSum(f, T, B) == f = [s \in T |-> SumStep(f, B, s)]

UpTo(S, k) == {s \in SUBSET S : Cardinality(s) <= k}

(* A set without one of its elements.                                      *)
LEMMA LessOne ==
    ASSUME NEW S, IsFiniteSet(S), NEW s \in SUBSET S
    PROVE  /\ Cardinality(s) \in Nat /\ (Cardinality(s) = 0 <=> s = {})
           /\ s # {} => /\ Some(s) \in s /\ s \ {Some(s)} \in SUBSET S
                        /\ Cardinality(s \ {Some(s)}) = Cardinality(s) - 1
<1>1. IsFiniteSet(s)
  BY FS_Subset
<1>2. s # {} => Some(s) \in s
  BY DEF Some
<1> HIDE DEF Some
<1>3. Cardinality(s) \in Nat /\ (Cardinality(s) = 0 <=> s = {})
  BY <1>1, FS_CardinalityType, FS_EmptySet
<1>4. s # {} => Cardinality(s \ {Some(s)}) = Cardinality(s) - 1
  BY <1>1, <1>2, FS_RemoveElement
<1> QED BY <1>2, <1>3, <1>4

(* The function FoldFunction defines by recursion exists.                  *)
LEMMA SumExists ==
    ASSUME NEW S, IsFiniteSet(S), NEW B
    PROVE  \E f : IsSum(f, SUBSET S, B)
<1> DEFINE Bad == {k \in Nat : ~\E f : IsSum(f, UpTo(S, k), B)}
<1>1. Bad = {}
  <2>1. SUFFICES ASSUME Bad # {} PROVE FALSE
    OBVIOUS
  <2>2. PICK m \in Bad : \A k \in Bad : m <= k
    BY <2>1, LeastNatural
  <2>3. CASE m = 0
    <3>1. ASSUME NEW s \in UpTo(S, 0) PROVE s = {}
      <4>1. s \in SUBSET S /\ Cardinality(s) <= 0
        BY DEF UpTo
      <4>2. Cardinality(s) \in Nat /\ (Cardinality(s) = 0 <=> s = {})
        BY <4>1, LessOne
      <4> QED BY <4>1, <4>2
    <3> DEFINE f == [s \in UpTo(S, 0) |-> 0]
    <3>2. \A s \in UpTo(S, 0) : SumStep(f, B, s) = 0
      BY <3>1 DEF SumStep
    <3>3. f = [s \in UpTo(S, 0) |-> SumStep(f, B, s)]
      <4> HIDE DEF f
      <4> QED BY <3>2 DEF f
    <3> QED BY <2>2, <2>3, <3>3 DEF IsSum
  <2>4. CASE m # 0
    <3>1. m - 1 \in Nat /\ m - 1 \notin Bad
      BY <2>2, <2>4
    <3>2. PICK g : IsSum(g, UpTo(S, m - 1), B)
      BY <3>1
    <3> DEFINE f == [s \in UpTo(S, m) |-> SumStep(g, B, s)]
    <3>3. ASSUME NEW s \in UpTo(S, m), s # {} PROVE f[s \ {Some(s)}] = g[s \ {Some(s)}]
      <4> DEFINE r == s \ {Some(s)}
      <4>1. s \in SUBSET S /\ Cardinality(s) <= m
        BY DEF UpTo
      <4>2. Cardinality(s) \in Nat /\ r \in SUBSET S /\ Cardinality(r) = Cardinality(s) - 1
        BY <3>3, <4>1, LessOne
      <4> HIDE DEF r
      <4>3. Cardinality(r) <= m - 1 /\ Cardinality(r) <= m
        BY <3>1, <4>1, <4>2
      <4>4. r \in UpTo(S, m - 1) /\ r \in UpTo(S, m)
        BY <4>2, <4>3 DEF UpTo
      <4>5. g[r] = SumStep(g, B, r)
        BY <3>2, <4>4 DEF IsSum
      <4>6. f[r] = SumStep(g, B, r)
        BY <4>4
      <4> QED BY <4>5, <4>6 DEF r
    <3>4. \A s \in UpTo(S, m) : SumStep(f, B, s) = SumStep(g, B, s)
      <4> SUFFICES ASSUME NEW s \in UpTo(S, m) PROVE SumStep(f, B, s) = SumStep(g, B, s)
        OBVIOUS
      <4> HIDE DEF f
      <4> QED BY <3>3 DEF SumStep
    <3>5. f = [s \in UpTo(S, m) |-> SumStep(f, B, s)]
      <4>1. f = [s \in UpTo(S, m) |-> SumStep(g, B, s)]
        OBVIOUS
      <4> HIDE DEF f
      <4> QED BY <3>4, <4>1
    <3> QED BY <2>2, <3>5 DEF IsSum
  <2> QED BY <2>3, <2>4
<1>2. Cardinality(S) \in Nat
  BY FS_CardinalityType
<1>3. UpTo(S, Cardinality(S)) = SUBSET S
  BY FS_Subset DEF UpTo
<1>4. \E f : IsSum(f, UpTo(S, Cardinality(S)), B)
  BY <1>1, <1>2
<1> QED BY <1>3, <1>4

(* A sum of naturals is zero only if each of them is.                      *)
LEMMA ZeroSum ==
    ASSUME NEW S, IsFiniteSet(S), NEW B \in [S -> Nat]
    PROVE  /\ FoldFunction(+, 0, B) \in Nat
           /\ FoldFunction(+, 0, B) = 0 => \A x \in S : B[x] = 0
<1> DEFINE f == CHOOSE f : IsSum(f, SUBSET S, B)
<1>0. DOMAIN B = S
  OBVIOUS
<1>1. FoldFunction(+, 0, B) = (CHOOSE g : IsSum(g, SUBSET DOMAIN B, B))[DOMAIN B]
  BY DEF FoldFunction, FoldFunctionOnSet, MapThenFoldSet, IsSum, SumStep, Some
<1>2. FoldFunction(+, 0, B) = f[S]
  BY <1>0, <1>1
<1>3. IsSum(f, SUBSET S, B)
  BY SumExists
<1> HIDE DEF f
<1>4. \A s \in SUBSET S : f[s] = SumStep(f, B, s)
  BY <1>3 DEF IsSum
<1> DEFINE Fine(s) == f[s] \in Nat /\ (f[s] = 0 => \A x \in s : B[x] = 0)
           Bad == {k \in Nat : \E s \in SUBSET S : Cardinality(s) = k /\ ~Fine(s)}
<1>5. Bad = {}
  <2>1. SUFFICES ASSUME Bad # {} PROVE FALSE
    OBVIOUS
  <2>2. PICK k \in Bad : \A j \in Bad : k <= j
    BY <2>1, LeastNatural
  <2>3. PICK s \in SUBSET S : Cardinality(s) = k /\ ~Fine(s)
    BY <2>2
  <2>4. CASE s = {}
    <3>1. f[s] = 0
      BY <1>4, <2>4 DEF SumStep
    <3> QED BY <2>3, <2>4, <3>1
  <2>5. CASE s # {}
    <3> DEFINE e == Some(s)
               r == s \ {e}
    <3>1. e \in s /\ r \in SUBSET S /\ Cardinality(r) = k - 1 /\ k \in Nat
      BY <2>3, <2>5, LessOne
    <3>2. f[s] = B[e] + f[r]
      BY <1>4, <2>5 DEF SumStep
    <3>5. \A x \in s : x = e \/ x \in r
      OBVIOUS
    <3> HIDE DEF e, r
    <3>3. Fine(r)
      <4>1. k - 1 \notin Bad
        BY <2>2, <3>1
      <4>2. Cardinality(r) \in Nat
        BY <3>1, LessOne
      <4> QED BY <3>1, <4>1, <4>2
    <3>4. B[e] \in Nat
      BY <3>1
    <3> QED BY <2>3, <3>2, <3>3, <3>4, <3>5
  <2> QED BY <2>4, <2>5
<1>6. Fine(S)
  <2>1. Cardinality(S) \in Nat /\ S \in SUBSET S
    BY FS_CardinalityType
  <2> QED BY <1>5, <2>1
<1> QED BY <1>2, <1>6

-----------------------------------------------------------------------------
(* The calls of UpdateMany that have begun; the others never hold a lock.  *)
Batch(c) == call[c].pc # "idle" /\ call[c].op.kind = "UpdateMany"

(* No three batches so far, and none that writes three rows.               *)
TwoRows(items) ==
    \A i, j, k \in DOMAIN items :
        \/ items[i].id = items[j].id
        \/ items[j].id = items[k].id
        \/ items[i].id = items[k].id

TwoBatches ==
    /\ \A c, d, e \in Clients : Batch(c) /\ Batch(d) /\ Batch(e) => c = d \/ d = e \/ c = e
    /\ \A c \in Clients : Batch(c) => TwoRows(call[c].op.items)

(* Nothing but deadlocks went wrong, and no retry came too early.          *)
Undisturbed == refused = 0 /\ (\A c \in Clients : broken[c] = 0) /\ ~hasty

(* A batch that will not wait again: it has been committed or it holds all *)
(* its rows.  NextUp is one for which the row it waited for, the last it   *)
(* needs, has become free.                                                 *)
HasAllBut(t, x) ==
    \A i \in DOMAIN Op(t).items : Op(t).items[i].id = x \/ lock[Op(t).items[i].id] = t

HasAll(t) == \A i \in DOMAIN Op(t).items : lock[Op(t).items[i].id] = t

Passed(t) == session[t].phase = "answering" \/ (Live(t) /\ HasAll(t))

NextUp(t) == session[t].phase = "exec" /\ Locked(t, Item(t).id) /\ HasAllBut(t, Item(t).id)

(* What the abort of c's transaction did for the batch d.                  *)
LetThrough(c, d) ==
    \/ call[d].pc = "ok"
    \/ /\ call[d].pc = "trying"
       /\ Passed(Current(d)) \/ (call[c].pc = "backoff" /\ NextUp(Current(d)))

Victim(c) == call[c].pc = "backoff" \/ call[c].try > 0

(* Every client hears its database, no call has failed, and whoever was    *)
(* the victim of a deadlock was so because of a batch that it has let      *)
(* through and that cannot stand in its way again.                         *)
Recovering ==
    /\ \A s \in Sessions : ~session[s].lost
    /\ \A c \in Clients : call[c].pc # "error"
    /\ \A c \in Clients : Victim(c) =>
         Batch(c) /\ \E d \in Clients \ {c} : Batch(d) /\ LetThrough(c, d)

(* The rows a transaction has locked are those of items it has executed.   *)
HeldInv ==
    \A s \in Sessions : Live(s) =>
        \A n \in Names : session[s].pending[n] # Nil =>
            \E j \in 1 .. session[s].done : Op(s).items[j].id = n

RecoverInv == refused \in Nat /\ HeldInv /\ (TwoBatches /\ Undisturbed => Recovering)

-----------------------------------------------------------------------------
(* A step that executes no statement keeps what is held.                   *)
LEMMA HeldCalm ==
    ASSUME PostgresInv, HeldInv, Calm
    PROVE  HeldInv'
<1> SUFFICES ASSUME NEW s \in Sessions, Live(s)', NEW n \in Names, session'[s].pending[n] # Nil
             PROVE  \E j \in 1 .. session'[s].done : Op(s)'.items[j].id = n
  BY DEF HeldInv
<1>1. Kept
  BY DEF Calm
<1>2. CASE session'[s].pending = NoRows
  BY <1>2 DEF NoRows
<1>3. CASE Live(s) /\ session'[s].done = session[s].done /\ session'[s].pending = session[s].pending
  <2>1. Op(s)' = Op(s)
    BY <1>1, <1>3, OpKept
  <2>2. \E j \in 1 .. session[s].done : Op(s).items[j].id = n
    BY <1>3 DEF HeldInv
  <2> QED BY <1>3, <2>1, <2>2
<1> QED BY <1>2, <1>3 DEF Calm

(* So does one after which the session that moved is no longer open.       *)
LEMMA HeldClosed ==
    ASSUME PostgresInv, HeldInv, Kept, NEW s \in Sessions, NEW q, Sets(s, q), q.phase \notin LiveIn
    PROVE  HeldInv'
<1> SUFFICES ASSUME NEW t \in Sessions, Live(t)', NEW n \in Names, session'[t].pending[n] # Nil
             PROVE  \E j \in 1 .. session'[t].done : Op(t)'.items[j].id = n
  BY DEF HeldInv
<1>1. t # s /\ session'[t] = session[t] /\ Live(t)
  BY DEF Sets, Live
<1>2. Op(t)' = Op(t)
  BY <1>1, OpKept
<1>3. \E j \in 1 .. session[t].done : Op(t).items[j].id = n
  BY <1>1 DEF HeldInv
<1> QED BY <1>1, <1>2, <1>3

(* What a statement of a transaction and one of its own do.                *)
LEMMA ExecForm ==
    ASSUME PostgresInv, NEW s \in Sessions, ExecItem(s)
    PROVE  /\ session[s].phase = "exec" /\ Live(s) /\ Locked(s, Item(s).id) /\ Item(s).id \in Names
           /\ UNCHANGED <<call, broken, refused, hasty>>
           /\ AutoCommit(s) =>
                /\ UNCHANGED lock
                /\ Sets(s, SessionWith(s, "answering", session[s].result, session[s].lost))
           /\ ~AutoCommit(s) =>
                /\ lock' = [lock EXCEPT ![Item(s).id] = s]
                /\ \E row :
                     Sets(s, [phase |-> "ready", done |-> session[s].done + 1,
                              pending |-> [session[s].pending EXCEPT ![Item(s).id] = row],
                              result |-> session[s].result, lost |-> session[s].lost])
<1> DEFINE x == Item(s).id
           k == session[s].done + 1
           row == Upsert(RowSeen(s, x), Item(s))
<1>1. /\ session[s].phase = "exec" /\ Live(s) /\ Locked(s, x)
      /\ UNCHANGED <<call, broken, refused, hasty>>
  BY DEF ExecItem, Live, LiveIn
<1>2. x \in Names /\ Types
  BY <1>1, FoundRow DEF PostgresInv
<1>3. CASE AutoCommit(s)
  <2>1. UNCHANGED lock /\ session' = [session EXCEPT ![s].phase = "answering"]
    BY <1>3 DEF ExecItem
  <2>2. Sets(s, SessionWith(s, "answering", session[s].result, session[s].lost))
    BY <1>2, <2>1, SessionForms
  <2> QED BY <1>1, <1>2, <1>3, <2>1, <2>2
<1>4. CASE ~AutoCommit(s)
  <2>1. /\ lock' = [lock EXCEPT ![x] = s]
        /\ session' = [session EXCEPT ![s].phase = "ready", ![s].done = k, ![s].pending[x] = row]
    BY <1>4 DEF ExecItem
  <2> HIDE DEF x, k, row
  <2>2. Sets(s, [phase |-> "ready", done |-> k, pending |-> [session[s].pending EXCEPT ![x] = row],
                 result |-> session[s].result, lost |-> session[s].lost])
    BY <1>2, <2>1, ExecTxForm
  <2> QED BY <1>1, <1>2, <1>4, <2>1, <2>2 DEF x, k
<1> QED BY <1>3, <1>4

(* A statement adds the row of its item.                                   *)
LEMMA HeldExec ==
    ASSUME PostgresInv, HeldInv, NEW s \in Sessions, ExecItem(s)
    PROVE  HeldInv'
<1>1. Kept /\ UNCHANGED call /\ Live(s) /\ Item(s).id \in Names
  BY ExecForm DEF Kept
<1>2. CASE AutoCommit(s)
  <2> DEFINE q == SessionWith(s, "answering", session[s].result, session[s].lost)
  <2>1. Sets(s, q)
    BY <1>2, ExecForm
  <2>2. q.phase \notin LiveIn
    BY DEF SessionWith, LiveIn
  <2> HIDE DEF q
  <2> QED BY <1>1, <2>1, <2>2, HeldClosed
<1>3. CASE ~AutoCommit(s)
  <2> DEFINE x == Item(s).id
             k == session[s].done
  <2>1. PICK row : Sets(s, [phase |-> "ready", done |-> k + 1,
                            pending |-> [session[s].pending EXCEPT ![x] = row],
                            result |-> session[s].result, lost |-> session[s].lost])
    BY <1>3, ExecForm
  <2>2. k \in Nat /\ session[s].pending \in [Names -> Rows \cup {Nil}]
    BY <1>1, ExecFacts DEF SessionFits
  <2>3. session'[s].done = k + 1 /\ session'[s].pending = [session[s].pending EXCEPT ![x] = row]
    BY <2>1 DEF Sets
  <2> SUFFICES ASSUME NEW t \in Sessions, Live(t)', NEW n \in Names, session'[t].pending[n] # Nil
               PROVE  \E j \in 1 .. session'[t].done : Op(t)'.items[j].id = n
    BY DEF HeldInv
  <2>4. Op(t)' = Op(t)
    BY <1>1 DEF Op
  <2>5. CASE t = s
    <3>1. CASE n = x
      <4>1. k + 1 \in 1 .. session'[s].done /\ Op(s).items[k + 1].id = x
        BY <2>2, <2>3 DEF Item
      <4> QED BY <2>4, <2>5, <3>1, <4>1
    <3>2. CASE n # x
      <4>1. session[s].pending[n] # Nil
        BY <2>2, <2>3, <2>5, <3>2
      <4>2. PICK j \in 1 .. k : Op(s).items[j].id = n
        BY <1>1, <4>1 DEF HeldInv
      <4>3. j \in 1 .. session'[s].done
        BY <2>2, <2>3
      <4> QED BY <2>4, <2>5, <4>2, <4>3
    <3> QED BY <3>1, <3>2
  <2>6. CASE t # s
    <3>1. session'[t] = session[t] /\ Live(t)
      BY <2>1, <2>6 DEF Sets, Live
    <3>2. \E j \in 1 .. session[t].done : Op(t).items[j].id = n
      BY <3>1 DEF HeldInv
    <3> QED BY <2>4, <3>1, <3>2
  <2> QED BY <2>5, <2>6
<1> QED BY <1>2, <1>3

(* What Commit does to the session.                                        *)
LEMMA CommitForm ==
    ASSUME PostgresInv, NEW s \in Sessions, Commit(s)
    PROVE  /\ Live(s) /\ UNCHANGED <<call, broken, refused, hasty>> /\ Release(s)
           /\ Sets(s, SessionWith(s, "answering", session[s].result, session[s].lost))
<1>1. /\ session[s].phase = "commit" /\ UNCHANGED <<call, broken, refused, hasty>> /\ Release(s)
      /\ session' = [session EXCEPT ![s].phase = "answering"] /\ Types
  BY DEF Commit, PostgresInv
<1>2. Sets(s, SessionWith(s, "answering", session[s].result, session[s].lost))
  BY <1>1, SessionForms
<1> QED BY <1>1, <1>2 DEF Live, LiveIn

(* Every step keeps what is held.                                          *)
LEMMA HeldStep == PostgresInv /\ HeldInv /\ [Next]_vars => HeldInv'
<1> SUFFICES ASSUME PostgresInv, HeldInv, [Next]_vars PROVE HeldInv'
  OBVIOUS
<1>1. ASSUME NEW c \in Clients, NEW op \in Ops, Call(c, op) PROVE HeldInv'
  BY <1>1, CallCalm, HeldCalm
<1>2. ASSUME NEW c \in Clients, ClientStep(c) PROVE HeldInv'
  BY <1>2, ClientCalm, HeldCalm
<1>3. ASSUME NEW c \in Clients, Refused(c) \/ Breaks(c) \/ Cancelled(c) \/ StreamBreaks(c)
      PROVE  HeldInv'
  BY <1>3, FaultCalm, HeldCalm
<1>4. ASSUME NEW s \in Sessions, DatabaseStep(s) PROVE HeldInv'
  <2>1. CASE ExecItem(s)
    BY <2>1, HeldExec
  <2>2. CASE Commit(s)
    <3> DEFINE q == SessionWith(s, "answering", session[s].result, session[s].lost)
    <3>1. Sets(s, q) /\ Kept
      BY <2>2, CommitForm DEF Kept
    <3>2. q.phase \notin LiveIn
      BY DEF SessionWith, LiveIn
    <3> HIDE DEF q
    <3> QED BY <3>1, <3>2, HeldClosed
  <2>3. CASE OutOfRange(s) \/ DeadlockDetected(s) \/ Abandoned(s)
    BY <2>3, AbortCalm, HeldCalm
  <2> QED BY <1>4, <2>1, <2>2, <2>3 DEF DatabaseStep
<1>5. CASE UNCHANGED vars
  <2>1. UNCHANGED <<table, log, session, call>>
    BY <1>5 DEF vars, dbVars
  <2>2. Calm
    BY <2>1 DEF Calm, Kept, Live
  <2> QED BY <2>2, HeldCalm
<1> QED BY <1>1, <1>2, <1>3, <1>4, <1>5 DEF Next

-----------------------------------------------------------------------------
(* The session that holds a row: an open transaction of a batch, and the   *)
(* row is one of its items.                                                *)
LEMMA Holder ==
    ASSUME PostgresInv, HeldInv, NEW n \in Names, lock[n] # Nil
    PROVE  LET t == lock[n] IN
           /\ t \in Sessions /\ Live(t) /\ t[1] \in Clients /\ Batch(t[1]) /\ ~AutoCommit(t)
           /\ \E j \in DOMAIN Op(t).items : Op(t).items[j].id = n
           /\ ~session[t].lost => call[t[1]].pc = "trying" /\ t = Current(t[1])
<1> DEFINE t == lock[n]
<1>1. t \in Sessions
  BY DEF PostgresInv, Types
<1>2. Live(t) /\ session[t].pending[n] # Nil
  BY <1>1 DEF PostgresInv, LockInv
<1> HIDE DEF t
<1>3. /\ t[1] \in Clients /\ call[t[1]].pc # "idle" /\ Op(t) = call[t[1]].op
      /\ Op(t).items \in Seq(UsableMetric) /\ Len(Op(t).items) \in Nat
      /\ session[t].done \in Nat /\ Work(t)
      /\ ~session[t].lost => call[t[1]].pc = "trying" /\ t = Current(t[1])
  BY <1>1, <1>2, ExecFacts
<1>4. ~AutoCommit(t)
  BY <1>2, <1>3 DEF Work, NoRows
<1>5. PICK j \in 1 .. session[t].done : Op(t).items[j].id = n
  BY <1>1, <1>2 DEF HeldInv
<1>6. j \in DOMAIN Op(t).items
  BY <1>3, <1>5 DEF Work
<1> QED BY <1>1, <1>2, <1>3, <1>4, <1>5, <1>6 DEF t, Batch, AutoCommit

(* A waiting session: its row is another's.                                *)
LEMMA WaitingFacts ==
    ASSUME PostgresInv, NEW s \in Waiting
    PROVE  /\ s \in Sessions /\ session[s].phase = "exec" /\ Live(s)
           /\ Item(s).id \in Names /\ lock[Item(s).id] # Nil /\ lock[Item(s).id] # s
           /\ \E j \in DOMAIN Op(s).items : Op(s).items[j] = Item(s)
<1>1. /\ s \in Sessions /\ session[s].phase = "exec" /\ Live(s)
      /\ lock[Item(s).id] # Nil /\ lock[Item(s).id] # s
  BY DEF Waiting, Locked, Live, LiveIn
<1>2. Item(s).id \in Names /\ Item(s) = Op(s).items[session[s].done + 1]
  BY <1>1, FoundRow
<1>3. session[s].done + 1 \in DOMAIN Op(s).items
  <2>1. /\ session[s].done \in Nat /\ Len(Op(s).items) \in Nat /\ PhaseFits(s)
        /\ Op(s).items \in Seq(UsableMetric)
    BY <1>1, ExecFacts
  <2>2. session[s].done < Len(Op(s).items)
    BY <1>1, <2>1 DEF PhaseFits
  <2> QED BY <2>1, <2>2
<1> QED BY <1>1, <1>2, <1>3

(* A session that holds all its rows, or finds the next one free, does not *)
(* wait.                                                                   *)
LEMMA NoWait ==
    ASSUME PostgresInv, NEW s \in Waiting
    PROVE  ~Passed(s) /\ ~NextUp(s)
<1>1. /\ session[s].phase = "exec" /\ lock[Item(s).id] # Nil /\ lock[Item(s).id] # s
      /\ \E j \in DOMAIN Op(s).items : Op(s).items[j] = Item(s)
  BY WaitingFacts
<1>2. ~HasAll(s)
  BY <1>1 DEF HasAll
<1>3. ~Locked(s, Item(s).id)
  BY <1>1 DEF Locked
<1> QED BY <1>1, <1>2, <1>3 DEF Passed, NextUp

(* A deadlock of two batches: each waits for a row of the other.           *)
LEMMA DeadlockOfTwo ==
    ASSUME PostgresInv, HeldInv, TwoBatches, Recovering,
           NEW s \in Sessions, s \in Waiting, InCycle(s)
    PROVE  LET t == lock[Item(s).id] IN
           /\ t \in Waiting /\ t # s /\ t[1] # s[1] /\ lock[Item(t).id] = s
           /\ s = Current(s[1]) /\ t = Current(t[1]) /\ Batch(s[1]) /\ Batch(t[1])
           /\ call[s[1]].pc = "trying" /\ call[t[1]].pc = "trying"
<1> DEFINE t == lock[Item(s).id]
           u == lock[Item(t).id]
<1>1. PICK ring \in SUBSET Waiting : s \in ring /\ {lock[Item(w).id] : w \in ring} = ring
  BY DEF InCycle
<1>2. t \in ring /\ u \in ring
  BY <1>1
<1>3. PICK z \in ring : lock[Item(z).id] = s
  BY <1>1
<1>4. \A w \in Sessions : ~session[w].lost
  BY DEF Recovering
<1>5. ASSUME NEW w \in ring, NEW v, v = lock[Item(w).id]
      PROVE  /\ v \in Sessions /\ v # w /\ v[1] \in Clients /\ Batch(v[1])
             /\ call[v[1]].pc = "trying" /\ v = Current(v[1])
  <2>1. Item(w).id \in Names /\ lock[Item(w).id] # Nil /\ lock[Item(w).id] # w
    BY <1>1, WaitingFacts
  <2>2. v \in Sessions /\ v[1] \in Clients /\ Batch(v[1])
        /\ (~session[v].lost => call[v[1]].pc = "trying" /\ v = Current(v[1]))
    BY <1>5, <2>1, Holder
  <2> QED BY <1>4, <1>5, <2>1, <2>2
<1> HIDE DEF t, u
<1>6. /\ t # s /\ t[1] \in Clients /\ Batch(t[1]) /\ call[t[1]].pc = "trying" /\ t = Current(t[1])
  BY <1>1, <1>5 DEF t
<1>7. /\ u # t /\ u[1] \in Clients /\ Batch(u[1]) /\ u = Current(u[1])
  BY <1>2, <1>5 DEF u
<1>8. /\ s[1] \in Clients /\ Batch(s[1]) /\ call[s[1]].pc = "trying" /\ s = Current(s[1])
  BY <1>3, <1>5
<1>9. t[1] # s[1] /\ u[1] # t[1]
  BY <1>6, <1>7, <1>8
<1>10. u[1] = s[1]
  BY <1>6, <1>7, <1>8, <1>9 DEF TwoBatches
<1>11. u = s
  BY <1>7, <1>8, <1>10
<1> QED BY <1>1, <1>2, <1>6, <1>8, <1>9, <1>11 DEF t, u

(* Batches that have begun stay as they are: if there are two at most now, *)
(* there were.                                                             *)
LEMMA TwoBefore ==
    ASSUME Kept, TwoBatches'
    PROVE  TwoBatches
<1>1. ASSUME NEW c \in Clients, Batch(c) PROVE Batch(c)' /\ call'[c].op = call[c].op
  BY <1>1 DEF Kept, Batch
<1> QED BY <1>1 DEF TwoBatches, TwoRows

(* What LetThrough says of d stays true while d does nothing, its locks    *)
(* stay and the row it waits for stays free.                               *)
LEMMA StaysThrough ==
    ASSUME PostgresInv, NEW c \in Clients, NEW d \in Clients, LetThrough(c, d),
           call'[d] = call[d], session'[Current(d)] = session[Current(d)],
           \A n \in Names : lock[n] = Current(d) => lock'[n] = Current(d),
           call[c].pc = "backoff" /\ NextUp(Current(d)) =>
             /\ call'[c].pc = "backoff"
             /\ lock[Item(Current(d)).id] = Nil => lock'[Item(Current(d)).id] = Nil
    PROVE  LetThrough(c, d)'
<1>1. CASE call[d].pc = "ok"
  BY <1>1 DEF LetThrough
<1>2. CASE call[d].pc = "trying"
  <2>0. PICK t : t = Current(d)
    OBVIOUS
  <2>1. /\ t \in Sessions /\ t = <<d, call[d].try>> /\ t[1] = d
        /\ call[d].op \in Ops /\ Op(t) = call[d].op
    BY <1>2, <2>0, TryingFacts
  <2>2. Current(d)' = t /\ Op(t)' = Op(t) /\ session'[t] = session[t] /\ Item(t)' = Item(t)
    BY <2>1 DEF Current, Op, Item
  <2>3. \A i \in DOMAIN Op(t).items : Op(t).items[i].id \in Names
    <3>1. Op(t).items \in Seq(UsableMetric)
      BY <2>1, OpFacts
    <3>2. \A m \in UsableMetric : m.id \in Names
      BY DEF UsableMetric
    <3> QED BY <3>1, <3>2
  <2>4. \A n \in Names : lock[n] = t => lock'[n] = t
    BY <2>0
  <2>5. Passed(t) => Passed(t)'
    BY <2>2, <2>3, <2>4 DEF Passed, Live, HasAll
  <2>6. ASSUME call[c].pc = "backoff", NextUp(t) PROVE call'[c].pc = "backoff" /\ NextUp(t)'
    <3>1. call'[c].pc = "backoff" /\ (lock[Item(t).id] = Nil => lock'[Item(t).id] = Nil)
      BY <2>0, <2>6
    <3>2. Item(t).id \in Names
      BY <2>1, <2>6, FoundRow DEF NextUp
    <3>3. Locked(t, Item(t).id)'
      BY <2>2, <2>4, <2>6, <3>1, <3>2 DEF NextUp, Locked
    <3>4. HasAllBut(t, Item(t).id)'
      BY <2>2, <2>3, <2>4, <2>6 DEF NextUp, HasAllBut
    <3> QED BY <2>2, <2>6, <3>1, <3>3, <3>4 DEF NextUp
  <2>7. Passed(t) \/ (call[c].pc = "backoff" /\ NextUp(t))
    BY <1>2, <2>0 DEF LetThrough
  <2>8. Passed(t)' \/ (call'[c].pc = "backoff" /\ NextUp(t)')
    BY <2>5, <2>6, <2>7
  <2>9. call'[d].pc = "trying"
    BY <1>2
  <2>10. Passed(Current(d))' = Passed(t)' /\ NextUp(Current(d))' = NextUp(t)'
    BY <2>2 DEF Passed, NextUp, Live, HasAll, HasAllBut, Locked, Op, Item
  <2> QED BY <2>8, <2>9, <2>10 DEF LetThrough
<1> QED BY <1>1, <1>2 DEF LetThrough

(* A step of a call that is being tried: of its locks it may take free     *)
(* ones and release its own, and it does not get behind.                   *)
LEMMA RecoverMove ==
    ASSUME PostgresInv, TwoBatches, Recovering, NEW c \in Clients, NEW s, s = Current(c),
           call[c].pc = "trying", NEW q, Sets(s, q), ~q.lost, Kept,
           call'[c].pc \in {"trying", "ok"}, call'[c].try = call[c].try,
           \A d \in Clients \ {c} : call'[d] = call[d],
           \A n \in Names : lock[n] # s /\ lock[n] # Nil => lock'[n] = lock[n],
           \A n \in Names : lock[n] = Nil => lock'[n] = Nil \/ Batch(c),
           Passed(s) \/ NextUp(s) =>
             call'[c].pc = "ok" \/ (Current(c)' = s /\ Passed(s)')
    PROVE  Recovering'
<1>0. s \in Sessions /\ s[1] = c
  BY TryingFacts
<1>1. ASSUME NEW t \in Sessions PROVE ~session'[t].lost
  BY DEF Sets, Recovering
<1>2. ASSUME NEW e \in Clients PROVE call'[e].pc # "error"
  BY DEF Recovering
<1>3. ASSUME NEW e \in Clients, Victim(e)'
      PROVE  Batch(e)' /\ \E d \in Clients \ {e} : Batch(d)' /\ LetThrough(e, d)'
  <2>1. Victim(e)
    BY <1>3 DEF Victim
  <2>2. Batch(e)
    BY <2>1 DEF Recovering
  <2>3. PICK d \in Clients \ {e} : Batch(d) /\ LetThrough(e, d)
    BY <2>1 DEF Recovering
  <2>4. Batch(e)' /\ Batch(d)'
    BY <2>2, <2>3 DEF Kept, Batch
  <2>5. LetThrough(e, d)'
    <3>1. CASE d = c
      <4>1. Passed(s) \/ NextUp(s)
        BY <2>3, <3>1 DEF LetThrough
      <4>2. call'[c].pc = "ok" \/ (Current(c)' = s /\ Passed(s)')
        BY <4>1
      <4>3. CASE call'[c].pc = "ok"
        BY <3>1, <4>3 DEF LetThrough
      <4>4. CASE call'[c].pc = "trying" /\ Current(c)' = s /\ Passed(s)'
        BY <3>1, <4>4 DEF LetThrough, Passed, Live, HasAll, Op
      <4> QED BY <4>2, <4>3, <4>4
    <3>2. CASE d # c
      <4>1. call'[d] = call[d]
        BY <3>2
      <4>2. Current(d) \in Sessions /\ Current(d)[1] = d
        BY CurrentFacts DEF PostgresInv
      <4>3. session'[Current(d)] = session[Current(d)] /\ Current(d) # s /\ Current(d) # Nil
        BY <1>0, <3>2, <4>2, PostgresAssumption DEF Sets
      <4>4. \A n \in Names : lock[n] = Current(d) => lock'[n] = Current(d)
        BY <4>3
      <4>5. ASSUME call[e].pc = "backoff", NextUp(Current(d))
            PROVE  /\ call'[e].pc = "backoff"
                   /\ lock[Item(Current(d)).id] = Nil => lock'[Item(Current(d)).id] = Nil
        <5>1. e # c /\ call'[e] = call[e]
          BY <4>5
        <5>2. Item(Current(d)).id \in Names
          BY <4>2, <4>5, FoundRow DEF NextUp
        <5>3. ~Batch(c)
          BY <2>2, <2>3, <3>2, <5>1 DEF TwoBatches
        <5> QED BY <4>5, <5>1, <5>2, <5>3
      <4> QED BY <2>3, <4>1, <4>3, <4>4, <4>5, StaysThrough
    <3> QED BY <3>1, <3>2
  <2> QED BY <2>3, <2>4, <2>5
<1> QED BY <1>1, <1>2, <1>3 DEF Recovering

(* Steps that only a client takes: the next statement, the commit, a read  *)
(* and the answer.                                                         *)
LEMMA RecoverClient ==
    ASSUME PostgresInv, TwoBatches, Recovering, NEW c \in Clients,
           SendItem(c) \/ SendCommit(c) \/ Query(c) \/ Answered(c)
    PROVE  Recovering'
<1>0. PICK s : s = Current(c)
  OBVIOUS
<1>1. call[c].pc = "trying" /\ UNCHANGED lock
  BY DEF SendItem, SendCommit, Query, Answered, Trying, dbVars
<1>2. s \in Sessions /\ s[1] = c /\ Types /\ s = <<c, call[c].try>> /\ ~session[s].lost
  BY <1>0, <1>1, TryingFacts DEF Recovering
<1>3. Kept
  BY ClientCalm DEF ClientStep, Calm
<1>4. CASE SendItem(c) \/ SendCommit(c)
  <2>1. /\ UNCHANGED call /\ session[s].phase = "ready"
        /\ \E x \in {"exec", "commit"} : session' = [session EXCEPT ![s].phase = x]
    BY <1>0, <1>4 DEF SendItem, SendCommit, Trying
  <2>2. PICK x \in {"exec", "commit"} : session' = [session EXCEPT ![s].phase = x]
    BY <2>1
  <2> DEFINE q == SessionWith(s, x, session[s].result, session[s].lost)
  <2>3. Sets(s, q)
    BY <1>2, <2>2, SessionForms
  <2>4. ~q.lost /\ q.phase \in LiveIn
    BY <1>2 DEF SessionWith, LiveIn
  <2> HIDE DEF q
  <2>5. session'[s] = q /\ Current(c)' = s
    BY <1>2, <2>1, <2>3 DEF Sets, Current
  <2>6. Passed(s) \/ NextUp(s) => Passed(s)'
    BY <1>1, <2>1, <2>4, <2>5 DEF Passed, NextUp, Live, HasAll, Op
  <2> QED BY <1>0, <1>1, <1>3, <2>1, <2>3, <2>4, <2>5, <2>6, RecoverMove
<1>5. CASE Query(c)
  <2> DEFINE r == Result(StoreOf(table), call[c].op)
             q == SessionWith(s, "answering", r, session[s].lost)
  <2>1. UNCHANGED call /\ session' = [session EXCEPT ![s].phase = "answering", ![s].result = r]
    BY <1>0, <1>5 DEF Query
  <2> HIDE DEF r
  <2>3. Sets(s, q)
    BY <1>2, <2>1, SessionForms
  <2>4. ~q.lost /\ q.phase = "answering"
    BY <1>2 DEF SessionWith
  <2> HIDE DEF q
  <2>5. session'[s] = q /\ Current(c)' = s
    BY <1>2, <2>1, <2>3 DEF Sets, Current
  <2>6. Passed(s)'
    BY <2>4, <2>5 DEF Passed
  <2> QED BY <1>0, <1>1, <1>3, <2>1, <2>3, <2>4, <2>5, <2>6, RecoverMove
<1>6. CASE Answered(c)
  <2>1. session' = [session EXCEPT ![s] = Ended] /\ Finish(c, "ok", session[s].result)
    BY <1>0, <1>6 DEF Answered
  <2>2. Sets(s, Ended) /\ ~Ended.lost
    <3>1. Sets(s, Ended)
      BY <1>2, <2>1, SessionForms
    <3> QED BY <3>1 DEF Ended, NoSession
  <2>3. Puts(c, CallWith(c, "ok", call[c].try, session[s].result))
    BY <1>2, <2>1, CallForms
  <2>4. /\ call'[c].pc = "ok" /\ call'[c].try = call[c].try
        /\ \A d \in Clients \ {c} : call'[d] = call[d]
    BY <2>3 DEF Puts, CallWith
  <2> QED BY <1>0, <1>1, <1>3, <2>2, <2>4, RecoverMove
<1> QED BY <1>4, <1>5, <1>6

(* Steps of the database that end well.                                    *)
LEMMA RecoverWork ==
    ASSUME PostgresInv, TwoBatches, Recovering, NEW s \in Sessions, ExecItem(s) \/ Commit(s)
    PROVE  Recovering'
<1>0. PICK c : c = s[1]
  OBVIOUS
<1>1. Live(s) /\ UNCHANGED call /\ ~session[s].lost
  BY ExecForm, CommitForm DEF Recovering
<1>2. c \in Clients /\ call[c].pc = "trying" /\ s = Current(c)
  BY <1>0, <1>1, ExecFacts
<1>3. Kept /\ Current(c)' = s
  BY <1>1, <1>2 DEF Kept, Current
<1>4. /\ call'[c].pc = "trying" /\ call'[c].try = call[c].try
      /\ \A d \in Clients \ {c} : call'[d] = call[d]
  BY <1>1, <1>2
<1> DEFINE q1 == SessionWith(s, "answering", session[s].result, session[s].lost)
<1>5. ~q1.lost /\ q1.phase = "answering"
  BY <1>1 DEF SessionWith
<1> HIDE DEF q1
<1>6. ASSUME Sets(s, q1) PROVE Passed(s)'
  BY <1>5, <1>6 DEF Sets, Passed
<1>7. CASE Commit(s)
  <2>1. Sets(s, q1) /\ Release(s)
    BY <1>7, CommitForm DEF q1
  <2>2. \A n \in Names : lock[n] # s => lock'[n] = lock[n]
    BY <2>1 DEF Release
  <2>3. s # Nil
    BY PostgresAssumption
  <2> QED BY <1>2, <1>3, <1>4, <1>5, <1>6, <2>1, <2>2, <2>3, RecoverMove
<1>8. CASE ExecItem(s) /\ AutoCommit(s)
  <2>1. Sets(s, q1) /\ UNCHANGED lock
    BY <1>8, ExecForm DEF q1
  <2> QED BY <1>2, <1>3, <1>4, <1>5, <1>6, <2>1, RecoverMove
<1>9. CASE ExecItem(s) /\ ~AutoCommit(s)
  <2>0. PICK x : x = Item(s).id
    OBVIOUS
  <2>1. /\ session[s].phase = "exec" /\ Locked(s, x) /\ x \in Names /\ lock' = [lock EXCEPT ![x] = s]
        /\ \E row :
             Sets(s, [phase |-> "ready", done |-> session[s].done + 1,
                      pending |-> [session[s].pending EXCEPT ![x] = row],
                      result |-> session[s].result, lost |-> session[s].lost])
    BY <1>9, <2>0, ExecForm
  <2>2. PICK q : Sets(s, q) /\ q.phase = "ready" /\ q.lost = session[s].lost
    BY <2>1
  <2>3. lock \in [Names -> Sessions \cup {Nil}]
    BY DEF PostgresInv, Types
  <2>4. /\ \A n \in Names : n # x => lock'[n] = lock[n]
        /\ lock'[x] = s /\ lock[x] \in {Nil, s}
    BY <2>1, <2>3 DEF Locked
  <2>5. Batch(c)
    BY <1>0, <1>1, <1>9, ExecFacts DEF Batch, AutoCommit, Op
  <2>6. Passed(s) \/ NextUp(s) => Passed(s)'
    <3>1. SUFFICES ASSUME Passed(s) \/ NextUp(s) PROVE Passed(s)'
      OBVIOUS
    <3>2. HasAllBut(s, x)
      BY <2>0, <2>1, <3>1 DEF Passed, NextUp, HasAll, HasAllBut
    <3>3. Op(s)' = Op(s) /\ session'[s] = q
      BY <1>1, <2>2 DEF Op, Sets
    <3>4. \A i \in DOMAIN Op(s).items : Op(s).items[i].id \in Names
      <4>1. Op(s).items \in Seq(UsableMetric)
        BY <1>1, ExecFacts
      <4>2. \A m \in UsableMetric : m.id \in Names
        BY DEF UsableMetric
      <4> QED BY <4>1, <4>2
    <3>5. HasAll(s)'
      BY <2>4, <3>2, <3>3, <3>4 DEF HasAll, HasAllBut
    <3> QED BY <2>2, <3>3, <3>5 DEF Passed, Live, LiveIn
  <2> QED BY <1>1, <1>2, <1>3, <1>4, <2>2, <2>4, <2>5, <2>6, RecoverMove
<1> QED BY <1>7, <1>8, <1>9

(* A call begins: nobody's victim, in nobody's way.                        *)
LEMMA RecoverCall ==
    ASSUME PostgresInv, Recovering, NEW c \in Clients, NEW op \in Ops, Call(c, op)
    PROVE  Recovering'
<1>1. Types /\ call[c].pc = "idle" /\ UNCHANGED lock /\ Kept
  BY CallCalm DEF PostgresInv, Call, dbVars, Calm
<1>2. PICK p : p.pc \in {"trying", "ok"} /\ p.try = 0 /\ call' = [call EXCEPT ![c] = p]
  <2> DEFINE new == [NoCall EXCEPT !.pc = "trying", !.op = op, !.since = Len(log)]
  <2>1. \/ call' = [call EXCEPT ![c] = new]
        \/ call' = [call EXCEPT ![c] = [new EXCEPT !.pc = "ok"]]
    BY DEF Call
  <2>2. new.pc = "trying" /\ new.try = 0
    BY DEF NoCall
  <2>3. [new EXCEPT !.pc = "ok"].pc = "ok" /\ [new EXCEPT !.pc = "ok"].try = 0
    BY DEF NoCall
  <2> HIDE DEF new
  <2> QED BY <2>1, <2>2, <2>3
<1>3. call'[c] = p /\ \A d \in Clients \ {c} : call'[d] = call[d]
  BY <1>1, <1>2, CallForms DEF Puts
<1>4. \A t \in Sessions : t[1] # c => session'[t] = session[t]
  BY <1>1 DEF Call, Types
<1>5. ASSUME NEW t \in Sessions PROVE ~session'[t].lost
  <2>1. session'[t] = session[t] \/ session'[t] = Opened
    BY <1>1 DEF Call, Types
  <2>2. ~Opened.lost
    BY DEF Opened, NoSession
  <2> QED BY <2>1, <2>2 DEF Recovering
<1>6. ASSUME NEW e \in Clients PROVE call'[e].pc # "error"
  BY <1>2, <1>3 DEF Recovering
<1>7. ASSUME NEW e \in Clients, Victim(e)'
      PROVE  Batch(e)' /\ \E d \in Clients \ {e} : Batch(d)' /\ LetThrough(e, d)'
  <2>1. e # c /\ Victim(e)
    BY <1>2, <1>3, <1>7 DEF Victim
  <2>2. Batch(e)
    BY <2>1 DEF Recovering
  <2>3. PICK d \in Clients \ {e} : Batch(d) /\ LetThrough(e, d)
    BY <2>1 DEF Recovering
  <2>4. Batch(e)' /\ Batch(d)' /\ d # c
    BY <1>1, <2>2, <2>3 DEF Kept, Batch
  <2>5. Current(d) \in Sessions /\ Current(d)[1] = d
    BY <1>1, CurrentFacts
  <2>6. session'[Current(d)] = session[Current(d)] /\ call'[d] = call[d] /\ call'[e] = call[e]
    BY <1>3, <1>4, <2>1, <2>4, <2>5
  <2>7. LetThrough(e, d)'
    BY <1>1, <2>3, <2>6, StaysThrough
  <2> QED BY <2>3, <2>4, <2>7
<1> QED BY <1>5, <1>6, <1>7 DEF Recovering

(* The victim is back when nothing could run any more: the batch it let    *)
(* through has executed the statement it waited with.                      *)
LEMMA RecoverBackoff ==
    ASSUME PostgresInv, TwoBatches, Recovering, NEW c \in Clients, Backoff(c), ~hasty'
    PROVE  Recovering'
<1>1. /\ Types /\ call[c].pc = "backoff" /\ UNCHANGED lock /\ Kept
      /\ \A s \in Sessions : ~Runnable(s)
  BY ClientCalm DEF PostgresInv, Backoff, dbVars, Calm, ClientStep
<1>2. Puts(c, CallWith(c, "trying", call[c].try + 1, call[c].result))
  BY <1>1, CallForms DEF Backoff
<1>3. call'[c].pc = "trying" /\ \A d \in Clients \ {c} : call'[d] = call[d]
  BY <1>2 DEF Puts, CallWith
<1>4. \A t \in Sessions : /\ t[1] # c => session'[t] = session[t]
                          /\ session'[t] = session[t] \/ session'[t] = Opened
  BY <1>1 DEF Backoff, Types
<1>5. ASSUME NEW t \in Sessions PROVE ~session'[t].lost
  <2>1. ~Opened.lost
    BY DEF Opened, NoSession
  <2> QED BY <1>4, <2>1 DEF Recovering
<1>6. ASSUME NEW e \in Clients PROVE call'[e].pc # "error"
  BY <1>3 DEF Recovering
<1>7. Victim(c) /\ Batch(c)
  BY <1>1 DEF Victim, Recovering
<1>8. PICK d \in Clients \ {c} : Batch(d) /\ LetThrough(c, d)
  BY <1>7 DEF Recovering
<1>9. ASSUME NEW e \in Clients, Victim(e)' PROVE e = c
  <2>1. SUFFICES ASSUME e # c PROVE FALSE
    OBVIOUS
  <2>2. Victim(e)
    BY <1>3, <1>9, <2>1 DEF Victim
  <2>3. Batch(e)
    BY <2>2 DEF Recovering
  <2>4. PICK g \in Clients \ {e} : Batch(g) /\ LetThrough(e, g)
    BY <2>2 DEF Recovering
  <2>5. g = c
    BY <1>7, <2>1, <2>3, <2>4 DEF TwoBatches
  <2> QED BY <1>1, <2>4, <2>5 DEF LetThrough
<1>10. LetThrough(c, d)'
  <2>1. Current(d) \in Sessions /\ Current(d)[1] = d
    BY <1>1, CurrentFacts
  <2>2. ~NextUp(Current(d))
    BY <1>1, <2>1 DEF NextUp, Runnable
  <2>3. session'[Current(d)] = session[Current(d)] /\ call'[d] = call[d]
    BY <1>3, <1>4, <2>1
  <2> QED BY <1>1, <1>8, <2>2, <2>3, StaysThrough
<1>11. Batch(c)' /\ Batch(d)'
  BY <1>1, <1>7, <1>8 DEF Kept, Batch
<1> QED BY <1>5, <1>6, <1>8, <1>9, <1>10, <1>11 DEF Recovering

(* The first deadlock: the victim backs off, and the row that the other    *)
(* batch was waiting for is its last.                                      *)
LEMMA RecoverDeadlock ==
    ASSUME PostgresInv, HeldInv, TwoBatches, Recovering, Delays > 0,
           NEW s \in Sessions, DeadlockDetected(s)
    PROVE  Recovering'
<1>0. PICK c, d, t : c = s[1] /\ t = lock[Item(s).id] /\ d = t[1]
  OBVIOUS
<1>1. s \in Waiting /\ InCycle(s) /\ Aborts(s, TRUE) /\ Types /\ Kept
  BY AbortCalm DEF DeadlockDetected, PostgresInv, Calm
<1>2. /\ t \in Waiting /\ t # s /\ d # c /\ lock[Item(t).id] = s
      /\ s = Current(c) /\ t = Current(d) /\ Batch(c) /\ Batch(d)
      /\ call[c].pc = "trying" /\ call[d].pc = "trying"
  BY <1>0, <1>1, DeadlockOfTwo
<1>3. t \in Sessions /\ c \in Clients /\ d \in Clients
  BY <1>0, <1>2 DEF Waiting, Sessions
<1>4. ASSUME NEW e \in Clients PROVE ~Victim(e)
  <2>1. SUFFICES ASSUME Victim(e) PROVE FALSE
    OBVIOUS
  <2>2. Batch(e)
    BY <2>1 DEF Recovering
  <2>3. PICK g \in Clients \ {e} : Batch(g) /\ LetThrough(e, g)
    BY <2>1 DEF Recovering
  <2>4. g \in {c, d}
    BY <1>2, <1>3, <2>2, <2>3 DEF TwoBatches
  <2>5. Current(g) \in Waiting /\ call[g].pc = "trying"
    BY <1>1, <1>2, <2>4
  <2> QED BY <2>3, <2>5, NoWait DEF LetThrough
<1>5. call[c].try = 0
  BY <1>1, <1>3, <1>4, CurrentFacts DEF Victim
<1>6. session' = [session EXCEPT ![s] = Ended] /\ Release(s) /\ Fails(c, TRUE)
  <2>1. ~session[s].lost
    BY DEF Recovering
  <2> QED BY <1>0, <1>1, <2>1 DEF Aborts, Rollback
<1>7. call' = [call EXCEPT ![c].pc = "backoff"]
  BY <1>5, <1>6, PostgresAssumption DEF Fails
<1>8. Puts(c, CallWith(c, "backoff", call[c].try, call[c].result))
  BY <1>1, <1>3, <1>7, CallForms
<1>9. call'[c].pc = "backoff" /\ \A e \in Clients \ {c} : call'[e] = call[e]
  BY <1>3, <1>8 DEF Puts, CallWith
<1>10. session'[s] = Ended /\ \A w \in Sessions \ {s} : session'[w] = session[w]
  BY <1>1, <1>6 DEF Types
<1>11. ASSUME NEW w \in Sessions PROVE ~session'[w].lost
  <2>1. ~Ended.lost
    BY DEF Ended, NoSession
  <2> QED BY <1>10, <2>1 DEF Recovering
<1>12. ASSUME NEW e \in Clients PROVE call'[e].pc # "error"
  BY <1>9 DEF Recovering
<1>13. ASSUME NEW e \in Clients, Victim(e)' PROVE e = c
  BY <1>4, <1>9, <1>13 DEF Victim
<1>14. NextUp(t)'
  <2>0. PICK x, y : x = Item(s).id /\ y = Item(t).id
    OBVIOUS
  <2>1. /\ x \in Names /\ y \in Names /\ session[t].phase = "exec"
        /\ \E j \in DOMAIN Op(t).items : Op(t).items[j].id = y
    BY <1>1, <1>2, <2>0, WaitingFacts
  <2>2. lock[x] = t /\ lock[y] = s /\ x # y
    BY <1>0, <1>2, <2>0
  <2>3. lock[x] # Nil
    BY <1>3, <2>2, PostgresAssumption
  <2>4. \E j \in DOMAIN Op(t).items : Op(t).items[j].id = x
    BY <2>1, <2>2, <2>3, Holder
  <2>5. TwoRows(Op(t).items)
    BY <1>0, <1>2, <1>3 DEF TwoBatches, Op
  <2>6. \A i \in DOMAIN Op(t).items : Op(t).items[i].id \in {x, y}
    BY <2>1, <2>2, <2>4, <2>5 DEF TwoRows
  <2>7. lock'[x] = t /\ lock'[y] = Nil
    BY <1>2, <1>6, <2>1, <2>2 DEF Release
  <2>8. Op(t)' = Op(t) /\ session'[t] = session[t]
    BY <1>0, <1>2, <1>3, <1>9, <1>10 DEF Op
  <2>9. Item(t)' = Item(t)
    BY <2>8 DEF Item
  <2>10. Locked(t, Item(t).id)'
    BY <2>0, <2>7, <2>9 DEF Locked
  <2>11. HasAllBut(t, Item(t).id)'
    BY <2>0, <2>6, <2>7, <2>8, <2>9 DEF HasAllBut
  <2> QED BY <2>1, <2>8, <2>10, <2>11 DEF NextUp
<1>15. LetThrough(c, d)'
  <2>1. call'[d] = call[d] /\ Current(d)' = t
    BY <1>2, <1>3, <1>9 DEF Current
  <2>2. NextUp(Current(d))'
    BY <1>14, <2>1 DEF NextUp, HasAllBut, Locked, Op, Item
  <2> QED BY <1>2, <1>9, <2>1, <2>2 DEF LetThrough
<1>16. Batch(c)' /\ Batch(d)'
  BY <1>1, <1>2, <1>3 DEF Kept, Batch
<1> QED BY <1>2, <1>3, <1>11, <1>12, <1>13, <1>15, <1>16 DEF Recovering

-----------------------------------------------------------------------------
(* Every step keeps the requests of the calls that have begun.             *)
LEMMA StepKeeps == ASSUME PostgresInv, [Next]_vars PROVE Kept
<1>1. ASSUME NEW c \in Clients, NEW op \in Ops, Call(c, op) PROVE Kept
  BY <1>1, CallCalm DEF Calm
<1>2. ASSUME NEW c \in Clients, ClientStep(c) PROVE Kept
  BY <1>2, ClientCalm DEF Calm
<1>3. ASSUME NEW c \in Clients, Refused(c) \/ Breaks(c) \/ Cancelled(c) \/ StreamBreaks(c)
      PROVE  Kept
  BY <1>3, FaultCalm DEF Calm
<1>4. ASSUME NEW s \in Sessions, DatabaseStep(s) PROVE Kept
  <2>1. CASE ExecItem(s) \/ Commit(s)
    BY <2>1, ExecForm, CommitForm DEF Kept
  <2>2. CASE OutOfRange(s) \/ DeadlockDetected(s) \/ Abandoned(s)
    BY <2>2, AbortCalm DEF Calm
  <2> QED BY <1>4, <2>1, <2>2 DEF DatabaseStep
<1>5. CASE UNCHANGED vars
  BY <1>5 DEF vars, Kept
<1> QED BY <1>1, <1>2, <1>3, <1>4, <1>5 DEF Next

(* Errors and broken connections are counted, and the count stays.         *)
LEMMA FaultsStay ==
    ASSUME PostgresInv, refused \in Nat, [Next]_vars
    PROVE  /\ refused' \in Nat
           /\ Undisturbed' => Undisturbed
           /\ \A c \in Clients :
                Refused(c) \/ Breaks(c) \/ Cancelled(c) \/ StreamBreaks(c) => ~Undisturbed'
           /\ \A s \in Sessions : OutOfRange(s) => ~Undisturbed'
<1>0. broken \in [Clients -> Nat]
  BY DEF PostgresInv, Types
<1>1. ASSUME NEW c \in Clients, Refused(c) \/ Cancelled(c)
      PROVE  refused' \in Nat /\ ~Undisturbed'
  <2>1. refused' = refused + 1
    BY <1>1 DEF Refused, Cancelled
  <2>2. refused' # 0 /\ refused' \in Nat
    BY <2>1
  <2> QED BY <2>2 DEF Undisturbed
<1>2. ASSUME NEW c \in Clients, Breaks(c) \/ StreamBreaks(c)
      PROVE  refused' \in Nat /\ ~Undisturbed'
  <2>1. UNCHANGED refused /\ broken' = [broken EXCEPT ![c] = @ + 1]
    BY <1>2 DEF Breaks, StreamBreaks, Loses
  <2>2. broken[c] \in Nat /\ broken'[c] = broken[c] + 1
    BY <1>0, <2>1
  <2>3. broken'[c] # 0
    BY <2>2
  <2> QED BY <2>1, <2>3 DEF Undisturbed
<1>3. ASSUME NEW s \in Sessions, OutOfRange(s) PROVE refused' \in Nat /\ ~Undisturbed'
  <2>1. refused' = refused + 1
    BY <1>3 DEF OutOfRange
  <2>2. refused' # 0 /\ refused' \in Nat
    BY <2>1
  <2> QED BY <2>2 DEF Undisturbed
<1>4. ASSUME UNCHANGED <<refused, broken>>, hasty => hasty'
      PROVE  refused' \in Nat /\ (Undisturbed' => Undisturbed)
  BY <1>4 DEF Undisturbed
<1>5. ASSUME NEW c \in Clients, ClientStep(c) \/ \E op \in Ops : Call(c, op)
      PROVE  UNCHANGED <<refused, broken>> /\ (hasty => hasty')
  <2>1. CASE Backoff(c)
    <3>1. UNCHANGED <<refused, broken>> /\ hasty' = (hasty \/ \E s \in Sessions : Runnable(s))
      BY <2>1 DEF Backoff
    <3>2. hasty => hasty'
      BY <3>1, Zenon
    <3> QED BY <3>1, <3>2
  <2>2. CASE SendItem(c) \/ SendCommit(c) \/ Query(c) \/ Answered(c)
    BY <2>2 DEF SendItem, SendCommit, Query, Answered
  <2>3. CASE \E op \in Ops : Call(c, op)
    BY <2>3 DEF Call
  <2> QED BY <1>5, <2>1, <2>2, <2>3 DEF ClientStep
<1>6. ASSUME NEW s \in Sessions, ExecItem(s) \/ Commit(s) \/ DeadlockDetected(s) \/ Abandoned(s)
      PROVE  UNCHANGED <<refused, broken>> /\ (hasty => hasty')
  <2>1. CASE ExecItem(s) \/ Commit(s) \/ Abandoned(s)
    BY <2>1 DEF ExecItem, Commit, Abandoned
  <2>2. CASE DeadlockDetected(s)
    BY <2>2 DEF DeadlockDetected, Aborts
  <2> QED BY <1>6, <2>1, <2>2
<1>7. CASE UNCHANGED vars
  <2>1. UNCHANGED <<refused, broken, hasty>>
    BY <1>7 DEF vars
  <2>2. refused' \in Nat /\ (Undisturbed' => Undisturbed)
    BY <1>4, <2>1
  <2> QED BY <1>1, <1>2, <1>3, <2>2
<1>8. CASE Next
  <2>1. refused' \in Nat /\ (Undisturbed' => Undisturbed)
    BY <1>1, <1>2, <1>3, <1>4, <1>5, <1>6, <1>8 DEF Next, DatabaseStep
  <2> QED BY <1>1, <1>2, <1>3, <2>1
<1> QED BY <1>7, <1>8

(* Every step keeps the victims recovering.                                *)
LEMMA RecoverStep ==
    ASSUME Delays > 0
    PROVE  PostgresInv /\ RecoverInv /\ [Next]_vars => RecoverInv'
<1> SUFFICES ASSUME PostgresInv, RecoverInv, [Next]_vars PROVE RecoverInv'
  OBVIOUS
<1>0. refused \in Nat /\ HeldInv /\ (TwoBatches /\ Undisturbed => Recovering)
  BY DEF RecoverInv
<1>1. refused' \in Nat /\ HeldInv' /\ Kept
  BY <1>0, FaultsStay, HeldStep, StepKeeps
<1>2. ASSUME TwoBatches', Undisturbed' PROVE Recovering'
  <2>1. TwoBatches /\ Undisturbed /\ Recovering /\ ~hasty'
    BY <1>0, <1>1, <1>2, TwoBefore, FaultsStay DEF Undisturbed
  <2>2. ASSUME NEW c \in Clients, NEW op \in Ops, Call(c, op) PROVE Recovering'
    BY <2>1, <2>2, RecoverCall
  <2>3. ASSUME NEW c \in Clients, ClientStep(c) PROVE Recovering'
    BY <2>1, <2>3, RecoverBackoff, RecoverClient DEF ClientStep
  <2>4. ASSUME NEW c \in Clients, Refused(c) \/ Breaks(c) \/ Cancelled(c) \/ StreamBreaks(c)
        PROVE  Recovering'
    BY <1>0, <1>2, <2>4, FaultsStay
  <2>5. ASSUME NEW s \in Sessions, DatabaseStep(s) PROVE Recovering'
    <3>1. CASE ExecItem(s) \/ Commit(s)
      BY <2>1, <3>1, RecoverWork
    <3>2. CASE OutOfRange(s)
      BY <1>0, <1>2, <3>2, FaultsStay
    <3>3. CASE DeadlockDetected(s)
      BY <1>0, <2>1, <3>3, RecoverDeadlock
    <3>4. CASE Abandoned(s)
      BY <2>1, <3>4 DEF Abandoned, Recovering
    <3> QED BY <2>5, <3>1, <3>2, <3>3, <3>4 DEF DatabaseStep
  <2>6. CASE UNCHANGED vars
    <3>1. UNCHANGED <<session, call, lock>>
      BY <2>6 DEF vars, dbVars
    <3>2. \A c, d \in Clients : LetThrough(c, d) => LetThrough(c, d)'
      BY <3>1, StaysThrough
    <3> QED BY <2>1, <3>1, <3>2 DEF Recovering, Victim, Batch
  <2> QED BY <2>2, <2>3, <2>4, <2>5, <2>6 DEF Next
<1> QED BY <1>1, <1>2 DEF RecoverInv

(* Nothing has happened yet.                                               *)
LEMMA RecoverInit == Init => RecoverInv
<1> SUFFICES ASSUME Init PROVE RecoverInv
  OBVIOUS
<1>1. /\ refused = 0 /\ \A s \in Sessions : session[s] = NoSession
      /\ \A c \in Clients : call[c] = NoCall
  BY DEF Init
<1>2. ASSUME NEW s \in Sessions PROVE ~Live(s) /\ ~session[s].lost
  BY <1>1 DEF Live, LiveIn, NoSession
<1>3. ASSUME NEW c \in Clients PROVE call[c].pc # "error" /\ ~Victim(c)
  BY <1>1 DEF NoCall, Victim
<1> QED BY <1>1, <1>2, <1>3 DEF RecoverInv, HeldInv, Recovering

(* No faults counted means that there were none.                           *)
LEMMA NoFaults ==
    ASSUME IsFiniteSet(Clients), PostgresInv, refused \in Nat, Faults = 0
    PROVE  refused = 0 /\ \A c \in Clients : broken[c] = 0
<1>1. broken \in [Clients -> Nat]
  BY DEF PostgresInv, Types
<1> DEFINE sum == FoldFunction(+, 0, broken)
<1>2. sum \in Nat /\ (sum = 0 => \A c \in Clients : broken[c] = 0)
  BY <1>1, ZeroSum
<1>3. refused + sum = 0
  BY DEF Faults
<1> HIDE DEF sum
<1> QED BY <1>2, <1>3

(* Deadlocks cost a retry and no call: as long as no more than two batches *)
(* have been called and none of them writes more than two rows, no call    *)
(* fails for a deadlock, however many single statements and reads run      *)
(* beside them, if the delays of Retry are long enough for what the abort  *)
(* let through.  One delay is enough; DefaultBackoff has three.            *)
THEOREM VictimsRecover ==
    ASSUME IsFiniteSet(Clients), Delays > 0
    PROVE  Spec => [](TwoBatches => DeadlocksRecovered)
<1>1. Init => PostgresInv /\ RecoverInv
  BY PostgresInit, RecoverInit
<1>2. PostgresInv /\ RecoverInv /\ [Next]_vars => PostgresInv' /\ RecoverInv'
  BY PostgresStep, RecoverStep
<1>3. PostgresInv /\ RecoverInv => (TwoBatches => DeadlocksRecovered)
  <2> SUFFICES ASSUME PostgresInv, RecoverInv, TwoBatches, Faults = 0, ~hasty, NEW c \in Clients
               PROVE  call[c].pc # "error"
    BY DEF DeadlocksRecovered
  <2>1. Undisturbed
    BY NoFaults DEF RecoverInv, Undisturbed
  <2> QED BY <2>1 DEF RecoverInv, Recovering
<1> QED BY <1>1, <1>2, <1>3, PTL DEF Spec

(* What the database does about any deadlock, of any number of calls: the  *)
(* victim is a batch that holds rows, never a single statement, and its    *)
(* abort lets another transaction that was waiting go on.                  *)
THEOREM AbortsLetThrough ==
    Spec => [][\A s \in Sessions : DeadlockDetected(s) =>
                 /\ Op(s).kind = "UpdateMany"
                 /\ \E t \in Waiting : t # s /\ Runnable(t)']_vars
<1>1. Spec => [](PostgresInv /\ HeldInv)
  <2>1. Init => HeldInv
    BY RecoverInit DEF RecoverInv
  <2>2. PostgresInv /\ HeldInv /\ [Next]_vars => HeldInv'
    BY HeldStep
  <2> QED BY <2>1, <2>2, PostgresInvariant, PTL DEF Spec
<1>2. ASSUME PostgresInv, HeldInv, [Next]_vars, NEW s \in Sessions, DeadlockDetected(s)
      PROVE  Op(s).kind = "UpdateMany" /\ \E t \in Waiting : t # s /\ Runnable(t)'
  <2>1. PICK ring \in SUBSET Waiting : s \in ring /\ {lock[Item(w).id] : w \in ring} = ring
    BY <1>2 DEF DeadlockDetected, InCycle
  <2>2. PICK t \in ring : lock[Item(t).id] = s
    BY <2>1
  <2>3. /\ t \in Sessions /\ session[t].phase = "exec" /\ Live(t) /\ t # s
        /\ Item(t).id \in Names /\ lock[Item(t).id] # Nil
    BY <1>2, <2>1, <2>2, WaitingFacts
  <2>4. Op(s).kind = "UpdateMany"
    BY <1>2, <2>2, <2>3, Holder DEF AutoCommit
  <2>5. Types /\ Kept /\ session' = [session EXCEPT ![s] = Ended] /\ Release(s)
    BY <1>2, StepKeeps DEF DeadlockDetected, Aborts, Rollback, PostgresInv
  <2>6. session'[t] = session[t] /\ lock'[Item(t).id] = Nil
    BY <2>2, <2>3, <2>5 DEF Types, Release
  <2>7. Op(t)' = Op(t)
    BY <1>2, <2>3, <2>5, OpKept
  <2>8. Item(t)' = Item(t)
    BY <2>6, <2>7 DEF Item
  <2>9. Runnable(t)'
    BY <2>3, <2>6, <2>8 DEF Runnable, Locked
  <2> QED BY <2>1, <2>3, <2>4, <2>9
<1>3. PostgresInv /\ HeldInv /\ [Next]_vars =>
        [\A s \in Sessions : DeadlockDetected(s) =>
           /\ Op(s).kind = "UpdateMany"
           /\ \E t \in Waiting : t # s /\ Runnable(t)']_vars
  BY <1>2
<1> QED BY <1>1, <1>3, PTL DEF Spec

-----------------------------------------------------------------------------
(* The attempt a call waits for is one whose end it will hear of.          *)
Heard(c) == session[Current(c)].phase \in LiveIn \cup {"answering"} /\ ~session[Current(c)].lost

HeardInv == \A c \in Clients : call[c].pc = "trying" => Heard(c)

(* A step of one session and its call.                                     *)
LEMMA HeardAfter ==
    ASSUME Types, HeardInv, NEW s \in Sessions, NEW q, Sets(s, q),
           \A d \in Clients \ {s[1]} : call'[d] = call[d],
           call'[s[1]].pc = "trying" =>
             \/ s[2] = call'[s[1]].try /\ q.phase \in LiveIn \cup {"answering"} /\ ~q.lost
             \/ call'[s[1]] = call[s[1]] /\ s # Current(s[1])
    PROVE  HeardInv'
<1> SUFFICES ASSUME NEW d \in Clients, call'[d].pc = "trying"
             PROVE  session'[Current(d)'].phase \in LiveIn \cup {"answering"}
                    /\ ~session'[Current(d)'].lost
  BY DEF HeardInv, Heard
<1>1. s = <<s[1], s[2]>>
  BY DEF Sessions
<1>2. CASE d = s[1] /\ s[2] = call'[s[1]].try /\ q.phase \in LiveIn \cup {"answering"} /\ ~q.lost
  <2>1. Current(d)' = s
    BY <1>1, <1>2 DEF Current
  <2>2. session'[s] = q
    BY DEF Sets
  <2> QED BY <1>2, <2>1, <2>2
<1>3. CASE call'[d] = call[d] /\ s # Current(d)
  <2>1. Current(d)' = Current(d) /\ Heard(d)
    BY <1>3 DEF Current, HeardInv
  <2>2. Current(d) \in Sessions
    BY CurrentFacts
  <2>3. session'[Current(d)] = session[Current(d)]
    BY <1>3, <2>2 DEF Sets
  <2> QED BY <2>1, <2>3 DEF Heard
<1>4. CASE d # s[1]
  <2>1. call'[d] = call[d] /\ s # Current(d)
    BY <1>1, <1>4 DEF Current
  <2> QED BY <1>3, <2>1
<1> QED BY <1>2, <1>3, <1>4

(* A step that ends the attempt.                                           *)
LEMMA HeardEnd ==
    ASSUME Types, HeardInv, NEW c \in Clients, NEW p, Puts(c, p), p.pc # "trying",
           NEW s \in Sessions, s[1] = c, NEW q, Sets(s, q)
    PROVE  HeardInv'
<1>1. call'[c] = p /\ \A d \in Clients \ {c} : call'[d] = call[d]
  BY DEF Puts
<1> QED BY <1>1, HeardAfter

(* Calls begin with a session of their own.                                *)
LEMMA HeardCall ==
    ASSUME PostgresInv, HeardInv, NEW c \in Clients, NEW op \in Ops, Call(c, op)
    PROVE  HeardInv'
<1> DEFINE s == <<c, 0>>
           new == [NoCall EXCEPT !.pc = "trying", !.op = op, !.since = Len(log)]
<1>1. Types /\ s \in Sessions /\ s[1] = c /\ s[2] = 0
  BY PostgresAssumption DEF PostgresInv, Sessions
<1>2. CASE call' = [call EXCEPT ![c] = [new EXCEPT !.pc = "ok"]] /\ UNCHANGED session
  <2> DEFINE p == [new EXCEPT !.pc = "ok"]
  <2>1. p.pc = "ok"
    BY DEF NoCall
  <2>2. call' = [call EXCEPT ![c] = p]
    BY <1>2
  <2> HIDE DEF p, s
  <2>3. Puts(c, p) /\ Sets(s, session[s])
    BY <1>1, <1>2, <2>2, CallForms, SessionForms
  <2> QED BY <1>1, <2>1, <2>3, HeardEnd
<1>3. CASE call' = [call EXCEPT ![c] = new] /\ session' = [session EXCEPT ![s] = Opened]
  <2>1. new.try = 0
    BY DEF NoCall
  <2> HIDE DEF s, new
  <2>2. Puts(c, new) /\ Sets(s, Opened)
    BY <1>1, <1>3, CallForms, SessionForms
  <2>3. call'[c] = new /\ \A d \in Clients \ {c} : call'[d] = call[d]
    BY <2>2 DEF Puts
  <2>4. Opened.phase = "ready" /\ ~Opened.lost
    BY DEF Opened, NoSession
  <2>5. Opened.phase \in LiveIn \cup {"answering"} /\ s[2] = call'[s[1]].try
    BY <1>1, <2>1, <2>3, <2>4 DEF LiveIn
  <2> QED BY <1>1, <2>2, <2>3, <2>4, <2>5, HeardAfter
<1> QED BY <1>2, <1>3 DEF Call

(* What a client does by itself.                                           *)
LEMMA HeardClient ==
    ASSUME PostgresInv, HeardInv, NEW c \in Clients, ClientStep(c)
    PROVE  HeardInv'
<1> DEFINE s == Current(c)
<1>0. Types /\ s \in Sessions /\ s[1] = c /\ s[2] = call[c].try
  BY CurrentFacts DEF PostgresInv, Current
<1>1. CASE Backoff(c)
  <2> DEFINE n == <<c, call[c].try + 1>>
             p == CallWith(c, "trying", call[c].try + 1, call[c].result)
  <2>1. /\ call[c].pc = "backoff" /\ session' = [session EXCEPT ![n] = Opened]
        /\ call' = [call EXCEPT ![c].pc = "trying", ![c].try = @ + 1]
    BY <1>1 DEF Backoff
  <2>2. Puts(c, p)
    BY <1>0, <2>1, CallForms
  <2>4. n \in Sessions /\ n[1] = c /\ n[2] = p.try
    <3>1. CallFits(call[c]) /\ Delays \in Nat
      BY <1>0, PostgresAssumption DEF Types
    <3>2. call[c].try + 1 \in 0 .. Delays
      BY <2>1, <3>1 DEF CallFits
    <3> QED BY <3>2 DEF Sessions, CallWith
  <2>5. Sets(n, Opened)
    BY <1>0, <2>1, <2>4, SessionForms
  <2> HIDE DEF n, p
  <2>6. Opened.phase \in LiveIn \cup {"answering"} /\ ~Opened.lost
    BY DEF Opened, NoSession, LiveIn
  <2>7. call'[c] = p /\ \A d \in Clients \ {c} : call'[d] = call[d]
    BY <2>2 DEF Puts
  <2> QED BY <1>0, <2>4, <2>5, <2>6, <2>7, HeardAfter
<1>2. CASE SendItem(c) \/ SendCommit(c) \/ Query(c)
  <2>1. UNCHANGED call /\ call[c].pc = "trying"
    BY <1>2 DEF SendItem, SendCommit, Query, Trying
  <2>2. ~session[s].lost
    BY <2>1 DEF HeardInv, Heard
  <2>3. \E x \in {"exec", "commit", "answering"} : \E r : Sets(s, SessionWith(s, x, r, session[s].lost))
    <3>1. CASE SendItem(c) \/ SendCommit(c)
      <4>1. PICK x \in {"exec", "commit"} : session' = [session EXCEPT ![s].phase = x]
        BY <3>1 DEF SendItem, SendCommit
      <4>2. Sets(s, SessionWith(s, x, session[s].result, session[s].lost))
        BY <1>0, <4>1, SessionForms
      <4> QED BY <4>2
    <3>2. CASE Query(c)
      <4> DEFINE r == Result(StoreOf(table), call[c].op)
      <4>1. session' = [session EXCEPT ![s].phase = "answering", ![s].result = r]
        BY <3>2 DEF Query
      <4> HIDE DEF r
      <4>2. Sets(s, SessionWith(s, "answering", r, session[s].lost))
        BY <1>0, <4>1, SessionForms
      <4> QED BY <4>2
    <3> QED BY <1>2, <3>1, <3>2
  <2>4. PICK x, r : x \in {"exec", "commit", "answering"} /\ Sets(s, SessionWith(s, x, r, session[s].lost))
    BY <2>3
  <2> DEFINE q == SessionWith(s, x, r, session[s].lost)
  <2>5. Sets(s, q) /\ q.phase \in LiveIn \cup {"answering"} /\ ~q.lost
    BY <2>2, <2>4 DEF SessionWith, LiveIn
  <2> HIDE DEF q, s
  <2> QED BY <1>0, <2>1, <2>5, HeardAfter
<1>4. CASE Answered(c)
  <2> DEFINE p == CallWith(c, "ok", call[c].try, session[s].result)
  <2>1. session' = [session EXCEPT ![s] = Ended] /\ Finish(c, "ok", session[s].result)
    BY <1>4 DEF Answered
  <2>2. Sets(s, Ended) /\ Puts(c, p)
    BY <1>0, <2>1, SessionForms, CallForms
  <2>3. p.pc # "trying"
    BY DEF CallWith
  <2> HIDE DEF p, s
  <2> QED BY <1>0, <2>2, <2>3, HeardEnd
<1> QED BY <1>1, <1>2, <1>4 DEF ClientStep

(* A failure of the attempt ends it.                                       *)
LEMMA HeardFails ==
    ASSUME Types, HeardInv, NEW c \in Clients, NEW retryable, Fails(c, retryable),
           NEW s \in Sessions, s[1] = c, NEW q, Sets(s, q)
    PROVE  HeardInv'
<1> DEFINE e == CallWith(c, "error", call[c].try, Nil)
           b == CallWith(c, "backoff", call[c].try, call[c].result)
<1>1. Puts(c, e) \/ Puts(c, b)
  BY FailForms
<1>2. e.pc # "trying" /\ b.pc # "trying"
  BY DEF CallWith
<1> HIDE DEF e, b
<1> QED BY <1>1, <1>2, HeardEnd

(* Errors and broken connections.                                          *)
LEMMA HeardFault ==
    ASSUME PostgresInv, HeardInv, NEW c \in Clients,
           Refused(c) \/ Breaks(c) \/ Cancelled(c) \/ StreamBreaks(c)
    PROVE  HeardInv'
<1> DEFINE s == Current(c)
<1>0. Types /\ s \in Sessions /\ s[1] = c
  BY CurrentFacts DEF PostgresInv, Current
<1>1. CASE Refused(c)
  <2>1. session' = [session EXCEPT ![s] = Ended] /\ \E retryable \in BOOLEAN : Fails(c, retryable)
    BY <1>1 DEF Refused, Rollback
  <2>2. Sets(s, Ended)
    BY <1>0, <2>1, SessionForms
  <2> QED BY <1>0, <2>1, <2>2, HeardFails
<1>2. CASE Breaks(c)
  <2>1. Loses(c) /\ \E retryable \in BOOLEAN : Fails(c, retryable)
    BY <1>2 DEF Breaks
  <2>2. \E q : Sets(s, q)
    BY <1>0, <2>1, SessionForms DEF Loses
  <2> QED BY <1>0, <2>1, <2>2, HeardFails
<1>3. CASE Cancelled(c)
  <2> DEFINE p == CallWith(c, "error", call[c].try, Nil)
  <2>1. Puts(c, p) /\ Sets(s, session[s])
    BY <1>0, <1>3, CallForms, SessionForms DEF Cancelled
  <2>2. p.pc # "trying"
    BY DEF CallWith
  <2> HIDE DEF p, s
  <2> QED BY <1>0, <2>1, <2>2, HeardEnd
<1>4. CASE StreamBreaks(c)
  <2>1. Loses(c) /\ \E r : Finish(c, "ok", r)
    BY <1>4 DEF StreamBreaks
  <2>2. PICK r : Finish(c, "ok", r)
    BY <2>1
  <2> DEFINE p == CallWith(c, "ok", call[c].try, r)
  <2>3. Puts(c, p) /\ \E q : Sets(s, q)
    BY <1>0, <2>1, <2>2, CallForms, SessionForms DEF Loses
  <2>4. p.pc # "trying"
    BY DEF CallWith
  <2> HIDE DEF p, s
  <2> QED BY <1>0, <2>3, <2>4, HeardEnd
<1> QED BY <1>1, <1>2, <1>3, <1>4

(* What the database does: it never gives up an attempt that is heard      *)
(* without saying so.                                                      *)
LEMMA HeardDatabase ==
    ASSUME PostgresInv, HeardInv, NEW s \in Sessions, DatabaseStep(s)
    PROVE  HeardInv'
<1> DEFINE c == s[1]
<1>0. Types /\ c \in Clients /\ s = <<c, s[2]>>
  BY DEF PostgresInv, Sessions
<1>1. s = Current(c) /\ call[c].pc = "trying" => ~session[s].lost /\ s[2] = call[c].try
  BY <1>0 DEF HeardInv, Heard, Current
<1>2. CASE ExecItem(s) \/ Commit(s)
  <2>1. UNCHANGED call
    BY <1>2, ExecForm, CommitForm
  <2>2. \E q : Sets(s, q) /\ q.phase \in {"ready", "answering"} /\ q.lost = session[s].lost
    <3>1. CASE Sets(s, SessionWith(s, "answering", session[s].result, session[s].lost))
      BY <3>1 DEF SessionWith
    <3>2. CASE ExecItem(s) /\ ~AutoCommit(s)
      <4>1. PICK row :
              Sets(s, [phase |-> "ready", done |-> session[s].done + 1,
                       pending |-> [session[s].pending EXCEPT ![Item(s).id] = row],
                       result |-> session[s].result, lost |-> session[s].lost])
        BY <3>2, ExecForm
      <4> QED BY <4>1
    <3> QED BY <1>2, <3>1, <3>2, ExecForm, CommitForm
  <2>3. PICK q : Sets(s, q) /\ q.phase \in {"ready", "answering"} /\ q.lost = session[s].lost
    BY <2>2
  <2>4. q.phase \in LiveIn \cup {"answering"}
    BY <2>3 DEF LiveIn
  <2> QED BY <1>0, <1>1, <2>1, <2>3, <2>4, HeardAfter
<1>3. CASE OutOfRange(s) \/ DeadlockDetected(s) \/ Abandoned(s)
  <2>1. /\ session' = [session EXCEPT ![s] = Ended]
        /\ (session[s].lost /\ UNCHANGED call) \/ \E retryable \in BOOLEAN : Fails(c, retryable)
    BY <1>3 DEF OutOfRange, DeadlockDetected, Abandoned, Aborts, Rollback
  <2>2. Sets(s, Ended)
    BY <1>0, <2>1, SessionForms
  <2>3. CASE session[s].lost /\ UNCHANGED call
    BY <1>0, <1>1, <2>2, <2>3, HeardAfter
  <2>4. CASE \E retryable \in BOOLEAN : Fails(c, retryable)
    BY <1>0, <2>2, <2>4, HeardFails
  <2> QED BY <2>1, <2>3, <2>4
<1> QED BY <1>2, <1>3 DEF DatabaseStep

(* Every step keeps the calls in touch with their attempts.                *)
LEMMA HeardStep == PostgresInv /\ HeardInv /\ [Next]_vars => HeardInv'
<1> SUFFICES ASSUME PostgresInv, HeardInv, [Next]_vars PROVE HeardInv'
  OBVIOUS
<1>1. CASE UNCHANGED vars
  BY <1>1 DEF vars, HeardInv, Heard, Current
<1> QED BY <1>1, HeardCall, HeardClient, HeardFault, HeardDatabase DEF Next

-----------------------------------------------------------------------------
(* A session that has a step of its own to take; the others wait.          *)
CanMove(t) == session[t].phase \in {"ready", "commit", "answering"} \/ Runnable(t)

(* With a session, the one it waits for.                                   *)
Closed(chain) == \A t \in chain \cap Waiting : lock[Item(t).id] \in chain

(* A call that waits is not forgotten: whoever it waits for, directly or   *)
(* through others, there is one that has a step to take, or a deadlock     *)
(* that the database will see.                                             *)
NobodyStranded ==
    \A c \in Clients : call[c].pc = "trying" =>
        \A chain \in SUBSET Sessions : Current(c) \in chain /\ Closed(chain) =>
            \E t \in chain : CanMove(t) \/ (t \in Waiting /\ InCycle(t))

(* Finitely many sessions that all wait for one another contain a cycle.   *)
LEMMA WaitersCycle ==
    ASSUME NEW W \in SUBSET Waiting, IsFiniteSet(W), W # {}, Closed(W)
    PROVE  \E t \in W : InCycle(t)
<1> DEFINE D == {d \in SUBSET W : d # {} /\ Closed(d)}
           K == {Cardinality(d) : d \in D}
<1>1. \A d \in SUBSET W : IsFiniteSet(d) /\ Cardinality(d) \in Nat
  BY FS_Subset, FS_CardinalityType
<1>2. K \in SUBSET Nat /\ K # {}
  BY <1>1
<1>3. PICK m \in K : \A k \in K : m <= k
  BY <1>2, LeastNatural
<1>4. PICK d \in D : \A e \in D : Cardinality(d) <= Cardinality(e)
  BY <1>3
<1> DEFINE e == {lock[Item(t).id] : t \in d}
<1>5. e \in SUBSET d /\ e # {}
  BY <1>4 DEF Closed
<1>6. Closed(e)
  BY <1>5 DEF Closed
<1>7. e \in D
  BY <1>4, <1>5, <1>6
<1> HIDE DEF D, K, e
<1>8. d \in SUBSET W /\ d # {} /\ e \in SUBSET W
  BY <1>4, <1>7 DEF D
<1>9. Cardinality(d) <= Cardinality(e) /\ Cardinality(e) <= Cardinality(d)
  BY <1>1, <1>4, <1>5, <1>7, <1>8, FS_Subset
<1>10. d = e
  BY <1>1, <1>5, <1>8, <1>9, FS_Subset
<1> QED BY <1>8, <1>10 DEF InCycle, e

(* The argument: an attempt that is heard and cannot move waits, and so    *)
(* does the transaction it waits for.                                      *)
LEMMA StrandedNone ==
    ASSUME IsFiniteSet(Clients), PostgresInv, HeldInv, HeardInv
    PROVE  NobodyStranded
<1> SUFFICES ASSUME NEW c \in Clients, call[c].pc = "trying",
                    NEW chain \in SUBSET Sessions, Current(c) \in chain, Closed(chain),
                    \A t \in chain : ~CanMove(t)
             PROVE  \E t \in chain : t \in Waiting /\ InCycle(t)
  BY DEF NobodyStranded
<1> DEFINE W == chain \cap Waiting
<1>1. ASSUME NEW t \in chain, Live(t) PROVE t \in W
  <2>1. session[t].phase = "exec" /\ ~Locked(t, Item(t).id)
    BY <1>1 DEF CanMove, Runnable, Live, LiveIn
  <2> QED BY <1>1, <2>1 DEF Waiting
<1>2. Current(c) \in W
  <2>1. Live(Current(c))
    BY DEF HeardInv, Heard, CanMove, Live
  <2> QED BY <1>1, <2>1
<1>3. Closed(W)
  <2> SUFFICES ASSUME NEW t \in W PROVE lock[Item(t).id] \in W
    BY DEF Closed
  <2>1. lock[Item(t).id] \in chain
    BY DEF Closed
  <2>2. Item(t).id \in Names /\ lock[Item(t).id] # Nil
    BY WaitingFacts
  <2>3. Live(lock[Item(t).id])
    BY <2>2, Holder
  <2> QED BY <1>1, <2>1, <2>3
<1>4. IsFiniteSet(W)
  <2>1. IsFiniteSet(0 .. Delays)
    <3>1. 0 \in Int /\ Delays \in Int
      BY PostgresAssumption
    <3> QED BY <3>1, FS_Interval
  <2>2. IsFiniteSet(Sessions)
    BY <2>1, FS_Product DEF Sessions
  <2>3. W \in SUBSET Sessions
    OBVIOUS
  <2> QED BY <2>2, <2>3, FS_Subset
<1> HIDE DEF W
<1>5. \E t \in W : InCycle(t)
  <2>1. W \in SUBSET Waiting /\ W # {}
    BY <1>2 DEF W
  <2> QED BY <1>3, <1>4, <2>1, WaitersCycle
<1> QED BY <1>5 DEF W

(* The safety half of CallsReturn: no call is left waiting for nobody.     *)
(* An attempt that Retry waits for always has a session the database       *)
(* answers, and among those it waits for, directly or through others, one  *)
(* has a step to take or is in a cycle that DeadlockDetected breaks, for   *)
(* any number of calls, lost connections and rows left locked by them.     *)
THEOREM NobodyIsStranded ==
    ASSUME IsFiniteSet(Clients)
    PROVE  Spec => [](HeardInv /\ NobodyStranded)
<1>1. Init => HeldInv /\ HeardInv
  BY RecoverInit DEF RecoverInv, Init, HeardInv, NoCall
<1>2. PostgresInv /\ HeldInv /\ HeardInv /\ [Next]_vars => HeldInv' /\ HeardInv'
  BY HeldStep, HeardStep
<1>3. PostgresInv /\ HeldInv /\ HeardInv => NobodyStranded
  BY StrandedNone
<1> QED BY <1>1, <1>2, <1>3, PostgresInvariant, PTL DEF Spec
=============================================================================
