---------------------------- MODULE PostgresRepo -----------------------------
(***************************************************************************)
(* The Postgres repository (adapters/repository/postgres): every call is a *)
(* loop of misc.Retry around one statement or, for UpdateMany, around one  *)
(* transaction that upserts the batch item by item.                        *)
(*                                                                         *)
(* The database is external: it locks a row from the first upsert to the   *)
(* end of the transaction, breaks cycles of waiting transactions by        *)
(* aborting one, and goes on with what it was sent when the connection     *)
(* breaks.  Each client makes one call; each of its attempts is a session. *)
(***************************************************************************)
EXTENDS RepoPort

CONSTANTS Delays,    \* len(DefaultBackoff)
          MaxFaults  \* bounds broken connections, cancellations and SQL errors

Sessions == Clients \X (0 .. Delays)

(* migrations/0001: one row per id; no row is Nil.                         *)
Rows == [mtype : {"gauge", "counter"}, value : Values \cup {Nil}, delta : Int64 \cup {Nil}]

ASSUME PostgresAssumption == {Delays, MaxFaults} \subseteq Nat /\ Nil \notin Rows \cup Sessions

VARIABLES table,    \* the rows of metrics that are committed
          lock,     \* the session that holds the lock of each row
          session,
          call,
          broken,   \* how often a call lost its connection before the answer
          refused,  \* SQL errors so far
          hasty,    \* history: a retry overtook a statement that could run
          log       \* history: the calls whose writes committed, in that order

dbVars == <<table, lock, log>>
vars == <<dbVars, session, call, broken, refused, hasty>>

NoRows == [n \in Names |-> Nil]

NoSession == [phase |-> "none", done |-> 0, pending |-> NoRows, result |-> Nil, lost |-> FALSE]

Opened == [NoSession EXCEPT !.phase = "ready"]

Ended == [NoSession EXCEPT !.phase = "ended"]

NoCall == [pc |-> "idle", op |-> Nil, try |-> 0, result |-> Nil, since |-> 0]

Init ==
    /\ table = NoRows /\ log = << >>
    /\ lock = [n \in Names |-> Nil]
    /\ session = [s \in Sessions |-> NoSession]
    /\ call = [c \in Clients |-> NoCall]
    /\ broken = [c \in Clients |-> 0] /\ refused = 0 /\ hasty = FALSE

Faults == refused + FoldFunction(+, 0, broken)

Current(c) == <<c, call[c].try>>

Op(s) == call[s[1]].op

Item(s) == Op(s).items[session[s].done + 1]

(* A single statement commits by itself; UpdateMany says when.             *)
AutoCommit(s) == Op(s).kind # "UpdateMany"

AllSent(s) == session[s].done = Len(Op(s).items)

-----------------------------------------------------------------------------
(* INSERT ... ON CONFLICT (id) DO UPDATE.  The row changes its type, and a *)
(* counter starts from zero where there was no delta.                      *)
OldDelta(row) == IF row = Nil \/ row.delta = Nil THEN 0 ELSE row.delta

(* Faulty variant of Upsert: the counter becomes EXCLUDED.delta.           *)
UpsertReplacing(row, m) ==
    IF m.mtype = "gauge"
    THEN [mtype |-> "gauge", value |-> m.value, delta |-> Nil]
    ELSE [mtype |-> "counter", value |-> Nil, delta |-> m.delta]

Upsert(row, m) ==
    IF m.mtype = "gauge"
    THEN [mtype |-> "gauge", value |-> m.value, delta |-> Nil]
    ELSE [mtype |-> "counter", value |-> Nil, delta |-> OldDelta(row) + m.delta]

(* BIGINT does not wrap: the statement fails.                              *)
Fits(row, m) == m.mtype = "counter" => OldDelta(row) + m.delta \in Int64

(* What SELECT ... WHERE mtype gives back for each type.                   *)
StoreOf(rows) ==
    [gauges   |-> [n \in Names |-> IF rows[n] # Nil /\ rows[n].mtype = "gauge"
                                   THEN rows[n].value ELSE Nil],
     counters |-> [n \in Names |-> IF rows[n] # Nil /\ rows[n].mtype = "counter"
                                   THEN rows[n].delta ELSE Nil]]

(* The row a statement of session s finds: its own version or, once it has *)
(* the lock, the committed one.                                            *)
RowSeen(s, n) == IF session[s].pending[n] # Nil THEN session[s].pending[n] ELSE table[n]

Locked(s, n) == lock[n] \in {Nil, s}

Overlay(rows, pending) == [n \in Names |-> IF pending[n] # Nil THEN pending[n] ELSE rows[n]]

Release(s) == lock' = [n \in Names |-> IF lock[n] = s THEN Nil ELSE lock[n]]

(* The session ends and nothing of it remains.                             *)
Rollback(s) == session' = [session EXCEPT ![s] = Ended] /\ Release(s) /\ UNCHANGED <<table, log>>

-----------------------------------------------------------------------------
Finish(c, how, result) == call' = [call EXCEPT ![c].pc = how, ![c].result = result]

(* Faulty variant of Fails: BeginTx was called once, outside the attempt,  *)
(* so a retry runs in a transaction that has been aborted.                 *)
FailsForGood(c, retryable) == Finish(c, "error", Nil)

(* Retry when an attempt has failed.                                       *)
Fails(c, retryable) ==
    IF call[c].try >= Delays \/ ~retryable
    THEN Finish(c, "error", Nil)
    ELSE call' = [call EXCEPT ![c].pc = "backoff"]

(* A call starts with its first attempt.  An empty batch returns at once.  *)
Call(c, op) ==
    /\ call[c].pc = "idle"
    /\ LET new == [NoCall EXCEPT !.pc = "trying", !.op = op, !.since = Len(log)]
       IN  IF op.kind = "UpdateMany" /\ op.items = << >>
           THEN call' = [call EXCEPT ![c] = [new EXCEPT !.pc = "ok"]] /\ UNCHANGED session
           ELSE /\ call' = [call EXCEPT ![c] = new]
                /\ session' = [session EXCEPT ![<<c, 0>>] = Opened]
    /\ UNCHANGED <<dbVars, broken, refused, hasty>>

(* The timer of Retry fires.                                               *)
Runnable(s) == session[s].phase = "exec" /\ Locked(s, Item(s).id)

Backoff(c) ==
    /\ call[c].pc = "backoff"
    /\ hasty' = (hasty \/ \E s \in Sessions : Runnable(s))
    /\ call' = [call EXCEPT ![c].pc = "trying", ![c].try = @ + 1]
    /\ session' = [session EXCEPT ![<<c, call[c].try + 1>>] = Opened]
    /\ UNCHANGED <<dbVars, broken, refused>>

Trying(c, phases) == call[c].pc = "trying" /\ session[Current(c)].phase \in phases

(* ExecContext sends the upsert of the next item.                          *)
SendItem(c) ==
    /\ Trying(c, {"ready"}) /\ IsWrite(call[c].op) /\ ~AllSent(Current(c))
    /\ session' = [session EXCEPT ![Current(c)].phase = "exec"]
    /\ UNCHANGED <<dbVars, call, broken, refused, hasty>>

(* Faulty variant of SendCommit: neither Commit nor Rollback is called.    *)
SendCommitForgotten(c) ==
    /\ Trying(c, {"ready"}) /\ IsWrite(call[c].op) /\ AllSent(Current(c))
    /\ Finish(c, "ok", Nil)
    /\ UNCHANGED <<dbVars, session, broken, refused, hasty>>

(* tx.Commit                                                               *)
SendCommit(c) ==
    /\ Trying(c, {"ready"}) /\ IsWrite(call[c].op) /\ AllSent(Current(c))
    /\ session' = [session EXCEPT ![Current(c)].phase = "commit"]
    /\ UNCHANGED <<dbVars, call, broken, refused, hasty>>

(* Faulty variant of Query: Snapshot selects the gauges first and the      *)
(* counters later.                                                         *)
QueryTwice(c) ==
    /\ Trying(c, {"ready"}) /\ ~IsWrite(call[c].op)
    /\ LET now == StoreOf(table)
           half == session[Current(c)].result
       IN  session' = [session EXCEPT ![Current(c)] =
                         IF call[c].op.kind = "Snapshot" /\ half = Nil
                         THEN [@ EXCEPT !.result = [now EXCEPT !.counters = NoRows]]
                         ELSE [@ EXCEPT !.phase = "answering",
                                        !.result = IF half = Nil THEN Result(now, call[c].op)
                                                   ELSE [half EXCEPT !.counters = now.counters]]]
    /\ UNCHANGED <<dbVars, call, broken, refused, hasty>>

(* A SELECT sees what is committed when it starts.                         *)
Query(c) ==
    /\ Trying(c, {"ready"}) /\ ~IsWrite(call[c].op)
    /\ session' = [session EXCEPT ![Current(c)].phase = "answering",
                                  ![Current(c)].result = Result(StoreOf(table), call[c].op)]
    /\ UNCHANGED <<dbVars, call, broken, refused, hasty>>

(* Faulty variant of Answered: what the deferred Rollback returns, that    *)
(* the transaction has ended, becomes the result and is retried.           *)
AnsweredByRollback(c) ==
    /\ Trying(c, {"answering"})
    /\ Fails(c, IsWrite(call[c].op))
    /\ session' = [session EXCEPT ![Current(c)] = Ended]
    /\ UNCHANGED <<dbVars, broken, refused, hasty>>

(* The attempt succeeded; the deferred Rollback finds the transaction done. *)
Answered(c) ==
    /\ Trying(c, {"answering"})
    /\ Finish(c, "ok", session[Current(c)].result)
    /\ session' = [session EXCEPT ![Current(c)] = Ended]
    /\ UNCHANGED <<dbVars, broken, refused, hasty>>

-----------------------------------------------------------------------------
(* Faulty variant of ExecItem: db.ExecContext instead of tx.ExecContext,   *)
(* each item is a transaction of its own.                                  *)
ExecItemOutsideTx(s) ==
    /\ session[s].phase = "exec"
    /\ Locked(s, Item(s).id) /\ Fits(table[Item(s).id], Item(s))
    /\ table' = [table EXCEPT ![Item(s).id] = Upsert(@, Item(s))]
    /\ session' = [session EXCEPT ![s].phase = IF AutoCommit(s) THEN "answering" ELSE "ready",
                                  ![s].done = @ + 1]
    /\ log' = IF AutoCommit(s) \/ session[s].done + 1 = Len(Op(s).items) THEN Append(log, s[1]) ELSE log
    /\ UNCHANGED <<lock, call, broken, refused, hasty>>

(* The database executes an upsert, connected or not.                      *)
ExecItem(s) ==
    LET m == Item(s)
        row == Upsert(RowSeen(s, m.id), m)
    IN  /\ session[s].phase = "exec"
        /\ Locked(s, m.id) /\ Fits(RowSeen(s, m.id), m)
        /\ IF AutoCommit(s)
           THEN /\ table' = [table EXCEPT ![m.id] = row]
                /\ log' = Append(log, s[1])
                /\ session' = [session EXCEPT ![s].phase = "answering"]
                /\ UNCHANGED lock
           ELSE /\ lock' = [lock EXCEPT ![m.id] = s]
                /\ session' = [session EXCEPT ![s].phase = "ready", ![s].done = @ + 1,
                                              ![s].pending[m.id] = row]
                /\ UNCHANGED <<table, log>>
        /\ UNCHANGED <<call, broken, refused, hasty>>

Commit(s) ==
    /\ session[s].phase = "commit"
    /\ table' = Overlay(table, session[s].pending)
    /\ log' = Append(log, s[1])
    /\ Release(s)
    /\ session' = [session EXCEPT ![s].phase = "answering"]
    /\ UNCHANGED <<call, broken, refused, hasty>>

(* The database aborts s; the client, if it listens, sees error code.      *)
Aborts(s, retryable) ==
    /\ Rollback(s)
    /\ IF session[s].lost THEN UNCHANGED call ELSE Fails(s[1], retryable)
    /\ UNCHANGED <<broken, hasty>>

(* 22003, which isRetryablePGCode refuses.                                 *)
OutOfRange(s) ==
    /\ session[s].phase = "exec"
    /\ Locked(s, Item(s).id) /\ ~Fits(RowSeen(s, Item(s).id), Item(s))
    /\ refused' = refused + 1
    /\ Aborts(s, FALSE)

Waiting == {s \in Sessions : session[s].phase = "exec" /\ ~Locked(s, Item(s).id)}

(* Each waits for one holder, so sessions that wait for exactly each other *)
(* are on cycles.                                                          *)
InCycle(s) ==
    \E ring \in SUBSET Waiting : s \in ring /\ {lock[Item(t).id] : t \in ring} = ring

(* 40P01, which is retryable.                                              *)
DeadlockDetected(s) ==
    /\ s \in Waiting /\ InCycle(s)
    /\ Aborts(s, TRUE)
    /\ UNCHANGED refused

(* Any other SQL error: the attempt failed for certain.                    *)
Refused(c) ==
    /\ Trying(c, {"ready", "exec", "commit"}) /\ Faults < MaxFaults
    /\ refused' = refused + 1
    /\ Rollback(Current(c))
    /\ \E retryable \in BOOLEAN : Fails(c, retryable)
    /\ UNCHANGED <<broken, hasty>>

-----------------------------------------------------------------------------
(* The connection breaks, or the context of the request ends, before the   *)
(* answer: the session is on its own.  A context that ended during the     *)
(* backoff ends the call too.                                              *)
Loses(c) ==
    /\ session' = [session EXCEPT ![Current(c)].lost = TRUE]
    /\ broken' = [broken EXCEPT ![c] = @ + 1]

Breaks(c) ==
    /\ Trying(c, {"ready", "exec", "commit", "answering"}) /\ Faults < MaxFaults
    /\ Loses(c)
    /\ \E retryable \in BOOLEAN : Fails(c, retryable)
    /\ UNCHANGED <<dbVars, refused, hasty>>

Cancelled(c) ==
    /\ call[c].pc = "backoff" /\ Faults < MaxFaults
    /\ Finish(c, "error", Nil)
    /\ refused' = refused + 1
    /\ UNCHANGED <<dbVars, session, broken, hasty>>

(* rows.Next stops when the connection breaks in the middle of the rows;   *)
(* Snapshot does not ask rows.Err and returns what it has without error.   *)
Truncated(s, names) ==
    [gauges   |-> [n \in Names |-> IF n \in names THEN s.gauges[n] ELSE Nil],
     counters |-> [n \in Names |-> IF n \in names THEN s.counters[n] ELSE Nil]]

StreamBreaks(c) ==
    /\ Trying(c, {"answering"}) /\ call[c].op.kind = "Snapshot" /\ Faults < MaxFaults
    /\ Loses(c)
    /\ \E names \in SUBSET Names :
           Finish(c, "ok", Truncated(session[Current(c)].result, names))
    /\ UNCHANGED <<dbVars, refused, hasty>>

(* The database notices that a connection is gone, or never got what was   *)
(* sent last.                                                              *)
Abandoned(s) ==
    /\ session[s].lost /\ session[s].phase \in {"ready", "exec", "commit", "answering"}
    /\ Rollback(s)
    /\ UNCHANGED <<call, broken, refused, hasty>>

-----------------------------------------------------------------------------
ClientStep(c) == Backoff(c) \/ SendItem(c) \/ SendCommit(c) \/ Query(c) \/ Answered(c)

DatabaseStep(s) ==
    ExecItem(s) \/ Commit(s) \/ OutOfRange(s) \/ DeadlockDetected(s) \/ Abandoned(s)

Next ==
    \/ \E c \in Clients : \/ \E op \in Ops : Call(c, op)
                          \/ ClientStep(c)
                          \/ Refused(c) \/ Breaks(c) \/ Cancelled(c) \/ StreamBreaks(c)
    \/ \E s \in Sessions : DatabaseStep(s)

Spec == Init /\ [][Next]_vars

(* Goroutines run, timers fire and the database answers; nobody has to     *)
(* call, and nothing has to break.                                         *)
FairSpec == /\ Spec
            /\ \A c \in Clients : WF_vars(ClientStep(c))
            /\ \A s \in Sessions : WF_vars(DatabaseStep(s))

-----------------------------------------------------------------------------
(* The rows after the first k items of a call have been applied to rows.   *)
PutItem(rows, m) == [rows EXCEPT ![m.id] = Upsert(@, m)]

RowsAfter(rows, items, k) ==
    LET after[i \in 0 .. Len(items)] ==
          IF i = 0 THEN rows ELSE PutItem(after[i-1], items[i])
    IN  after[k]

PutAll(rows, items) == RowsAfter(rows, items, Len(items))

(* The rows after the first k committed calls, each applied as a whole.    *)
Replay(k) ==
    LET whole[i \in 0 .. Len(log)] ==
          IF i = 0 THEN NoRows ELSE PutAll(whole[i-1], call[log[i]].op.items)
    IN  whole[k]

(* UpdateMany "atomically applies a batch": whatever deadlocks, errors and *)
(* broken connections intervene, the committed rows are those of whole     *)
(* calls applied one after the other; no increment of a concurrent call is *)
(* lost.                                                                   *)
CallsSerialize == table = Replay(Len(log))

Applied(c) == Cardinality({i \in DOMAIN log : log[i] = c})

(* What a write's answer says of the table: success means its items were   *)
(* stored, once unless a connection broke; an error means they were not,   *)
(* unless a connection broke.  Retry never repeats a write for any other   *)
(* reason.                                                                 *)
AppliedAsAnswered ==
    \A c \in Clients :
        /\ Applied(c) <= broken[c] + IF call[c].pc = "error" THEN 0 ELSE 1
        /\ call[c].pc = "ok" /\ IsWrite(call[c].op) /\ call[c].op.items # << >> => Applied(c) > 0

(* A read returns one committed state of the time between its call and its *)
(* return: never half a batch.  A Snapshot whose connection broke may miss *)
(* names, since nobody asks rows.Err, but what it has is of one such state *)
(* too; GetGauge and GetCounter are never cut.                             *)
ReadsCommitted ==
    \A c \in Clients :
        call[c].pc = "ok" /\ ~IsWrite(call[c].op) =>
            \E k \in call[c].since .. Len(log) :
                LET whole == Result(StoreOf(Replay(k)), call[c].op)
                IN  \/ call[c].result = whole
                    \/ /\ broken[c] > 0 /\ call[c].op.kind = "Snapshot"
                       /\ \E names \in SUBSET Names : call[c].result = Truncated(whole, names)

(* The database answers like the memory repository for every name that is  *)
(* used with one type only.  A name used with both shares a row here: the  *)
(* type written last hides the other, and a counter starts over.           *)
AnswersLikeMemory ==
    LET items == FlattenSeq([i \in DOMAIN log |-> call[log[i]].op.items])
        memory == UpdateMany(EmptyStore, items)
        here == StoreOf(table)
    IN  \A n \in Names :
            Cardinality({items[i].mtype : i \in {j \in DOMAIN items : items[j].id = n}}) <= 1 =>
                here.gauges[n] = memory.gauges[n] /\ here.counters[n] = memory.counters[n]

(* Two batches that lock the same two rows in opposite order deadlock at   *)
(* most once: when nothing else goes wrong the victim's retry succeeds.    *)
(* This rests on the delay: a victim that is back within it, before what   *)
(* its abort let through has run, may become the victim again.             *)
DeadlocksRecovered == Faults = 0 /\ ~hasty => \A c \in Clients : call[c].pc # "error"

(* Every call returns: no cycle of row locks, lost connection or aborted   *)
(* transaction keeps one waiting.                                          *)
CallsReturn == \A c \in Clients : call[c].pc = "trying" ~> call[c].pc \in {"ok", "error"}
=============================================================================
