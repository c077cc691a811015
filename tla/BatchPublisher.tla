---------------------------- MODULE BatchPublisher ---------------------------
(***************************************************************************)
(* The agent's sender: the channel and worker goroutines of                *)
(* services/agent/sender.go, the HTTP client of publisher/httpjson and the *)
(* attempts of misc.Retry, against a server that stores what reaches it as *)
(* the memory repository does.  A report is a batch with its number.       *)
(*                                                                         *)
(* The network loses requests and answers: a connection breaks before or   *)
(* after the server has stored the payload, and a payload whose connection *)
(* broke may still be stored later.  The actions are composed by Agent.    *)
(***************************************************************************)
EXTENDS AgentContext, Metrics

CONSTANTS RateLimits,   \* the values cfg.RateLimit may have
          Delays,       \* len(DefaultBackoff)
          MaxReports,   \* bounds the reports
          MaxFailures   \* bounds broken connections and refused requests, by rate limit

ASSUME PublisherAssumption ==
    /\ RateLimits \subseteq Int /\ MaxFailures \in [RateLimits -> Nat]
    /\ {Delays, MaxReports} \subseteq Nat

VARIABLES rateLimit, \* cfg.RateLimit
          jobs,      \* the channel of batches
          jobsOpen,
          worker,    \* where each worker is
          server,    \* the server's repository
          limbo,     \* payloads on broken connections
          broken,    \* connections that broke
          refused,   \* requests the server refused
          stored,    \* history: how often each metric of each report was stored
          handled    \* history: the reports the workers are done with

queueVars == <<jobs, jobsOpen, handled>>
remoteVars == <<server, limbo, stored>>
publisherVars == <<rateLimit, queueVars, worker, remoteVars, broken, refused>>

(* NewBatchPublisher: the workers it starts, and the room in the channel.  *)
Started(limit) == 1 .. IF limit < 1 THEN 1 ELSE limit

JobsCap == 2 * Cardinality(Started(rateLimit))

Workers == UNION {Started(limit) : limit \in RateLimits}

NoReport == [id |-> 0, items |-> << >>]

Idle == [pc |-> "idle", report |-> NoReport, one |-> 0, try |-> 0]

Exited == [Idle EXCEPT !.pc = "exited"]

Failures == broken + refused

PublisherInit ==
    /\ jobs = << >> /\ jobsOpen = TRUE /\ handled = {}
    /\ rateLimit \in RateLimits
    /\ worker = [w \in Workers |-> IF w \in Started(rateLimit) THEN Idle ELSE Exited]
    /\ server = EmptyStore /\ limbo = {}
    /\ stored = [r \in 1 .. MaxReports |-> [n \in Names |-> 0]]
    /\ broken = 0 /\ refused = 0

-----------------------------------------------------------------------------
(* Submit, once the channel has room.                                      *)
Submit(report) ==
    /\ Len(jobs) < JobsCap
    /\ jobs' = Append(jobs, report)
    /\ UNCHANGED <<rateLimit, jobsOpen, handled, worker, remoteVars, broken, refused>>

(* Stop up to wg.Wait, and the condition Wait waits for.  Faulty variant:  *)
(* Wait returns at once.                                                   *)
CloseJobs ==
    /\ jobsOpen' = FALSE
    /\ UNCHANGED <<rateLimit, jobs, handled, worker, remoteVars, broken, refused>>

WorkersGoneUnawaited == TRUE

WorkersGone == \A w \in Workers : worker[w].pc = "exited"

(* Faulty variant of Take: the newest batch first.                         *)
TakeNewest(w) ==
    /\ worker[w].pc = "idle" /\ jobs # << >>
    /\ jobs' = Front(jobs)
    /\ worker' = [worker EXCEPT ![w] = [Idle EXCEPT !.pc = "do", !.report = Last(jobs)]]
    /\ UNCHANGED <<rateLimit, jobsOpen, handled, remoteVars, broken, refused>>

(* Faulty variant of Take: a worker leaves when the context is cancelled.  *)
TakeUnlessDone(w) ==
    /\ worker[w].pc = "idle" /\ (ctxDone \/ jobs # << >>)
    /\ jobs' = IF ctxDone THEN jobs ELSE Tail(jobs)
    /\ worker' = [worker EXCEPT ![w] = IF ctxDone THEN Exited
                                       ELSE [Idle EXCEPT !.pc = "do", !.report = Head(jobs)]]
    /\ UNCHANGED <<rateLimit, jobsOpen, handled, remoteVars, broken, refused>>

(* The loop over the channel.  Batches are never empty: Agent sees to it.  *)
Take(w) ==
    /\ worker[w].pc = "idle" /\ jobs # << >>
    /\ jobs' = Tail(jobs)
    /\ worker' = [worker EXCEPT ![w] = [Idle EXCEPT !.pc = "do", !.report = Head(jobs)]]
    /\ UNCHANGED <<rateLimit, jobsOpen, handled, remoteVars, broken, refused>>

WorkerExits(w) ==
    /\ worker[w].pc = "idle" /\ jobs = << >> /\ ~jobsOpen
    /\ worker' = [worker EXCEPT ![w].pc = "exited"]
    /\ UNCHANGED <<rateLimit, queueVars, remoteVars, broken, refused>>

-----------------------------------------------------------------------------
(* SendBatch (one = 0) or SendOne of the metric at index one has returned: *)
(* a batch that failed is sent metric by metric, failures ignored.         *)
SendNext(w) ==
    [pc |-> "do", report |-> worker[w].report, one |-> worker[w].one + 1, try |-> 0]

LastOne(w) == worker[w].one = Len(worker[w].report.items)

(* Faulty variants of After: the fallback runs after a success too, not at *)
(* all, or ends the worker.                                                *)
AfterAlwaysFallback(w, ok) == IF LastOne(w) THEN Idle ELSE SendNext(w)

AfterNoFallback(w, ok) == Idle

AfterGivingUp(w, ok) == IF ok THEN Idle ELSE Exited

After(w, ok) ==
    IF (worker[w].one = 0 /\ ok) \/ LastOne(w) THEN Idle ELSE SendNext(w)

Return(w, ok) ==
    /\ worker' = [worker EXCEPT ![w] = After(w, ok)]
    /\ handled' = IF After(w, ok).pc = "do" THEN handled ELSE handled \cup {worker[w].report.id}

(* Retry after the operation failed.                                       *)
Fails(w, retryable) ==
    IF ctxDone \/ worker[w].try >= Delays \/ ~retryable
    THEN Return(w, FALSE)
    ELSE worker' = [worker EXCEPT ![w].pc = "backoff"] /\ UNCHANGED handled

(* The timer of Retry, or the end of the context.                          *)
Backoff(w) ==
    /\ worker[w].pc = "backoff"
    /\ \/ ctxDone /\ Return(w, FALSE)
       \/ /\ worker' = [worker EXCEPT ![w].pc = "do", ![w].try = @ + 1]
          /\ UNCHANGED handled
    /\ UNCHANGED <<rateLimit, jobs, jobsOpen, remoteVars, broken, refused>>

(* hc.Do: nothing leaves the agent once the context is cancelled.          *)
Do(w) ==
    /\ worker[w].pc = "do"
    /\ IF ctxDone
       THEN Fails(w, FALSE)
       ELSE worker' = [worker EXCEPT ![w].pc = "sent"] /\ UNCHANGED handled
    /\ UNCHANGED <<rateLimit, jobs, jobsOpen, remoteVars, broken, refused>>

-----------------------------------------------------------------------------
Payload(q) == IF q.one = 0 THEN q.report.items ELSE <<q.report.items[q.one]>>

(* The server stores the payload of request q.                             *)
StorePayload(q) ==
    /\ server' = UpdateMany(server, Payload(q))
    /\ stored' = [stored EXCEPT ![q.report.id] =
                    [n \in Names |-> @[n] + IF \E i \in DOMAIN Payload(q) : Payload(q)[i].id = n
                                            THEN 1 ELSE 0]]

Arrives(w) ==
    /\ worker[w].pc = "sent"
    /\ StorePayload(worker[w])
    /\ worker' = [worker EXCEPT ![w].pc = "stored"]
    /\ UNCHANGED <<rateLimit, queueVars, limbo, broken, refused>>

(* 200                                                                     *)
Answered(w) ==
    /\ worker[w].pc = "stored"
    /\ Return(w, TRUE)
    /\ UNCHANGED <<rateLimit, jobs, jobsOpen, remoteVars, broken, refused>>

(* Any other status: Do succeeded, so Retry is over; checkHTTPStatus makes *)
(* it an error.                                                            *)
Refused(w) ==
    /\ worker[w].pc = "sent" /\ Failures < MaxFailures[rateLimit]
    /\ refused' = refused + 1
    /\ Return(w, FALSE)
    /\ UNCHANGED <<rateLimit, jobs, jobsOpen, remoteVars, broken>>

(* A request without an answer may still reach the server.                 *)
MayLinger(w) == limbo' = limbo \/ (worker[w].pc = "sent" /\ limbo' = limbo \cup {worker[w]})

(* The connection breaks; isRetryableHTTP depends on how.                  *)
Breaks(w) ==
    /\ worker[w].pc \in {"sent", "stored"} /\ Failures < MaxFailures[rateLimit]
    /\ broken' = broken + 1
    /\ MayLinger(w)
    /\ \E retryable \in BOOLEAN : Fails(w, retryable)
    /\ UNCHANGED <<rateLimit, jobs, jobsOpen, server, stored, refused>>

(* A cancelled context ends a request that waits for its answer.           *)
Cancelled(w) ==
    /\ worker[w].pc \in {"sent", "stored"} /\ ctxDone
    /\ MayLinger(w)
    /\ Fails(w, FALSE)
    /\ UNCHANGED <<rateLimit, jobs, jobsOpen, server, stored, broken, refused>>

ArrivesLate ==
    \E q \in limbo :
        /\ StorePayload(q)
        /\ limbo' = limbo \ {q}
        /\ UNCHANGED <<rateLimit, queueVars, worker, broken, refused>>

(* What a worker does by itself, and what it needs the server for.         *)
WorkerStep(w) == Take(w) \/ WorkerExits(w) \/ Do(w) \/ Backoff(w) \/ Cancelled(w)

ServerStep(w) == Arrives(w) \/ Answered(w)
=============================================================================
