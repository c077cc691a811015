-------------------------------- MODULE Agent --------------------------------
(***************************************************************************)
(* The agent process (services/agent, cmd/agent): Run starts the collector *)
(* and the workers, submits a snapshot at every tick of the report ticker, *)
(* and on SIGINT or SIGTERM stops the workers, then the collector.         *)
(***************************************************************************)
EXTENDS Collector, BatchPublisher

CONSTANT PollCount  \* the name of the collector's counter

ASSUME AgentAssumption ==
    /\ {RuntimeGauges, HostGauges} \subseteq Seq(Names) /\ PollCount \in Names \ Sampled
    /\ \A s \in Samplers : 1 .. MaxPolls[s] \subseteq Finite /\ MaxPolls[s] < HalfRange

VARIABLES run,      \* where Run is
          pending,  \* the report it is submitting
          reports   \* history: the reports built

agentVars == <<run, pending, reports>>
vars == <<agentVars, ctxDone, collectorVars, publisherVars>>

Init ==
    /\ ContextInit /\ CollectorInit /\ PublisherInit
    /\ run = "select" /\ pending = NoReport /\ reports = << >>

-----------------------------------------------------------------------------
(* The batches enqueueSnapshot may build: the gauges the collector has, in *)
(* the order the map yields them, then PollCount, once there is one.       *)
Batches(st) ==
    {gs \o (IF st.polls > 0 THEN <<Counter(PollCount, st.polls)>> ELSE << >>) :
        gs \in Orders({Gauge(g, st.gauges[g]) : g \in {x \in Sampled : st.gauges[x] > 0}})}

(* The report ticker: enqueueSnapshot as far as Submit.  An empty snapshot *)
(* is not reported.                                                        *)
Report ==
    /\ run = "select" /\ Len(reports) < MaxReports
    /\ \E batch \in Batches(stats) :
         /\ batch # << >>
         /\ pending' = [id |-> Len(reports) + 1, items |-> batch]
         /\ reports' = Append(reports, batch)
    /\ run' = "submit"
    /\ UNCHANGED <<ctxDone, collectorVars, publisherVars>>

(* Submit returns.  While it waits for room Run looks at nothing else.     *)
Submitted ==
    /\ run = "submit"
    /\ Submit(pending)
    /\ run' = "select" /\ pending' = NoReport
    /\ UNCHANGED <<reports, ctxDone, collectorVars>>

(* <-ctx.Done(), and the deferred calls in their order.                    *)
StopReporting ==
    /\ run = "select" /\ ctxDone
    /\ CloseJobs
    /\ run' = "workers"
    /\ UNCHANGED <<pending, reports, ctxDone, collectorVars>>

StopCollector ==
    /\ run = "workers" /\ WorkersGone
    /\ CloseStop
    /\ run' = "collector"
    /\ UNCHANGED <<pending, reports, ctxDone, publisherVars>>

Exit ==
    /\ run = "collector" /\ SamplersGone
    /\ run' = "exited"
    /\ UNCHANGED <<pending, reports, ctxDone, collectorVars, publisherVars>>

RunStep == Submitted \/ StopCollector \/ Exit

-----------------------------------------------------------------------------
Sampling(s) ==
    /\ Poll(s) \/ SetNextGauge(s) \/ EndPoll(s)
    /\ UNCHANGED <<agentVars, ctxDone, publisherVars>>

SamplerLeaves(s) == SamplerExits(s) /\ UNCHANGED <<agentVars, ctxDone, publisherVars>>

Interrupt == Signal /\ run # "exited" /\ UNCHANGED <<agentVars, collectorVars, publisherVars>>

Works(w) == WorkerStep(w) /\ UNCHANGED <<agentVars, ctxDone, collectorVars>>

Served(w) == ServerStep(w) /\ UNCHANGED <<agentVars, ctxDone, collectorVars>>

NetworkFails ==
    /\ ArrivesLate \/ \E w \in Workers : Refused(w) \/ Breaks(w)
    /\ UNCHANGED <<agentVars, ctxDone, collectorVars>>

Next ==
    \/ Report \/ StopReporting \/ RunStep \/ Interrupt
    \/ \E s \in Samplers : Sampling(s) \/ SamplerLeaves(s)
    \/ \E w \in Workers : Works(w) \/ Served(w)
    \/ NetworkFails

Spec == Init /\ [][Next]_vars

(* Goroutines run.  A select in which both a tick and the end are ready    *)
(* takes either at random, so leaving it is strongly fair.  The server is  *)
(* not obliged to answer.                                                  *)
GoroutinesRun ==
    /\ WF_vars(RunStep) /\ SF_vars(StopReporting)
    /\ \A s \in Samplers : WF_vars(Sampling(s)) /\ SF_vars(SamplerLeaves(s))
    /\ \A w \in Workers : WF_vars(Works(w))

AgentSpec == Spec /\ GoroutinesRun

(* A server that answers.                                                  *)
ServerAnswers == \A w \in Workers : WF_vars(Served(w))

-----------------------------------------------------------------------------
(* The poll a batch has for a name; 0 if it does not mention it.           *)
Polled(batch, n) ==
    LET at == {i \in DOMAIN batch : batch[i].id = n}
    IN  IF at = {} THEN 0
        ELSE LET m == batch[CHOOSE i \in at : TRUE]
             IN  IF n = PollCount THEN m.delta ELSE m.value

(* A snapshot may fall into the middle of a poll, but it never has a       *)
(* runtime gauge that is older than its PollCount or newer than the poll   *)
(* in progress.                                                            *)
SnapshotsCoherent ==
    \A r \in DOMAIN reports : \A i \in DOMAIN RuntimeGauges :
        Polled(reports[r], RuntimeGauges[i])
            \in {Polled(reports[r], PollCount), Polled(reports[r], PollCount) + 1}

(* A metric of a report is stored at most once more than connections broke:*)
(* retries and the fallback to single requests repeat nothing the server   *)
(* has acknowledged, and a cancelled request is not repeated.              *)
DuplicatesBounded ==
    \A r \in 1 .. MaxReports : \A n \in Names : stored[r][n] <= 1 + broken

(* One failure loses nothing: until the agent is interrupted, a report its *)
(* worker is done with is stored in full, by a retry or by the fallback.   *)
OneFailureTolerated ==
    ~ctxDone /\ Failures <= 1 =>
        \A r \in handled : \A i \in DOMAIN reports[r] : stored[r][reports[r][i].id] >= 1

(* With one worker, and as long as no connection breaks, the server never  *)
(* goes back to an older gauge.                                            *)
GaugesFresh ==
    [][Started(rateLimit) = {1} /\ broken = 0 =>
         \A g \in Sampled : server.gauges[g] # Nil => server'.gauges[g] >= server.gauges[g]]_vars

(* When Run returns every goroutine it started has ended, and every report *)
(* it submitted has been tried: none is left in the channel.               *)
DrainedAtExit ==
    run = "exited" =>
        /\ WorkersGone /\ SamplersGone /\ jobs = << >>
        /\ handled = DOMAIN reports

(* A signal ends the agent, however the server behaves: workers waiting    *)
(* for an answer and a Run waiting for room in the channel are released.   *)
ShutdownCompletes == ctxDone ~> run = "exited"

(* With a server that answers the workers deal with every report, whatever *)
(* fails on the way: there are finitely many, and none is left behind.     *)
ReportsHandled == ServerAnswers => []<>(handled = DOMAIN reports)
=============================================================================
