----------------------------- MODULE AgentProofs -----------------------------
(***************************************************************************)
(* Proofs about the agent, for any gauges, any number of workers and any   *)
(* failures of the network.  The inductive invariants:                     *)
(*   - CollectorInv: how far the runtime goroutine is in its poll, and     *)
(*     with it which gauges are one poll ahead of PollCount;               *)
(*   - QueueInv: every report is in exactly one place - being submitted,   *)
(*     in the channel, with one worker, or handled;                        *)
(*   - for each report and metric, an account of what was stored, what may *)
(*     still arrive late and what its worker may still send (DebtInv), and *)
(*     of what a worker in its fallback has stored so far (ProgressInv);   *)
(*   - FreshInv: reports are sent in the order of their numbers, which is  *)
(*     that of their gauges, and what the server has is not newer than     *)
(*     anything that may still arrive.                                     *)
(***************************************************************************)
EXTENDS Agent, MetricsProofs

-----------------------------------------------------------------------------
(* The runtime goroutine writes gauge after gauge, then raises PollCount.  *)
RuntimeInv ==
    LET q == sampler["runtime"]
    IN  IF q.pc = "poll"
        THEN /\ q.poll = stats.polls + 1
             /\ \A i \in DOMAIN RuntimeGauges :
                  /\ stats.gauges[RuntimeGauges[i]] \in {stats.polls, stats.polls + 1}
                  /\ i < q.next => stats.gauges[RuntimeGauges[i]] = stats.polls + 1
        ELSE /\ q.poll = stats.polls
             /\ \A i \in DOMAIN RuntimeGauges : stats.gauges[RuntimeGauges[i]] = stats.polls

SamplerStates == [pc : {"wait", "poll", "exited"}, poll : Nat, next : Nat \ {0}]

(* The samples the collector may hold.                                     *)
StatsFit(st) ==
    /\ st \in [gauges : [Sampled -> Nat], polls : Nat]
    /\ st.polls <= MaxPolls["runtime"]
    /\ \A s \in Samplers : \A g \in ToSet(Plan(s)) : st.gauges[g] <= MaxPolls[s]

CollectorInv ==
    /\ StatsFit(stats)
    /\ sampler \in [Samplers -> SamplerStates]
    /\ \A s \in Samplers : sampler[s].poll <= MaxPolls[s]
    /\ RuntimeInv

(* What a report is made of.                                               *)
Proper(batch) ==
    /\ batch \in Seq(UsableMetric)
    /\ \A i, j \in 1 .. Len(batch) : batch[i].id = batch[j].id => i = j

Coherent(batch) ==
    \A i \in DOMAIN RuntimeGauges :
        Polled(batch, RuntimeGauges[i]) \in {Polled(batch, PollCount), Polled(batch, PollCount) + 1}

ReportsInv ==
    /\ reports \in Seq(Seq(UsableMetric)) /\ Len(reports) <= MaxReports
    /\ \A r \in DOMAIN reports : Proper(reports[r]) /\ reports[r] # << >> /\ Coherent(reports[r])

-----------------------------------------------------------------------------
(* Where a report may be.                                                  *)
Held(w) == worker[w].pc \in {"do", "sent", "stored", "backoff"}

Reports == [id : Nat, items : Seq(UsableMetric)]

Requests == [pc : {"idle", "do", "sent", "stored", "backoff", "exited"},
             report : Reports, one : Nat, try : Nat]

Known(report) == report.id \in DOMAIN reports /\ report.items = reports[report.id]

QueueTypes ==
    /\ ctxDone \in BOOLEAN /\ jobsOpen \in BOOLEAN
    /\ run \in {"select", "submit", "workers", "collector", "exited"}
    /\ rateLimit \in RateLimits
    /\ pending \in Reports /\ jobs \in Seq(Reports)
    /\ worker \in [Workers -> Requests]
    /\ handled \subseteq DOMAIN reports

(* A report keeps its number and its items wherever it goes.               *)
Identity ==
    /\ run = "submit" => pending.id = Len(reports) /\ Known(pending)
    /\ \A i \in DOMAIN jobs : Known(jobs[i])
    /\ \A w \in Workers :
         Held(w) => Known(worker[w].report) /\ worker[w].one <= Len(worker[w].report.items)

(* No report is in two places ...                                          *)
Exclusive ==
    /\ \A i, j \in DOMAIN jobs : jobs[i].id = jobs[j].id => i = j
    /\ \A i \in DOMAIN jobs : jobs[i].id \notin handled
    /\ \A w \in Workers : Held(w) =>
         /\ worker[w].report.id \notin handled
         /\ \A i \in DOMAIN jobs : jobs[i].id # worker[w].report.id
         /\ \A v \in Workers : Held(v) /\ worker[v].report.id = worker[w].report.id => v = w
    /\ run = "submit" =>
         /\ pending.id \notin handled
         /\ \A i \in DOMAIN jobs : jobs[i].id # pending.id
         /\ \A w \in Workers : Held(w) => worker[w].report.id # pending.id

(* ... and none is in no place.                                            *)
InHand(r) ==
    \/ run = "submit" /\ pending.id = r
    \/ \E i \in DOMAIN jobs : jobs[i].id = r
    \/ \E w \in Workers : Held(w) /\ worker[w].report.id = r

NoneForgotten == \A r \in DOMAIN reports : r \in handled \/ InHand(r)

(* How far the shutdown is.                                                *)
Shutdown ==
    /\ run \in {"workers", "collector", "exited"} <=> ~jobsOpen
    /\ \A w \in Started(rateLimit) : worker[w].pc = "exited" => ~jobsOpen /\ jobs = << >>
    /\ run \in {"collector", "exited"} => WorkersGone
    /\ run = "exited" => SamplersGone

QueueInv == QueueTypes /\ Identity /\ Exclusive /\ NoneForgotten /\ Shutdown

-----------------------------------------------------------------------------
(* What worker w may still send of its report without another failure: the *)
(* metrics from the one it is at; after an answered batch, none.           *)
Ahead(q, i) == IF q.pc = "stored" THEN 0 < q.one /\ q.one < i ELSE q.one <= i

Due(w, n) ==
    /\ \E i \in DOMAIN worker[w].report.items :
          worker[w].report.items[i].id = n /\ Ahead(worker[w], i)
    /\ worker[w].pc \in {"do", "backoff"} => ~ctxDone

(* Report r may yet be sent as if nothing had failed.                      *)
Outstanding(r, n) ==
    /\ r \notin handled
    /\ \A w \in Workers : Held(w) /\ worker[w].report.id = r => Due(w, n)

Mentions(items, n) == \E i \in DOMAIN items : items[i].id = n

(* The requests on broken connections that would store n of report r.      *)
Late(r, n) == {q \in limbo : q.report.id = r /\ Mentions(Payload(q), n)}

RemoteTypes ==
    /\ limbo \subseteq Requests /\ IsFiniteSet(limbo)
    /\ \A q \in limbo : Known(q.report) /\ q.one <= Len(q.report.items)
    /\ stored \in [1 .. MaxReports -> [Names -> Nat]]
    /\ broken \in Nat /\ refused \in Nat

DebtInv ==
    \A r \in 1 .. MaxReports : \A n \in Names :
        stored[r][n] + Cardinality(Late(r, n)) + (IF Outstanding(r, n) THEN 1 ELSE 0)
            <= 1 + broken

(* What a worker has achieved for its report.                              *)
Done(q, i) == i < q.one \/ (q.pc = "stored" /\ (q.one = 0 \/ i = q.one))

ProgressInv ==
    ~ctxDone /\ Failures <= 1 =>
        /\ \A w \in Workers : Held(w) =>
             /\ worker[w].one > 0 \/ worker[w].pc = "backoff" => Failures = 1
             /\ \A i \in DOMAIN worker[w].report.items : Done(worker[w], i) =>
                  stored[worker[w].report.id][worker[w].report.items[i].id] >= 1
        /\ \A r \in handled : \A i \in DOMAIN reports[r] : stored[r][reports[r][i].id] >= 1

-----------------------------------------------------------------------------
(* The names the collector uses.                                           *)
LEMMA GaugeNames ==
    /\ RuntimeGauges \in Seq(Names) /\ HostGauges \in Seq(Names)
    /\ Sampled \subseteq Names /\ IsFiniteSet(Sampled)
    /\ PollCount \in Names /\ PollCount \notin Sampled
    /\ \A s \in Samplers : Plan(s) \in Seq(Names) /\ ToSet(Plan(s)) \subseteq Sampled
    /\ Sampled = ToSet(Plan("runtime")) \cup ToSet(Plan("host"))
    /\ \A i \in DOMAIN RuntimeGauges : RuntimeGauges[i] \in ToSet(Plan("runtime"))
    /\ \A g \in ToSet(Plan("host")) : \A i \in DOMAIN RuntimeGauges : RuntimeGauges[i] # g
<1>1. RuntimeGauges \in Seq(Names) /\ HostGauges \in Seq(Names)
      /\ PollCount \in Names /\ PollCount \notin Sampled
  BY AgentAssumption
<1>2. Sampled \subseteq Names
  BY <1>1 DEF Sampled, ToSet
<1>3. IsFiniteSet(Names)
  BY TrimAssumption, NamesAreIds, FS_Subset
<1>4. IsFiniteSet(Sampled)
  BY <1>2, <1>3, FS_Subset
<1>5. Plan("runtime") = RuntimeGauges /\ Plan("host") = HostGauges
  BY DEF Plan
<1>6. ToSet(RuntimeGauges) \cap ToSet(HostGauges) = {}
  BY CollectorAssumption
<1>7. \A i \in DOMAIN RuntimeGauges : RuntimeGauges[i] \in ToSet(RuntimeGauges)
  BY DEF ToSet
<1>8. \A s \in Samplers : Plan(s) \in Seq(Names) /\ ToSet(Plan(s)) \subseteq Sampled
  BY <1>1, <1>5 DEF Samplers, Sampled
<1> QED BY <1>1, <1>2, <1>4, <1>5, <1>6, <1>7, <1>8 DEF Sampled

(* A gauge or a counter of a batch is a metric the server can store.       *)
LEMMA SampleUsable ==
    ASSUME NEW st, StatsFit(st)
    PROVE  /\ \A g \in Sampled : st.gauges[g] > 0 => Gauge(g, st.gauges[g]) \in UsableMetric
           /\ Counter(PollCount, st.polls) \in UsableMetric
<1>1. ASSUME NEW g \in Sampled, st.gauges[g] > 0
      PROVE  Gauge(g, st.gauges[g]) \in UsableMetric
  <2>1. PICK s \in Samplers : g \in ToSet(Plan(s))
    BY GaugeNames, "runtime" \in Samplers, "host" \in Samplers DEF Samplers
  <2>2. st.gauges[g] \in 1 .. MaxPolls[s]
    BY <1>1, <2>1, CollectorAssumption DEF StatsFit
  <2>3. st.gauges[g] \in Finite
    BY <2>2, AgentAssumption
  <2>4. g \in Names /\ g \in RawIds
    BY GaugeNames, NamesAreIds
  <2>5. st.gauges[g] # Nil
    BY <2>3, NilAssumption
  <2> QED BY <2>3, <2>4, <2>5 DEF Gauge, UsableMetric, Metric, Values, MTypes, Usable
<1>2. Counter(PollCount, st.polls) \in UsableMetric
  <2>1. st.polls \in Nat /\ st.polls <= MaxPolls["runtime"] /\ MaxPolls["runtime"] \in Nat
        /\ MaxPolls["runtime"] < HalfRange
    BY CollectorAssumption, AgentAssumption, "runtime" \in Samplers DEF StatsFit, Samplers
  <2>2. st.polls \in Int64
    BY <2>1, ValuesAssumption DEF Int64
  <2>3. st.polls # Nil
    BY <2>1, NilAssumption
  <2>4. PollCount \in Names /\ PollCount \in RawIds
    BY GaugeNames, NamesAreIds
  <2> QED BY <2>2, <2>3, <2>4 DEF Counter, UsableMetric, Metric, MTypes, Usable
<1> QED BY <1>1, <1>2

(* What enqueueSnapshot builds from the collector's samples: each metric   *)
(* once, with the value the collector had.                                 *)
LEMMA BatchReads ==
    ASSUME NEW st, StatsFit(st), NEW batch \in Batches(st)
    PROVE  /\ Proper(batch)
           /\ Polled(batch, PollCount) = st.polls
           /\ \A g \in Sampled : Polled(batch, g) = st.gauges[g]
<1> DEFINE Pos == {x \in Sampled : st.gauges[x] > 0}
           G == {Gauge(g, st.gauges[g]) : g \in Pos}
           tail == IF st.polls > 0 THEN <<Counter(PollCount, st.polls)>> ELSE << >>
<1>1. PICK gs \in Orders(G) : batch = gs \o tail
  BY DEF Batches
<1>2. IsFiniteSet(G)
  <2>1. IsFiniteSet(Pos)
    BY GaugeNames, FS_Subset
  <2> DEFINE f == [g \in Pos |-> Gauge(g, st.gauges[g])]
  <2>2. f \in Surjection(Pos, G)
    BY DEF Surjection
  <2> QED BY <2>1, <2>2, FS_Surjection
<1>3. /\ gs \in Seq(G)
      /\ \A x \in G : \E i \in 1 .. Len(gs) : gs[i] = x
      /\ \A i, j \in 1 .. Len(gs) : gs[i] = gs[j] => i = j
  BY <1>2, OrdersAreSequences
<1>4. G \subseteq UsableMetric /\ Counter(PollCount, st.polls) \in UsableMetric
  BY SampleUsable
<1>5. gs \in Seq(UsableMetric) /\ tail \in Seq(UsableMetric) /\ Len(gs) \in Nat
  BY <1>3, <1>4
<1>6. batch \in Seq(UsableMetric) /\ Len(batch) = Len(gs) + Len(tail)
      /\ \A i \in 1 .. Len(gs) : batch[i] = gs[i]
  BY <1>1, <1>5
<1>7. /\ st.polls > 0 => Len(batch) = Len(gs) + 1 /\ batch[Len(gs) + 1] = Counter(PollCount, st.polls)
      /\ ~(st.polls > 0) => Len(batch) = Len(gs)
  BY <1>1, <1>5
<1>8. \A i \in 1 .. Len(gs) : \E g \in Pos : batch[i] = Gauge(g, st.gauges[g])
  BY <1>3, <1>6
<1>9. \A i \in 1 .. Len(gs) : batch[i].id \in Pos /\ batch[i].value = st.gauges[batch[i].id]
                             /\ batch[i] = Gauge(batch[i].id, st.gauges[batch[i].id])
  <2>1. \A g, v : Gauge(g, v).id = g /\ Gauge(g, v).value = v
    BY DEF Gauge
  <2> QED BY <1>8, <2>1
<1>10. \A g \in Pos : \E i \in 1 .. Len(gs) : batch[i].id = g
  <2> TAKE g \in Pos
  <2>1. Gauge(g, st.gauges[g]) \in G /\ Gauge(g, st.gauges[g]).id = g
    BY DEF Gauge
  <2> QED BY <2>1, <1>3, <1>6
<1>11. Counter(PollCount, st.polls).id = PollCount /\ Counter(PollCount, st.polls).delta = st.polls
  BY DEF Counter
<1>12. PollCount \notin Sampled /\ Pos \subseteq Sampled
  BY GaugeNames
<1>13. \A i \in DOMAIN batch :
          \/ i \in 1 .. Len(gs)
          \/ i = Len(gs) + 1 /\ st.polls > 0 /\ batch[i].id = PollCount /\ batch[i].delta = st.polls
  BY <1>5, <1>6, <1>7, <1>11
<1>14. DOMAIN batch = 1 .. Len(batch)
  BY <1>6
<1>15. st.polls \in Nat /\ st.gauges \in [Sampled -> Nat]
  BY DEF StatsFit
<1> HIDE DEF Pos, G, tail
<1>16. \A i, j \in 1 .. Len(batch) : batch[i].id = batch[j].id => i = j
  <2> TAKE i, j \in 1 .. Len(batch)
  <2> HAVE batch[i].id = batch[j].id
  <2>1. CASE i \in 1 .. Len(gs) /\ j \in 1 .. Len(gs)
    <3>1. batch[i] = batch[j]
      BY <1>9, <2>1
    <3> QED BY <1>3, <1>6, <2>1, <3>1
  <2>2. CASE i \in 1 .. Len(gs) /\ j \notin 1 .. Len(gs)
    BY <1>9, <1>12, <1>13, <1>14, <2>2
  <2>3. CASE i \notin 1 .. Len(gs) /\ j \in 1 .. Len(gs)
    BY <1>9, <1>12, <1>13, <1>14, <2>3
  <2>4. CASE i \notin 1 .. Len(gs) /\ j \notin 1 .. Len(gs)
    BY <1>13, <1>14, <2>4
  <2> QED BY <2>1, <2>2, <2>3, <2>4
<1>17. Proper(batch)
  BY <1>6, <1>16 DEF Proper
<1>18. Polled(batch, PollCount) = st.polls
  <2> DEFINE at == {i \in DOMAIN batch : batch[i].id = PollCount}
  <2>1. CASE st.polls > 0
    <3>1. at = {Len(gs) + 1} /\ batch[Len(gs) + 1].delta = st.polls
      <4>1. Len(gs) + 1 \in DOMAIN batch
        <5>1. Len(batch) = Len(gs) + 1
          BY <2>1, <1>7
        <5>2. Len(gs) + 1 \in 1 .. Len(gs) + 1
          BY <1>5
        <5> QED BY <5>1, <5>2, <1>14
      <4>2. batch[Len(gs) + 1].id = PollCount /\ batch[Len(gs) + 1].delta = st.polls
        BY <2>1, <1>7, <1>11
      <4>3. \A i \in DOMAIN batch : batch[i].id = PollCount => i = Len(gs) + 1
        BY <1>14, <1>16, <4>1, <4>2
      <4> QED BY <4>1, <4>2, <4>3
    <3> QED BY <3>1 DEF Polled
  <2>2. CASE ~(st.polls > 0)
    <3>1. at = {}
      BY <2>2, <1>9, <1>12, <1>13
    <3> QED BY <2>2, <3>1, <1>15 DEF Polled
  <2> QED BY <2>1, <2>2
<1>19. ASSUME NEW g \in Sampled PROVE Polled(batch, g) = st.gauges[g]
  <2> DEFINE at == {i \in DOMAIN batch : batch[i].id = g}
  <2>1. g # PollCount
    BY <1>12
  <2>2. CASE st.gauges[g] > 0
    <3>1. g \in Pos
      BY <2>2 DEF Pos
    <3>2. PICK i \in 1 .. Len(gs) : batch[i].id = g
      BY <1>10, <3>1
    <3>3. i \in DOMAIN batch /\ batch[i].value = st.gauges[g]
      <4>1. i \in 1 .. Len(batch)
        BY <1>5, <1>7, <1>15
      <4>2. batch[i].value = st.gauges[batch[i].id]
        BY <1>9
      <4> QED BY <1>14, <3>2, <4>1, <4>2
    <3>4. at = {i}
      BY <3>2, <3>3, <1>14, <1>16
    <3> QED BY <2>1, <3>3, <3>4 DEF Polled
  <2>3. CASE ~(st.gauges[g] > 0)
    <3>1. g \notin Pos
      BY <2>3 DEF Pos
    <3>2. at = {}
      BY <2>1, <3>1, <1>9, <1>13
    <3> QED BY <2>3, <3>2, <1>15 DEF Polled
  <2> QED BY <2>2, <2>3
<1> QED BY <1>17, <1>18, <1>19

-----------------------------------------------------------------------------
(* The collector's invariant holds before its first poll ...               *)
LEMMA CollectorInvInit == ASSUME Init PROVE CollectorInv
<1>1. /\ stats = [gauges |-> [g \in Sampled |-> 0], polls |-> 0]
      /\ sampler = [s \in Samplers |-> [pc |-> "wait", poll |-> 0, next |-> 1]]
  BY DEF Init, CollectorInit
<1>2. \A s \in Samplers : MaxPolls[s] \in Nat
  BY CollectorAssumption
<1>3. StatsFit(stats)
  BY <1>1, <1>2, GaugeNames DEF StatsFit, Samplers
<1>4. sampler \in [Samplers -> SamplerStates] /\ \A s \in Samplers : sampler[s].poll <= MaxPolls[s]
  BY <1>1, <1>2 DEF SamplerStates
<1>5. sampler["runtime"] = [pc |-> "wait", poll |-> 0, next |-> 1]
  BY <1>1 DEF Samplers
<1>6. RuntimeInv
  BY <1>1, <1>5, GaugeNames DEF RuntimeInv
<1> QED BY <1>3, <1>4, <1>6 DEF CollectorInv

(* ... and every step of a sampling goroutine keeps it.                    *)
LEMMA SamplingKeeps ==
    ASSUME CollectorInv, NEW s \in Samplers,
           Poll(s) \/ SetNextGauge(s) \/ EndPoll(s) \/ SamplerExits(s)
    PROVE  CollectorInv'
<1> DEFINE q == sampler[s]
<1>1. /\ stats \in [gauges : [Sampled -> Nat], polls : Nat]
      /\ stats.polls <= MaxPolls["runtime"]
      /\ \A t \in Samplers : \A g \in ToSet(Plan(t)) : stats.gauges[g] <= MaxPolls[t]
      /\ sampler \in [Samplers -> SamplerStates]
      /\ \A t \in Samplers : sampler[t].poll <= MaxPolls[t]
  BY DEF CollectorInv, StatsFit
<1>2. /\ q \in SamplerStates /\ q.poll \in Nat /\ q.next \in Nat \ {0} /\ MaxPolls[s] \in Nat
      /\ "runtime" \in Samplers /\ "host" \in Samplers /\ s \in {"runtime", "host"}
  BY <1>1, CollectorAssumption DEF SamplerStates, Samplers
<1>3. RuntimeInv
  BY DEF CollectorInv
<1>4. CASE Poll(s)
  <2> DEFINE q2 == [pc |-> "poll", poll |-> q.poll + 1, next |-> 1]
  <2>1. sampler' = [sampler EXCEPT ![s] = q2] /\ stats' = stats /\ q.pc = "wait" /\ q.poll < MaxPolls[s]
    BY <1>4 DEF Poll
  <2>2. q2 \in SamplerStates /\ q2.poll <= MaxPolls[s]
    BY <1>2, <2>1 DEF SamplerStates
  <2>3. sampler' \in [Samplers -> SamplerStates] /\ \A t \in Samplers : sampler'[t].poll <= MaxPolls[t]
    BY <1>1, <2>1, <2>2
  <2>4. StatsFit(stats)'
    BY <1>1, <2>1 DEF StatsFit
  <2>5. RuntimeInv'
    <3>1. CASE s = "host"
      <4>1. sampler'["runtime"] = sampler["runtime"]
        BY <1>1, <1>2, <2>1, <3>1
      <4> QED BY <1>3, <2>1, <4>1 DEF RuntimeInv
    <3>2. CASE s = "runtime"
      <4>1. sampler'["runtime"] = q2 /\ q2.pc = "poll" /\ q2.poll = q.poll + 1 /\ q2.next = 1
        BY <1>1, <1>2, <2>1, <3>2
      <4>2. q.poll = stats.polls /\ \A i \in DOMAIN RuntimeGauges : stats.gauges[RuntimeGauges[i]] = stats.polls
        BY <1>3, <2>1, <3>2 DEF RuntimeInv
      <4>3. \A i \in DOMAIN RuntimeGauges : ~(i < 1)
        BY GaugeNames
      <4> QED BY <2>1, <4>1, <4>2, <4>3 DEF RuntimeInv
    <3> QED BY <1>2, <3>1, <3>2
  <2> QED BY <2>3, <2>4, <2>5 DEF CollectorInv
<1>5. CASE SamplerExits(s)
  <2> DEFINE q2 == [q EXCEPT !.pc = "exited"]
  <2>1. sampler' = [sampler EXCEPT ![s] = q2] /\ stats' = stats /\ q.pc = "wait"
    BY <1>5 DEF SamplerExits
  <2>2. q2 \in SamplerStates /\ q2.poll = q.poll /\ q2.pc = "exited"
    BY <1>2 DEF SamplerStates
  <2>3. sampler' \in [Samplers -> SamplerStates] /\ \A t \in Samplers : sampler'[t].poll <= MaxPolls[t]
    BY <1>1, <2>1, <2>2
  <2>4. StatsFit(stats)'
    BY <1>1, <2>1 DEF StatsFit
  <2>5. RuntimeInv'
    <3>1. CASE s = "host"
      <4>1. sampler'["runtime"] = sampler["runtime"]
        BY <1>1, <1>2, <2>1, <3>1
      <4> QED BY <1>3, <2>1, <4>1 DEF RuntimeInv
    <3>2. CASE s = "runtime"
      <4>1. sampler'["runtime"] = q2
        BY <1>1, <1>2, <2>1, <3>2
      <4> QED BY <1>3, <2>1, <2>2, <3>2, <4>1 DEF RuntimeInv
    <3> QED BY <1>2, <3>1, <3>2
  <2> QED BY <2>3, <2>4, <2>5 DEF CollectorInv
<1>6. CASE EndPoll(s)
  <2> DEFINE q2 == [q EXCEPT !.pc = "wait"]
  <2>1. /\ sampler' = [sampler EXCEPT ![s] = q2] /\ q.pc = "poll" /\ q.next > Len(Plan(s))
        /\ stats' = IF s = "runtime" THEN [stats EXCEPT !.polls = @ + 1] ELSE stats
    BY <1>6 DEF EndPoll
  <2>2. q2 \in SamplerStates /\ q2.poll = q.poll /\ q2.pc = "wait"
    BY <1>2 DEF SamplerStates
  <2>3. sampler' \in [Samplers -> SamplerStates] /\ \A t \in Samplers : sampler'[t].poll <= MaxPolls[t]
    BY <1>1, <2>1, <2>2
  <2>4. CASE s = "host"
    <3>1. sampler'["runtime"] = sampler["runtime"] /\ stats' = stats
      BY <1>1, <1>2, <2>1, <2>4
    <3>2. RuntimeInv'
      BY <1>3, <3>1 DEF RuntimeInv
    <3>3. StatsFit(stats)'
      BY <1>1, <3>1 DEF StatsFit
    <3> QED BY <2>3, <3>2, <3>3 DEF CollectorInv
  <2>5. CASE s = "runtime"
    <3>1. sampler'["runtime"] = q2
      BY <1>1, <1>2, <2>1, <2>5
    <3>2. stats'.polls = stats.polls + 1 /\ stats'.gauges = stats.gauges
          /\ stats' \in [gauges : [Sampled -> Nat], polls : Nat]
      BY <1>1, <2>1, <2>5
    <3>3. /\ q.poll = stats.polls + 1
          /\ \A i \in DOMAIN RuntimeGauges :
                i < q.next => stats.gauges[RuntimeGauges[i]] = stats.polls + 1
      BY <1>3, <2>1, <2>5 DEF RuntimeInv
    <3>4. Plan(s) = RuntimeGauges
      BY <2>5 DEF Plan
    <3>5. \A i \in DOMAIN RuntimeGauges : i < q.next
      BY <1>2, <2>1, <3>4, GaugeNames
    <3>6. RuntimeInv'
      BY <2>2, <3>1, <3>2, <3>3, <3>5 DEF RuntimeInv
    <3>7. StatsFit(stats)'
      BY <1>1, <2>5, <3>2, <3>3 DEF StatsFit
    <3> QED BY <2>3, <3>6, <3>7 DEF CollectorInv
  <2> QED BY <1>2, <2>4, <2>5
<1>7. CASE SetNextGauge(s)
  <2> DEFINE q2 == [q EXCEPT !.next = @ + 1]
             x == Plan(s)[q.next]
             st == [stats EXCEPT !.gauges[x] = q.poll]
  <2>1. /\ sampler' = [sampler EXCEPT ![s] = q2] /\ q.pc = "poll" /\ q.next <= Len(Plan(s))
        /\ stats' = st \/ (s = "host" /\ stats' = stats)
    BY <1>7 DEF SetNextGauge
  <2>2. q2 \in SamplerStates /\ q2.poll = q.poll /\ q2.pc = "poll" /\ q2.next = q.next + 1
    BY <1>2, <2>1 DEF SamplerStates
  <2>3. sampler' \in [Samplers -> SamplerStates] /\ \A t \in Samplers : sampler'[t].poll <= MaxPolls[t]
    BY <1>1, <2>1, <2>2
  <2>4. q.next \in DOMAIN Plan(s) /\ x \in ToSet(Plan(s)) /\ x \in Sampled
    <3>1. Plan(s) \in Seq(Names) /\ ToSet(Plan(s)) \subseteq Sampled
      BY GaugeNames
    <3>2. q.next \in DOMAIN Plan(s)
      BY <1>2, <2>1, <3>1
    <3> QED BY <3>1, <3>2 DEF ToSet
  <2>5. /\ st \in [gauges : [Sampled -> Nat], polls : Nat] /\ st.polls = stats.polls
        /\ \A g \in Sampled : st.gauges[g] = IF g = x THEN q.poll ELSE stats.gauges[g]
    BY <1>1, <1>2, <2>4
  <2>6. \A t \in Samplers : x \in ToSet(Plan(t)) => t = s
    <3>1. ToSet(Plan("runtime")) \cap ToSet(Plan("host")) = {}
      BY CollectorAssumption DEF Plan
    <3> QED BY <1>2, <2>4, <3>1 DEF Samplers
  <2>7. StatsFit(st)
    <3>1. \A t \in Samplers : \A g \in ToSet(Plan(t)) : g \in Sampled
      BY GaugeNames
    <3>2. ASSUME NEW t \in Samplers, NEW g \in ToSet(Plan(t)) PROVE st.gauges[g] <= MaxPolls[t]
      <4>1. CASE g = x
        BY <1>1, <2>5, <2>6, <3>1, <4>1
      <4>2. CASE g # x
        BY <1>1, <2>5, <3>1, <4>2
      <4> QED BY <4>1, <4>2
    <3> QED BY <1>1, <2>5, <3>2 DEF StatsFit
  <2>8. StatsFit(stats)'
    BY <1>1, <2>1, <2>7 DEF StatsFit
  <2>9. CASE s = "host"
    <3>1. sampler'["runtime"] = sampler["runtime"]
      BY <1>1, <1>2, <2>1, <2>9
    <3>2. \A i \in DOMAIN RuntimeGauges : RuntimeGauges[i] \in Sampled /\ RuntimeGauges[i] # x
      BY <1>2, <2>4, <2>9, GaugeNames
    <3>3. stats'.polls = stats.polls
          /\ \A i \in DOMAIN RuntimeGauges : stats'.gauges[RuntimeGauges[i]] = stats.gauges[RuntimeGauges[i]]
      BY <2>1, <2>5, <3>2
    <3>4. RuntimeInv'
      BY <1>3, <3>1, <3>3 DEF RuntimeInv
    <3> QED BY <2>3, <2>8, <3>4 DEF CollectorInv
  <2>10. CASE s = "runtime"
    <3>1. sampler'["runtime"] = q2 /\ stats' = st
      BY <1>1, <1>2, <2>1, <2>10
    <3>2. Plan(s) = RuntimeGauges /\ x = RuntimeGauges[q.next]
      BY <2>10 DEF Plan
    <3>3. /\ q.poll = stats.polls + 1
          /\ \A i \in DOMAIN RuntimeGauges :
                  /\ stats.gauges[RuntimeGauges[i]] \in {stats.polls, stats.polls + 1}
                  /\ i < q.next => stats.gauges[RuntimeGauges[i]] = stats.polls + 1
      BY <1>3, <2>1, <2>10 DEF RuntimeInv
    <3>4. \A i \in DOMAIN RuntimeGauges : RuntimeGauges[i] \in Sampled /\ i \in Nat
      BY <1>2, GaugeNames
    <3>5. \A i \in DOMAIN RuntimeGauges :
                  /\ st.gauges[RuntimeGauges[i]] \in {stats.polls, stats.polls + 1}
                  /\ i < q.next + 1 => st.gauges[RuntimeGauges[i]] = stats.polls + 1
      <4> TAKE i \in DOMAIN RuntimeGauges
      <4>1. CASE RuntimeGauges[i] = x
        BY <2>5, <3>3, <3>4, <4>1
      <4>2. CASE RuntimeGauges[i] # x
        <5>1. i # q.next
          BY <3>2, <4>2
        <5>2. i < q.next + 1 => i < q.next
          BY <1>2, <3>4, <5>1
        <5> QED BY <2>5, <3>3, <3>4, <4>2, <5>2
      <4> QED BY <4>1, <4>2
    <3>6. RuntimeInv'
      BY <2>2, <2>5, <3>1, <3>3, <3>5 DEF RuntimeInv
    <3> QED BY <2>3, <2>8, <3>6 DEF CollectorInv
  <2> QED BY <1>2, <2>9, <2>10
<1> QED BY <1>4, <1>5, <1>6, <1>7

(* What a step of the agent is, seen from the collector and the reports.   *)
LEMMA CollectorStep ==
    ASSUME [Next]_vars
    PROVE  \/ Report
           \/ reports' = reports /\ UNCHANGED <<stats, sampler>>
           \/ /\ reports' = reports
              /\ \E s \in Samplers : Poll(s) \/ SetNextGauge(s) \/ EndPoll(s) \/ SamplerExits(s)
<1>1. CASE UNCHANGED vars
  BY <1>1 DEF vars, agentVars, collectorVars
<1>2. CASE StopReporting
  BY <1>2 DEF StopReporting, collectorVars
<1>3. CASE RunStep
  BY <1>3 DEF RunStep, Submitted, StopCollector, Exit, CloseStop, collectorVars
<1>4. CASE Interrupt
  BY <1>4 DEF Interrupt, agentVars, collectorVars
<1>5. CASE \E s \in Samplers : Sampling(s) \/ SamplerLeaves(s)
  BY <1>5 DEF Sampling, SamplerLeaves, agentVars
<1>6. CASE \E w \in Workers : Works(w) \/ Served(w)
  BY <1>6 DEF Works, Served, agentVars, collectorVars
<1>7. CASE NetworkFails
  BY <1>7 DEF NetworkFails, agentVars, collectorVars
<1> QED BY <1>1, <1>2, <1>3, <1>4, <1>5, <1>6, <1>7 DEF Next

(* A batch of coherent samples is coherent.                                *)
LEMMA BatchCoherent ==
    ASSUME CollectorInv, NEW batch \in Batches(stats)
    PROVE  Proper(batch) /\ Coherent(batch)
<1>1. StatsFit(stats) /\ RuntimeInv
  BY DEF CollectorInv
<1>2. /\ Proper(batch) /\ Polled(batch, PollCount) = stats.polls
      /\ \A g \in Sampled : Polled(batch, g) = stats.gauges[g]
  BY <1>1, BatchReads
<1>3. \A i \in DOMAIN RuntimeGauges :
         /\ RuntimeGauges[i] \in Sampled
         /\ stats.gauges[RuntimeGauges[i]] \in {stats.polls, stats.polls + 1}
  BY <1>1, GaugeNames DEF RuntimeInv, Samplers
<1> QED BY <1>2, <1>3 DEF Coherent

(* Appending leaves what is there.                                         *)
LEMMA AppendedReports ==
    ASSUME NEW S, NEW s \in Seq(S), NEW e \in S
    PROVE  /\ Append(s, e) \in Seq(S) /\ Len(Append(s, e)) = Len(s) + 1
           /\ DOMAIN Append(s, e) = DOMAIN s \cup {Len(s) + 1}
           /\ \A i \in DOMAIN s : Append(s, e)[i] = s[i]
           /\ Append(s, e)[Len(s) + 1] = e
           /\ DOMAIN s = 1 .. Len(s) /\ Len(s) \in Nat /\ Len(s) + 1 \notin DOMAIN s
OBVIOUS

(* Every step keeps what is known of the collector and of the reports.     *)
LEMMA CollectorReportsStep ==
    ASSUME CollectorInv, ReportsInv, [Next]_vars
    PROVE  CollectorInv' /\ ReportsInv'
<1>1. CASE Report
  <2>1. stats' = stats /\ sampler' = sampler
    BY <1>1 DEF Report, collectorVars
  <2>2. PICK batch \in Batches(stats) : batch # << >> /\ reports' = Append(reports, batch)
    BY <1>1 DEF Report
  <2>3. Proper(batch) /\ Coherent(batch) /\ batch \in Seq(UsableMetric)
    BY BatchCoherent DEF Proper
  <2>4. reports \in Seq(Seq(UsableMetric)) /\ Len(reports) < MaxReports /\ MaxReports \in Nat
    BY <1>1, PublisherAssumption DEF ReportsInv, Report
  <2>5. /\ reports' \in Seq(Seq(UsableMetric)) /\ Len(reports') = Len(reports) + 1
        /\ DOMAIN reports' = DOMAIN reports \cup {Len(reports) + 1}
        /\ \A i \in DOMAIN reports : reports'[i] = reports[i]
        /\ reports'[Len(reports) + 1] = batch
    BY <2>2, <2>3, <2>4, AppendedReports
  <2>6. Len(reports') <= MaxReports
    BY <2>4, <2>5
  <2>7. \A r \in DOMAIN reports' : Proper(reports'[r]) /\ reports'[r] # << >> /\ Coherent(reports'[r])
    BY <2>2, <2>3, <2>5 DEF ReportsInv
  <2>8. CollectorInv'
    BY <2>1 DEF CollectorInv, StatsFit, RuntimeInv
  <2> QED BY <2>5, <2>6, <2>7, <2>8 DEF ReportsInv
<1>2. CASE reports' = reports /\ UNCHANGED <<stats, sampler>>
  <2>1. CollectorInv'
    BY <1>2 DEF CollectorInv, StatsFit, RuntimeInv
  <2>2. ReportsInv'
    BY <1>2 DEF ReportsInv
  <2> QED BY <2>1, <2>2
<1>3. CASE /\ reports' = reports
           /\ \E s \in Samplers : Poll(s) \/ SetNextGauge(s) \/ EndPoll(s) \/ SamplerExits(s)
  <2>1. CollectorInv'
    BY <1>3, SamplingKeeps
  <2>2. ReportsInv'
    BY <1>3 DEF ReportsInv
  <2> QED BY <2>1, <2>2
<1> QED BY <1>1, <1>2, <1>3, CollectorStep

(* Nothing has been polled at the start.                                   *)
LEMMA CollectorReportsInit == ASSUME Init PROVE CollectorInv /\ ReportsInv
<1>1. reports = << >>
  BY DEF Init
<1>2. << >> \in Seq(Seq(UsableMetric)) /\ Len(<< >>) = 0 /\ DOMAIN << >> = {}
  OBVIOUS
<1>3. ReportsInv
  BY <1>1, <1>2, PublisherAssumption DEF ReportsInv
<1> QED BY <1>3, CollectorInvInit

(* A snapshot taken in the middle of a poll (Snapshot copies the gauges    *)
(* under the mutex while collectRuntime writes them one by one) has no     *)
(* runtime gauge that is older than its PollCount, and none newer than the *)
(* poll in progress: for any gauges, polls and reports.                    *)
THEOREM ReportsAreCoherent == Spec => []SnapshotsCoherent
<1>1. Init => CollectorInv /\ ReportsInv
  BY CollectorReportsInit
<1>2. CollectorInv /\ ReportsInv /\ [Next]_vars => (CollectorInv /\ ReportsInv)'
  BY CollectorReportsStep
<1>3. ReportsInv => SnapshotsCoherent
  BY DEF ReportsInv, Coherent, SnapshotsCoherent
<1> QED BY <1>1, <1>2, <1>3, PTL DEF Spec

-----------------------------------------------------------------------------
(* A worker leaves a report only by adding it to the handled ones; until   *)
(* then it keeps it.                                                       *)
AtWork == {"do", "sent", "stored", "backoff"}

Moves(w, q) ==
    /\ worker' = [worker EXCEPT ![w] = q]
    /\ \/ q = Idle /\ handled' = handled \cup {worker[w].report.id}
       \/ /\ q \in Requests /\ q.pc \in AtWork
          /\ q.report = worker[w].report /\ q.one <= Len(q.report.items)
          /\ handled' = handled

QueueFrame == UNCHANGED <<run, pending, reports, rateLimit, jobs, jobsOpen, sampler>>

(* Idle and exited workers have records of their type.                     *)
LEMMA NoReportType == NoReport \in Reports /\ Idle \in Requests /\ Exited \in Requests
                      /\ Idle.pc = "idle" /\ Exited.pc = "exited"
<1>1. << >> \in Seq(UsableMetric)
  OBVIOUS
<1>2. NoReport \in Reports
  BY <1>1 DEF NoReport, Reports
<1> QED BY <1>2 DEF Idle, Exited, Requests

(* At least one worker is started.                                         *)
LEMMA StartedWorkers ==
    ASSUME NEW limit \in RateLimits
    PROVE  Started(limit) \subseteq Workers /\ 1 \in Started(limit)
BY PublisherAssumption DEF Started, Workers

(* What Return does.                                                       *)
LEMMA ReturnShape ==
    ASSUME QueueTypes, Identity, NEW w \in Workers, Held(w), NEW ok \in BOOLEAN, Return(w, ok)
    PROVE  \/ /\ worker' = [worker EXCEPT ![w] = Idle]
              /\ handled' = handled \cup {worker[w].report.id}
              /\ (worker[w].one = 0 /\ ok) \/ worker[w].one = Len(worker[w].report.items)
           \/ /\ worker' = [worker EXCEPT ![w] = SendNext(w)] /\ handled' = handled
              /\ ~(worker[w].one = 0 /\ ok) /\ worker[w].one < Len(worker[w].report.items)
<1>1. worker[w] \in Requests /\ worker[w].one <= Len(worker[w].report.items)
  BY DEF QueueTypes, Identity
<1>2. worker[w].one \in Nat /\ Len(worker[w].report.items) \in Nat
  BY <1>1 DEF Requests, Reports
<1>3. CASE (worker[w].one = 0 /\ ok) \/ LastOne(w)
  <2>1. After(w, ok) = Idle /\ After(w, ok).pc # "do"
    BY <1>3, NoReportType DEF After
  <2> QED BY <1>3, <2>1 DEF Return, LastOne
<1>4. CASE ~((worker[w].one = 0 /\ ok) \/ LastOne(w))
  <2>1. After(w, ok) = SendNext(w)
    BY <1>4 DEF After
  <2>2. SendNext(w).pc = "do"
    BY <1>1 DEF SendNext, Requests
  <2> QED BY <1>1, <1>2, <1>4, <2>1, <2>2 DEF Return, LastOne
<1> QED BY <1>3, <1>4

(* The fallback goes on with the next metric.                              *)
LEMMA SendNextType ==
    ASSUME NEW w, worker[w] \in Requests, worker[w].one < Len(worker[w].report.items)
    PROVE  /\ SendNext(w) \in Requests /\ SendNext(w).pc = "do"
           /\ SendNext(w).report = worker[w].report /\ SendNext(w).one = worker[w].one + 1
           /\ SendNext(w).one <= Len(SendNext(w).report.items)
<1>1. worker[w].one \in Nat /\ Len(worker[w].report.items) \in Nat
  BY DEF Requests, Reports
<1>2. /\ SendNext(w) \in Requests /\ SendNext(w).pc = "do"
      /\ SendNext(w).report = worker[w].report /\ SendNext(w).one = worker[w].one + 1
  <2>1. worker[w].report \in Reports
    BY DEF Requests
  <2> QED BY <1>1, <2>1 DEF SendNext, Requests
<1> QED BY <1>1, <1>2

(* The end of a request moves one worker.                                  *)
LEMMA ReturnMoves ==
    ASSUME QueueTypes, Identity, NEW w \in Workers, Held(w), NEW ok \in BOOLEAN, Return(w, ok)
    PROVE  \E q : Moves(w, q)
<1>1. worker[w] \in Requests
  BY DEF QueueTypes
<1>2. CASE worker' = [worker EXCEPT ![w] = Idle] /\ handled' = handled \cup {worker[w].report.id}
  BY <1>2 DEF Moves
<1>3. CASE /\ worker' = [worker EXCEPT ![w] = SendNext(w)] /\ handled' = handled
           /\ worker[w].one < Len(worker[w].report.items)
  <2>1. /\ SendNext(w) \in Requests /\ SendNext(w).pc = "do"
        /\ SendNext(w).report = worker[w].report
        /\ SendNext(w).one <= Len(SendNext(w).report.items)
    BY <1>1, <1>3, SendNextType
  <2>2. Moves(w, SendNext(w))
    BY <1>3, <2>1 DEF Moves, AtWork
  <2> QED BY <2>2
<1> QED BY <1>2, <1>3, ReturnShape

(* A step that only changes where the worker is with its request.          *)
LEMMA PcMoves ==
    ASSUME QueueTypes, Identity, NEW w \in Workers, Held(w), NEW c \in AtWork, NEW t \in Nat,
           worker' = [worker EXCEPT ![w] = [worker[w] EXCEPT !.pc = c, !.try = t]],
           handled' = handled
    PROVE  \E q : Moves(w, q)
<1> DEFINE q == [worker[w] EXCEPT !.pc = c, !.try = t]
<1>1. worker[w] \in Requests /\ worker[w].one <= Len(worker[w].report.items)
  BY DEF QueueTypes, Identity
<1>2. q \in Requests /\ q.pc = c /\ q.report = worker[w].report /\ q.one = worker[w].one
  BY <1>1 DEF Requests, AtWork
<1>3. Moves(w, q)
  BY <1>1, <1>2 DEF Moves
<1> QED BY <1>3

(* What Fails does.                                                        *)
LEMMA FailsShape ==
    ASSUME QueueTypes, NEW w \in Workers, NEW retryable \in BOOLEAN, Fails(w, retryable)
    PROVE  \/ Return(w, FALSE)
           \/ /\ worker' = [worker EXCEPT ![w] = [worker[w] EXCEPT !.pc = "backoff"]]
              /\ handled' = handled /\ ~ctxDone /\ retryable
BY DEF Fails

(* A failed attempt moves one worker.                                      *)
LEMMA FailsMoves ==
    ASSUME QueueTypes, Identity, NEW w \in Workers, Held(w), NEW retryable \in BOOLEAN,
           Fails(w, retryable)
    PROVE  \E q : Moves(w, q)
<1>1. CASE Return(w, FALSE)
  BY <1>1, ReturnMoves
<1>2. CASE /\ worker' = [worker EXCEPT ![w] = [worker[w] EXCEPT !.pc = "backoff"]]
           /\ handled' = handled
  <2>1. worker[w] \in Requests /\ worker[w].try \in Nat
    BY DEF QueueTypes, Requests
  <2>2. [worker[w] EXCEPT !.pc = "backoff"] = [worker[w] EXCEPT !.pc = "backoff", !.try = worker[w].try]
    BY <2>1 DEF Requests
  <2> QED BY <1>2, <2>1, <2>2, PcMoves DEF AtWork
<1> QED BY <1>1, <1>2, FailsShape

(* Every step of a worker at work, and of the network against it.          *)
LEMMA WorkerMoves ==
    ASSUME QueueTypes, Identity, NEW w \in Workers,
           Do(w) \/ Backoff(w) \/ Cancelled(w) \/ Arrives(w) \/ Answered(w) \/ Refused(w) \/ Breaks(w)
    PROVE  Held(w) /\ \E q : Moves(w, q)
<1>1. worker[w] \in Requests /\ worker[w].try \in Nat
  BY DEF QueueTypes, Requests
<1>2. \A c : [worker EXCEPT ![w].pc = c] = [worker EXCEPT ![w] = [worker[w] EXCEPT !.pc = c, !.try = worker[w].try]]
  <2>1. worker[w] = [pc |-> worker[w].pc, report |-> worker[w].report,
                     one |-> worker[w].one, try |-> worker[w].try]
    BY <1>1 DEF Requests
  <2>2. \A c : [worker[w] EXCEPT !.pc = c] = [worker[w] EXCEPT !.pc = c, !.try = worker[w].try]
    BY <2>1
  <2> QED BY <2>2
<1>3. CASE Do(w)
  <2>1. Held(w)
    BY <1>3 DEF Do, Held
  <2>2. CASE Fails(w, FALSE)
    BY <2>1, <2>2, FailsMoves
  <2>3. CASE worker' = [worker EXCEPT ![w].pc = "sent"] /\ handled' = handled
    BY <1>1, <1>2, <2>1, <2>3, PcMoves DEF AtWork
  <2> QED BY <1>3, <2>1, <2>2, <2>3 DEF Do
<1>4. CASE Backoff(w)
  <2>1. Held(w)
    BY <1>4 DEF Backoff, Held
  <2>2. CASE Return(w, FALSE)
    BY <2>1, <2>2, ReturnMoves
  <2>3. CASE worker' = [worker EXCEPT ![w].pc = "do", ![w].try = @ + 1] /\ handled' = handled
    <3>1. worker' = [worker EXCEPT ![w] = [worker[w] EXCEPT !.pc = "do", !.try = worker[w].try + 1]]
      BY <1>1, <2>3 DEF QueueTypes, Requests
    <3>2. worker[w].try + 1 \in Nat
      BY <1>1
    <3> QED BY <2>1, <2>3, <3>1, <3>2, PcMoves DEF AtWork
  <2> QED BY <1>4, <2>1, <2>2, <2>3 DEF Backoff
<1>5. CASE Cancelled(w)
  BY <1>5, FailsMoves DEF Cancelled, Held
<1>6. CASE Arrives(w)
  <2>1. Held(w) /\ worker' = [worker EXCEPT ![w].pc = "stored"] /\ handled' = handled
    BY <1>6 DEF Arrives, Held, queueVars
  <2> QED BY <1>1, <1>2, <2>1, PcMoves DEF AtWork
<1>7. CASE Answered(w)
  BY <1>7, ReturnMoves DEF Answered, Held
<1>8. CASE Refused(w)
  BY <1>8, ReturnMoves DEF Refused, Held
<1>9. CASE Breaks(w)
  BY <1>9, FailsMoves DEF Breaks, Held
<1> QED BY <1>3, <1>4, <1>5, <1>6, <1>7, <1>8, <1>9

(* Moving keeps every report in one place.                                 *)
LEMMA MovesKeeps ==
    ASSUME QueueInv, NEW w \in Workers, Held(w), NEW q, Moves(w, q), QueueFrame,
           ctxDone' \in BOOLEAN
    PROVE  QueueInv'
<1> DEFINE id == worker[w].report.id
<1>1. /\ worker \in [Workers -> Requests] /\ worker[w] \in Requests
      /\ id \in DOMAIN reports /\ handled \subseteq DOMAIN reports
  BY DEF QueueInv, QueueTypes, Identity, Known
<1>2. q \in Requests /\ worker' = [worker EXCEPT ![w] = q]
      /\ worker' \in [Workers -> Requests]
      /\ worker'[w] = q /\ \A v \in Workers : v # w => worker'[v] = worker[v]
  BY <1>1, NoReportType DEF Moves
<1>3. CASE q = Idle /\ handled' = handled \cup {id}
  <2>1. ~Held(w)' /\ \A v \in Workers : Held(v)' => v # w /\ Held(v) /\ worker'[v] = worker[v]
    BY <1>2, <1>3, NoReportType DEF Held
  <2>2. QueueTypes'
    BY <1>1, <1>2, <1>3 DEF QueueInv, QueueTypes, QueueFrame
  <2>3. Identity'
    BY <2>1 DEF QueueInv, Identity, QueueFrame, Known
  <2>4. Exclusive'
    BY <1>3, <2>1 DEF QueueInv, Exclusive, QueueFrame
  <2>5. NoneForgotten'
    <3> SUFFICES ASSUME NEW r \in DOMAIN reports, r \notin handled' PROVE InHand(r)'
      BY DEF NoneForgotten, QueueFrame
    <3>1. r # id /\ InHand(r)
      BY <1>3 DEF QueueInv, NoneForgotten
    <3>2. \A v \in Workers : Held(v) /\ worker[v].report.id = r => Held(v)' /\ worker'[v].report.id = r
      BY <1>2, <3>1 DEF Held
    <3> QED BY <3>1, <3>2 DEF InHand, QueueFrame
  <2>6. Shutdown'
    <3>1. \A v \in Workers : worker'[v].pc = "exited" <=> v # w /\ worker[v].pc = "exited"
      BY <1>2, <1>3, NoReportType
    <3>2. worker[w].pc # "exited"
      BY DEF Held
    <3>3. Started(rateLimit) \subseteq Workers
      BY StartedWorkers DEF QueueInv, QueueTypes
    <3> QED BY <3>1, <3>2, <3>3 DEF QueueInv, Shutdown, QueueFrame, WorkersGone, SamplersGone
  <2> QED BY <2>2, <2>3, <2>4, <2>5, <2>6 DEF QueueInv
<1>4. CASE /\ q.pc \in AtWork /\ q.report = worker[w].report
           /\ q.one <= Len(q.report.items) /\ handled' = handled
  <2>1. Held(w)' /\ worker'[w].report = worker[w].report
    BY <1>2, <1>4 DEF Held, AtWork
  <2>2. \A v \in Workers : /\ Held(v)' <=> Held(v)
                           /\ worker'[v].report = worker[v].report
    BY <1>2, <2>1 DEF Held
  <2>3. QueueTypes'
    BY <1>1, <1>2, <1>4 DEF QueueInv, QueueTypes, QueueFrame
  <2>4. Identity'
    BY <1>2, <1>4, <2>2 DEF QueueInv, Identity, QueueFrame, Known
  <2>5. Exclusive'
    BY <1>4, <2>2 DEF QueueInv, Exclusive, QueueFrame
  <2>6. NoneForgotten'
    <3>1. \A r : InHand(r)' <=> InHand(r)
      BY <2>2 DEF InHand, QueueFrame
    <3> QED BY <1>4, <3>1 DEF QueueInv, NoneForgotten, QueueFrame
  <2>7. Shutdown'
    <3>1. \A v \in Workers : worker'[v].pc = "exited" <=> v # w /\ worker[v].pc = "exited"
      BY <1>2, <1>4 DEF AtWork
    <3>2. worker[w].pc # "exited"
      BY DEF Held
    <3>3. Started(rateLimit) \subseteq Workers
      BY StartedWorkers DEF QueueInv, QueueTypes
    <3> QED BY <3>1, <3>2, <3>3 DEF QueueInv, Shutdown, QueueFrame, WorkersGone, SamplersGone
  <2> QED BY <2>3, <2>4, <2>5, <2>6, <2>7 DEF QueueInv
<1> QED BY <1>3, <1>4 DEF Moves

(* Steps that leave the reports where they are.                            *)
LEMMA ParkedKeeps ==
    ASSUME QueueInv, ctxDone' \in BOOLEAN,
           UNCHANGED <<run, pending, reports, rateLimit, jobs, jobsOpen, worker, handled>>,
           run = "exited" => SamplersGone'
    PROVE  QueueInv'
<1>1. QueueTypes'
  BY DEF QueueInv, QueueTypes
<1>2. Identity'
  BY DEF QueueInv, Identity, Known, Held
<1>3. Exclusive'
  BY DEF QueueInv, Exclusive, Held
<1>4. NoneForgotten'
  BY DEF QueueInv, NoneForgotten, InHand, Held
<1>5. Shutdown'
  BY DEF QueueInv, Shutdown, WorkersGone
<1> QED BY <1>1, <1>2, <1>3, <1>4, <1>5 DEF QueueInv

(* Run takes a report, which waits for room in the channel.               *)
LEMMA ReportKeeps == ASSUME QueueInv, ReportsInv, ReportsInv', CollectorInv, Report PROVE QueueInv'
<1>1. PICK batch \in Batches(stats) :
         /\ pending' = [id |-> Len(reports) + 1, items |-> batch]
         /\ reports' = Append(reports, batch)
  BY DEF Report
<1>2. batch \in Seq(UsableMetric) /\ reports \in Seq(Seq(UsableMetric))
  BY BatchCoherent DEF Proper, ReportsInv
<1>3. /\ Len(reports') = Len(reports) + 1 /\ Len(reports) \in Nat
      /\ DOMAIN reports' = DOMAIN reports \cup {Len(reports) + 1}
      /\ \A i \in DOMAIN reports : reports'[i] = reports[i]
      /\ reports'[Len(reports) + 1] = batch
      /\ Len(reports) + 1 \notin DOMAIN reports
  BY <1>1, <1>2, AppendedReports
<1>4. /\ run = "select" /\ run' = "submit"
      /\ UNCHANGED <<ctxDone, rateLimit, jobs, jobsOpen, worker, handled, sampler>>
  BY DEF Report, publisherVars, queueVars, collectorVars
<1>5. pending'.id = Len(reports) + 1 /\ pending'.items = batch /\ pending' \in Reports
  BY <1>1, <1>2, <1>3 DEF Reports
<1>6. QueueTypes'
  BY <1>3, <1>4, <1>5 DEF QueueInv, QueueTypes
<1>7. \A p : Known(p) => Known(p)'
  BY <1>3 DEF Known
<1>8. Identity'
  <2>1. Known(pending)'
    BY <1>3, <1>5 DEF Known
  <2>2. \A i \in DOMAIN jobs : Known(jobs[i])'
    BY <1>3, <1>4 DEF Known, QueueInv, Identity
  <2>3. \A w \in Workers : Held(w) => Known(worker[w].report)' /\ worker[w].one <= Len(worker[w].report.items)
    BY <1>3, <1>4 DEF Known, QueueInv, Identity
  <2> QED BY <1>3, <1>4, <1>5, <2>1, <2>2, <2>3 DEF Identity, Held
<1>9. Exclusive'
  <2>1. \A i \in DOMAIN jobs : jobs[i].id # pending'.id
    BY <1>3, <1>5 DEF QueueInv, Identity, Known
  <2>2. \A w \in Workers : Held(w) => worker[w].report.id # pending'.id
    BY <1>3, <1>5 DEF QueueInv, Identity, Known
  <2>3. pending'.id \notin handled
    BY <1>3, <1>5 DEF QueueInv, QueueTypes
  <2> QED BY <1>4, <2>1, <2>2, <2>3 DEF QueueInv, Exclusive, Held
<1>10. NoneForgotten'
  <2>1. \A r \in DOMAIN reports :
           \/ r \in handled
           \/ \E i \in DOMAIN jobs : jobs[i].id = r
           \/ \E w \in Workers : Held(w) /\ worker[w].report.id = r
    BY <1>4 DEF QueueInv, NoneForgotten, InHand
  <2> QED BY <1>3, <1>4, <1>5, <2>1 DEF NoneForgotten, InHand, Held
<1>11. Shutdown'
  BY <1>4 DEF QueueInv, Shutdown, WorkersGone, SamplersGone
<1> QED BY <1>6, <1>8, <1>9, <1>10, <1>11 DEF QueueInv

(* Run submits the report it held.                                         *)
LEMMA SubmittedKeeps == ASSUME QueueInv, Submitted PROVE QueueInv'
<1>1. /\ run = "submit" /\ run' = "select" /\ pending' = NoReport /\ jobs' = Append(jobs, pending)
      /\ UNCHANGED <<ctxDone, rateLimit, jobsOpen, worker, handled, sampler, reports>>
  BY DEF Submitted, Submit, collectorVars
<1>2. jobs \in Seq(Reports) /\ pending \in Reports
  BY DEF QueueInv, QueueTypes
<1>3. /\ jobs' \in Seq(Reports) /\ Len(jobs) \in Nat
      /\ DOMAIN jobs' = DOMAIN jobs \cup {Len(jobs) + 1}
      /\ \A i \in DOMAIN jobs : jobs'[i] = jobs[i]
      /\ jobs'[Len(jobs) + 1] = pending
      /\ Len(jobs) + 1 \notin DOMAIN jobs
  BY <1>1, <1>2, AppendedReports
<1>4. QueueTypes'
  BY <1>1, <1>3, NoReportType DEF QueueInv, QueueTypes
<1>5. Identity'
  BY <1>1, <1>3 DEF QueueInv, Identity, Known, Held
<1>6. Exclusive'
  <2>1. \A i, j \in DOMAIN jobs' : jobs'[i].id = jobs'[j].id => i = j
    BY <1>1, <1>3 DEF QueueInv, Exclusive
  <2>2. \A i \in DOMAIN jobs' : jobs'[i].id \notin handled
    BY <1>1, <1>3 DEF QueueInv, Exclusive
  <2>3. \A w \in Workers : Held(w) => \A i \in DOMAIN jobs' : jobs'[i].id # worker[w].report.id
    BY <1>1, <1>3 DEF QueueInv, Exclusive
  <2> QED BY <1>1, <2>1, <2>2, <2>3 DEF QueueInv, Exclusive, Held
<1>7. NoneForgotten'
  <2> SUFFICES ASSUME NEW r \in DOMAIN reports, r \notin handled PROVE InHand(r)'
    BY <1>1 DEF NoneForgotten
  <2>1. InHand(r)
    BY DEF QueueInv, NoneForgotten
  <2>2. CASE pending.id = r
    BY <1>3, <2>2 DEF InHand
  <2>3. CASE \E i \in DOMAIN jobs : jobs[i].id = r
    BY <1>3, <2>3 DEF InHand
  <2>4. CASE \E w \in Workers : Held(w) /\ worker[w].report.id = r
    BY <1>1, <2>4 DEF InHand, Held
  <2> QED BY <2>1, <2>2, <2>3, <2>4 DEF InHand
<1>8. Shutdown'
  BY <1>1 DEF QueueInv, Shutdown, WorkersGone, SamplersGone
<1> QED BY <1>4, <1>5, <1>6, <1>7, <1>8 DEF QueueInv

(* A worker takes the head of the channel.                                 *)
LEMMA TakeKeeps == ASSUME QueueInv, NEW w \in Workers, Take(w), UNCHANGED <<agentVars, ctxDone, sampler>>
                   PROVE  QueueInv'
<1> DEFINE q == [Idle EXCEPT !.pc = "do", !.report = Head(jobs)]
<1>1. /\ worker[w].pc = "idle" /\ jobs # << >> /\ jobs' = Tail(jobs)
      /\ worker' = [worker EXCEPT ![w] = q]
      /\ UNCHANGED <<run, pending, reports, ctxDone, rateLimit, jobsOpen, handled, sampler>>
  BY DEF Take, agentVars
<1>2. jobs \in Seq(Reports) /\ worker \in [Workers -> Requests]
  BY DEF QueueInv, QueueTypes
<1>3. /\ Len(jobs) \in Nat /\ 1 \in DOMAIN jobs /\ Head(jobs) = jobs[1] /\ Head(jobs) \in Reports
      /\ jobs' \in Seq(Reports) /\ DOMAIN jobs' = 1 .. Len(jobs) - 1 /\ DOMAIN jobs = 1 .. Len(jobs)
      /\ \A i \in DOMAIN jobs' : jobs'[i] = jobs[i + 1] /\ i + 1 \in DOMAIN jobs /\ i + 1 # 1
  BY <1>1, <1>2
<1>4. q \in Requests /\ q.pc = "do" /\ q.report = jobs[1] /\ q.one = 0
  BY <1>3 DEF Idle, Requests
<1>5. /\ worker' \in [Workers -> Requests] /\ worker'[w] = q
      /\ \A v \in Workers : v # w => worker'[v] = worker[v]
  BY <1>1, <1>2, <1>4
<1>6. /\ Held(w)' /\ ~Held(w)
      /\ \A v \in Workers : v # w => (Held(v)' <=> Held(v)) /\ worker'[v].report = worker[v].report
  BY <1>1, <1>4, <1>5 DEF Held
<1>7. QueueTypes'
  BY <1>1, <1>3, <1>5 DEF QueueInv, QueueTypes
<1>8. Identity'
  <2>1. Known(jobs[1]) /\ \A i \in DOMAIN jobs' : Known(jobs'[i])
    BY <1>3 DEF QueueInv, Identity
  <2>2. \A v \in Workers : Held(v)' =>
           Known(worker'[v].report) /\ worker'[v].one <= Len(worker'[v].report.items)
    <3> TAKE v \in Workers
    <3>1. CASE v = w
      <4>1. Len(jobs[1].items) \in Nat
        BY <1>2, <1>3 DEF Reports
      <4>2. worker'[v].report = jobs[1] /\ worker'[v].one = 0
        BY <1>4, <1>5, <3>1
      <4> QED BY <2>1, <4>1, <4>2
    <3>2. CASE v # w
      BY <1>5, <1>6, <3>2 DEF QueueInv, Identity
    <3> QED BY <3>1, <3>2
  <2> QED BY <1>1, <2>1, <2>2 DEF QueueInv, Identity, Known
<1>9. Exclusive'
  <2>1. /\ jobs[1].id \notin handled
        /\ \A i \in DOMAIN jobs' : jobs'[i].id # jobs[1].id
        /\ \A v \in Workers : Held(v) => worker[v].report.id # jobs[1].id
        /\ run = "submit" => jobs[1].id # pending.id
    BY <1>3 DEF QueueInv, Exclusive
  <2>2. \A i, j \in DOMAIN jobs' : jobs'[i].id = jobs'[j].id => i = j
    <3> TAKE i, j \in DOMAIN jobs'
    <3> HAVE jobs'[i].id = jobs'[j].id
    <3>1. i + 1 = j + 1
      BY <1>3 DEF QueueInv, Exclusive
    <3> QED BY <1>3, <3>1
  <2>3. \A i \in DOMAIN jobs' : jobs'[i].id \notin handled
    BY <1>3 DEF QueueInv, Exclusive
  <2>4. \A v \in Workers : Held(v)' =>
          /\ worker'[v].report.id \notin handled
          /\ \A i \in DOMAIN jobs' : jobs'[i].id # worker'[v].report.id
          /\ \A u \in Workers : Held(u)' /\ worker'[u].report.id = worker'[v].report.id => u = v
          /\ run = "submit" => worker'[v].report.id # pending.id
    <3> TAKE v \in Workers
    <3> HAVE Held(v)'
    <3>1. CASE v = w
      BY <1>4, <1>5, <1>6, <2>1, <3>1
    <3>2. CASE v # w
      <4>1. Held(v) /\ worker'[v].report = worker[v].report
        BY <1>6, <3>2
      <4>2. \A i \in DOMAIN jobs' : jobs'[i].id # worker'[v].report.id
        BY <1>3, <4>1 DEF QueueInv, Exclusive
      <4>3. \A u \in Workers : Held(u)' /\ worker'[u].report.id = worker'[v].report.id => u = v
        <5>1. worker'[w].report.id = jobs[1].id /\ worker[v].report.id # jobs[1].id
          BY <1>4, <1>5, <2>1, <4>1
        <5> QED BY <1>6, <4>1, <5>1 DEF QueueInv, Exclusive
      <4> QED BY <4>1, <4>2, <4>3 DEF QueueInv, Exclusive
    <3> QED BY <3>1, <3>2
  <2>5. run = "submit" => pending.id \notin handled /\ \A i \in DOMAIN jobs' : jobs'[i].id # pending.id
    BY <1>3 DEF QueueInv, Exclusive
  <2> QED BY <1>1, <2>2, <2>3, <2>4, <2>5 DEF Exclusive
<1>10. NoneForgotten'
  <2> SUFFICES ASSUME NEW r \in DOMAIN reports, r \notin handled PROVE InHand(r)'
    BY <1>1 DEF NoneForgotten
  <2>1. InHand(r)
    BY DEF QueueInv, NoneForgotten
  <2>2. CASE run = "submit" /\ pending.id = r
    BY <1>1, <2>2 DEF InHand
  <2>3. ASSUME NEW i \in DOMAIN jobs, jobs[i].id = r PROVE InHand(r)'
    <3>1. CASE i = 1
      BY <1>4, <1>5, <1>6, <2>3, <3>1 DEF InHand
    <3>2. CASE i # 1
      <4>1. i - 1 \in DOMAIN jobs' /\ jobs'[i - 1] = jobs[(i - 1) + 1] /\ (i - 1) + 1 = i
        BY <1>3, <3>2
      <4> QED BY <2>3, <4>1 DEF InHand
    <3> QED BY <3>1, <3>2
  <2>4. CASE \E v \in Workers : Held(v) /\ worker[v].report.id = r
    BY <1>6, <2>4 DEF InHand
  <2> QED BY <2>1, <2>2, <2>3, <2>4 DEF InHand
<1>11. Shutdown'
  <2>1. \A v \in Workers : worker'[v].pc = "exited" => worker[v].pc = "exited"
    BY <1>4, <1>5
  <2>2. ~WorkersGone
    BY <1>1 DEF WorkersGone
  <2>3. Started(rateLimit) \subseteq Workers
    BY StartedWorkers DEF QueueInv, QueueTypes
  <2>4. \A v \in Started(rateLimit) : worker'[v].pc # "exited"
    BY <1>1, <2>1, <2>3 DEF QueueInv, Shutdown
  <2> QED BY <1>1, <2>2, <2>4 DEF QueueInv, Shutdown, WorkersGone, SamplersGone
<1> QED BY <1>7, <1>8, <1>9, <1>10, <1>11 DEF QueueInv

(* A worker exits when the channel is closed and empty.                    *)
LEMMA WorkerExitsKeeps ==
    ASSUME QueueInv, NEW w \in Workers, WorkerExits(w), UNCHANGED <<agentVars, ctxDone, sampler>>
    PROVE  QueueInv'
<1>1. /\ worker[w].pc = "idle" /\ jobs = << >> /\ ~jobsOpen
      /\ worker' = [worker EXCEPT ![w].pc = "exited"]
      /\ UNCHANGED <<run, pending, reports, ctxDone, rateLimit, jobs, jobsOpen, handled, sampler>>
  BY DEF WorkerExits, agentVars, queueVars
<1>2. worker \in [Workers -> Requests]
  BY DEF QueueInv, QueueTypes
<1>3. worker' \in [Workers -> Requests] /\ worker'[w].pc = "exited"
      /\ \A v \in Workers : v # w => worker'[v] = worker[v]
  BY <1>1, <1>2 DEF Requests
<1>4. \A v \in Workers : (Held(v)' <=> Held(v)) /\ (Held(v) => worker'[v] = worker[v])
  BY <1>1, <1>3 DEF Held
<1>5. QueueTypes'
  BY <1>1, <1>3 DEF QueueInv, QueueTypes
<1>6. Identity'
  BY <1>1, <1>4 DEF QueueInv, Identity, Known
<1>7. Exclusive'
  BY <1>1, <1>4 DEF QueueInv, Exclusive
<1>8. NoneForgotten'
  BY <1>1, <1>4 DEF QueueInv, NoneForgotten, InHand
<1>9. Shutdown'
  BY <1>1, <1>3 DEF QueueInv, Shutdown, WorkersGone, SamplersGone
<1> QED BY <1>5, <1>6, <1>7, <1>8, <1>9 DEF QueueInv

(* Run leaves its loop.                                                    *)
LEMMA StopReportingKeeps == ASSUME QueueInv, StopReporting PROVE QueueInv'
<1>1. /\ run = "select" /\ run' = "workers" /\ jobsOpen' = FALSE
      /\ UNCHANGED <<pending, reports, ctxDone, rateLimit, jobs, worker, handled, sampler>>
  BY DEF StopReporting, CloseJobs, collectorVars
<1>2. QueueTypes'
  BY <1>1 DEF QueueInv, QueueTypes
<1>3. Identity'
  BY <1>1 DEF QueueInv, Identity, Known, Held
<1>4. Exclusive'
  BY <1>1 DEF QueueInv, Exclusive, Held
<1>5. NoneForgotten'
  BY <1>1 DEF QueueInv, NoneForgotten, InHand, Held
<1>6. Shutdown'
  BY <1>1 DEF QueueInv, Shutdown
<1> QED BY <1>2, <1>3, <1>4, <1>5, <1>6 DEF QueueInv

(* Run stops the collector and returns.                                    *)
LEMMA StopCollectorKeeps == ASSUME QueueInv, StopCollector \/ Exit PROVE QueueInv'
<1>1. /\ \/ run = "workers" /\ run' = "collector" /\ WorkersGone
         \/ run = "collector" /\ run' = "exited" /\ SamplersGone
      /\ UNCHANGED <<pending, reports, ctxDone, rateLimit, jobs, jobsOpen, worker, handled, sampler>>
  BY DEF StopCollector, Exit, CloseStop, publisherVars, queueVars, collectorVars
<1>2. QueueTypes'
  BY <1>1 DEF QueueInv, QueueTypes
<1>3. Identity'
  BY <1>1 DEF QueueInv, Identity, Known, Held
<1>4. Exclusive'
  BY <1>1 DEF QueueInv, Exclusive, Held
<1>5. NoneForgotten'
  BY <1>1 DEF QueueInv, NoneForgotten, InHand, Held
<1>6. Shutdown'
  BY <1>1 DEF QueueInv, Shutdown, WorkersGone, SamplersGone
<1> QED BY <1>2, <1>3, <1>4, <1>5, <1>6 DEF QueueInv

(* A sampling goroutine that has ended does nothing.                       *)
LEMMA SamplersStay ==
    ASSUME QueueInv, NEW s \in Samplers,
           Poll(s) \/ SetNextGauge(s) \/ EndPoll(s) \/ SamplerExits(s)
    PROVE  run # "exited"
<1>1. sampler[s].pc # "exited"
  BY DEF Poll, SetNextGauge, EndPoll, SamplerExits
<1> QED BY <1>1 DEF QueueInv, Shutdown, SamplersGone

(* The channel is empty and no worker has a report.                        *)
LEMMA QueueInit == ASSUME Init PROVE QueueInv
<1>1. /\ run = "select" /\ pending = NoReport /\ reports = << >> /\ ctxDone = FALSE
      /\ jobs = << >> /\ jobsOpen = TRUE /\ handled = {} /\ rateLimit \in RateLimits
      /\ worker = [w \in Workers |-> IF w \in Started(rateLimit) THEN Idle ELSE Exited]
  BY DEF Init, ContextInit, PublisherInit
<1>2. \A w \in Workers : worker[w] \in Requests /\ worker[w].pc \in {"idle", "exited"} /\ ~Held(w)
  BY <1>1, NoReportType DEF Held
<1>3. << >> \in Seq(Reports) /\ DOMAIN << >> = {}
  OBVIOUS
<1>4. QueueTypes
  BY <1>1, <1>2, <1>3, NoReportType DEF QueueTypes
<1>5. Identity
  BY <1>1, <1>2, <1>3 DEF Identity
<1>6. Exclusive
  BY <1>1, <1>2, <1>3 DEF Exclusive
<1>7. NoneForgotten
  BY <1>1, <1>3 DEF NoneForgotten
<1>8. \A w \in Started(rateLimit) : worker[w].pc = "idle"
  BY <1>1, StartedWorkers, NoReportType
<1>9. Shutdown
  BY <1>1, <1>8 DEF Shutdown
<1> QED BY <1>4, <1>5, <1>6, <1>7, <1>9 DEF QueueInv

(* Every step keeps the reports in one place each.                         *)
LEMMA QueueStep ==
    ASSUME QueueInv, CollectorInv, ReportsInv, ReportsInv', [Next]_vars
    PROVE  QueueInv'
<1>0. ctxDone \in BOOLEAN /\ QueueTypes /\ Identity
  BY DEF QueueInv, QueueTypes
<1>1. CASE UNCHANGED vars
  BY <1>0, <1>1, ParkedKeeps
     DEF vars, agentVars, publisherVars, queueVars, collectorVars, QueueInv, Shutdown, SamplersGone
<1>2. CASE Report
  BY <1>2, ReportKeeps
<1>3. CASE StopReporting
  BY <1>3, StopReportingKeeps
<1>4. CASE RunStep
  BY <1>4, SubmittedKeeps, StopCollectorKeeps DEF RunStep
<1>5. CASE Interrupt
  <2>1. ctxDone' = TRUE /\ run # "exited"
        /\ UNCHANGED <<run, pending, reports, rateLimit, jobs, jobsOpen, worker, handled>>
    BY <1>5 DEF Interrupt, Signal, agentVars, publisherVars, queueVars
  <2> QED BY <2>1, ParkedKeeps
<1>6. ASSUME NEW s \in Samplers, Sampling(s) \/ SamplerLeaves(s) PROVE QueueInv'
  <2>1. /\ Poll(s) \/ SetNextGauge(s) \/ EndPoll(s) \/ SamplerExits(s)
        /\ UNCHANGED <<ctxDone, run, pending, reports, rateLimit, jobs, jobsOpen, worker, handled>>
    BY <1>6 DEF Sampling, SamplerLeaves, agentVars, publisherVars, queueVars
  <2>2. run # "exited"
    BY <2>1, SamplersStay
  <2> QED BY <1>0, <2>1, <2>2, ParkedKeeps
<1>7. ASSUME NEW w \in Workers,
             Do(w) \/ Backoff(w) \/ Cancelled(w) \/ Arrives(w) \/ Answered(w) \/ Refused(w) \/ Breaks(w),
             UNCHANGED <<agentVars, ctxDone, collectorVars>>
      PROVE  QueueInv'
  <2>1. Held(w) /\ \E q : Moves(w, q)
    BY <1>0, <1>7, WorkerMoves
  <2>2. QueueFrame
    BY <1>7 DEF Do, Backoff, Cancelled, Arrives, Answered, Refused, Breaks, queueVars,
                QueueFrame, agentVars, collectorVars
  <2>3. ctxDone' \in BOOLEAN
    BY <1>0, <1>7
  <2> QED BY <2>1, <2>2, <2>3, MovesKeeps
<1>8. ASSUME NEW w \in Workers, Works(w) \/ Served(w) PROVE QueueInv'
  <2>1. UNCHANGED <<agentVars, ctxDone, collectorVars>>
    BY <1>8 DEF Works, Served
  <2>2. CASE Take(w)
    BY <2>1, <2>2, TakeKeeps DEF collectorVars
  <2>3. CASE WorkerExits(w)
    BY <2>1, <2>3, WorkerExitsKeeps DEF collectorVars
  <2>4. CASE Do(w) \/ Backoff(w) \/ Cancelled(w) \/ Arrives(w) \/ Answered(w)
    BY <1>7, <2>1, <2>4
  <2> QED BY <1>8, <2>2, <2>3, <2>4 DEF Works, Served, WorkerStep, ServerStep
<1>9. CASE NetworkFails
  <2>1. UNCHANGED <<agentVars, ctxDone, collectorVars>>
    BY <1>9 DEF NetworkFails
  <2>2. CASE ArrivesLate
    <3>1. UNCHANGED <<run, pending, reports, rateLimit, jobs, jobsOpen, worker, handled, sampler>>
      BY <2>1, <2>2 DEF ArrivesLate, queueVars, agentVars, collectorVars
    <3>2. run = "exited" => SamplersGone'
      BY <3>1 DEF QueueInv, Shutdown, SamplersGone
    <3> QED BY <1>0, <2>1, <3>1, <3>2, ParkedKeeps
  <2>3. CASE \E w \in Workers : Refused(w) \/ Breaks(w)
    BY <1>7, <2>1, <2>3
  <2> QED BY <1>9, <2>2, <2>3 DEF NetworkFails
<1> QED BY <1>1, <1>2, <1>3, <1>4, <1>5, <1>6, <1>8, <1>9 DEF Next

(* Workers that have all ended leave nothing behind.                       *)
LEMMA QueueDrained == ASSUME QueueInv, ReportsInv PROVE DrainedAtExit
<1> SUFFICES ASSUME run = "exited" PROVE DrainedAtExit
  BY DEF DrainedAtExit
<1>1. WorkersGone /\ SamplersGone /\ run # "submit"
  BY DEF QueueInv, Shutdown
<1>2. 1 \in Started(rateLimit) /\ 1 \in Workers
  BY StartedWorkers DEF QueueInv, QueueTypes
<1>3. jobs = << >>
  BY <1>1, <1>2 DEF QueueInv, Shutdown, WorkersGone
<1>4. \A w \in Workers : ~Held(w)
  BY <1>1 DEF WorkersGone, Held
<1>5. \A r \in DOMAIN reports : r \in handled
  BY <1>1, <1>3, <1>4 DEF QueueInv, NoneForgotten, InHand
<1>6. handled \subseteq DOMAIN reports
  BY DEF QueueInv, QueueTypes
<1> QED BY <1>1, <1>3, <1>5, <1>6 DEF DrainedAtExit

(* When Run returns (the deferred sender.Stop, then collector.Stop) every  *)
(* goroutine has ended and every report it submitted was tried by a worker *)
(* - whatever failed, and wherever the signal came.                        *)
THEOREM NothingLeftBehind == Spec => []DrainedAtExit
<1> DEFINE I == CollectorInv /\ ReportsInv /\ QueueInv
<1>1. Init => I
  BY CollectorReportsInit, QueueInit
<1>2. I /\ [Next]_vars => I'
  BY CollectorReportsStep, QueueStep
<1>3. I => DrainedAtExit
  BY QueueDrained
<1> QED BY <1>1, <1>2, <1>3, PTL DEF Spec

-----------------------------------------------------------------------------
(* The reports are numbered within the bound of the history.               *)
LEMMA KnownInRange ==
    ASSUME ReportsInv, NEW p, Known(p)
    PROVE  p.id \in 1 .. MaxReports /\ Proper(p.items) /\ p.items # << >>
<1>1. DOMAIN reports = 1 .. Len(reports) /\ Len(reports) \in Nat /\ Len(reports) <= MaxReports
      /\ MaxReports \in Nat
  BY PublisherAssumption DEF ReportsInv
<1> QED BY <1>1 DEF Known, ReportsInv

(* What a request carries.                                                 *)
LEMMA PayloadIsAhead ==
    ASSUME NEW q \in Requests, q.one <= Len(q.report.items), NEW n, Mentions(Payload(q), n)
    PROVE  /\ \E i \in DOMAIN q.report.items : q.report.items[i].id = n /\ q.one <= i
           /\ q.one > 0 => q.one \in DOMAIN q.report.items /\ q.report.items[q.one].id = n
<1>1. q.one \in Nat /\ q.report.items \in Seq(UsableMetric)
      /\ DOMAIN q.report.items = 1 .. Len(q.report.items) /\ Len(q.report.items) \in Nat
  BY DEF Requests, Reports
<1>2. CASE q.one = 0
  <2>1. Payload(q) = q.report.items
    BY <1>2 DEF Payload
  <2>2. PICK i \in DOMAIN q.report.items : q.report.items[i].id = n
    BY <2>1 DEF Mentions
  <2> QED BY <1>1, <1>2, <2>2
<1>3. CASE q.one # 0
  <2>1. Payload(q) = <<q.report.items[q.one]>>
    BY <1>3 DEF Payload
  <2>2. q.report.items[q.one].id = n
    BY <2>1 DEF Mentions
  <2>3. q.one \in DOMAIN q.report.items
    BY <1>1, <1>3
  <2> QED BY <1>1, <2>2, <2>3
<1> QED BY <1>2, <1>3

(* What storing a request's payload adds to the history.                   *)
LEMMA StoreShape ==
    ASSUME RemoteTypes, NEW q, q.report.id \in 1 .. MaxReports, StorePayload(q)
    PROVE  /\ stored' \in [1 .. MaxReports -> [Names -> Nat]]
           /\ \A r \in 1 .. MaxReports : \A n \in Names :
                stored'[r][n] = stored[r][n]
                    + (IF r = q.report.id /\ Mentions(Payload(q), n) THEN 1 ELSE 0)
<1> DEFINE id == q.report.id
           row == [n \in Names |-> stored[id][n] + IF \E i \in DOMAIN Payload(q) : Payload(q)[i].id = n
                                                   THEN 1 ELSE 0]
<1>1. stored \in [1 .. MaxReports -> [Names -> Nat]]
  BY DEF RemoteTypes
<1>2. stored' = [stored EXCEPT ![id] = row]
  BY DEF StorePayload
<1>3. \A n \in Names : stored[id][n] \in Nat
  BY <1>1
<1>4. row \in [Names -> Nat]
  BY <1>3
<1>5. \A n \in Names : row[n] = stored[id][n] + (IF Mentions(Payload(q), n) THEN 1 ELSE 0)
  BY DEF Mentions
<1> HIDE DEF row
<1>6. stored' \in [1 .. MaxReports -> [Names -> Nat]]
  BY <1>1, <1>2, <1>4
<1>7. \A r \in 1 .. MaxReports : stored'[r] = IF r = id THEN row ELSE stored[r]
  BY <1>1, <1>2
<1>8. \A r \in 1 .. MaxReports : \A n \in Names : stored[r][n] \in Nat
  BY <1>1
<1> QED BY <1>5, <1>6, <1>7, <1>8

(* Late payloads are counted by a natural number.                          *)
LEMMA LateFinite ==
    ASSUME IsFiniteSet(limbo), NEW r, NEW n
    PROVE  IsFiniteSet(Late(r, n)) /\ Cardinality(Late(r, n)) \in Nat
<1>1. Late(r, n) \subseteq limbo
  BY DEF Late
<1> QED BY <1>1, FS_Subset, FS_CardinalityType

(* A report that is with worker w is outstanding as far as w says so; a    *)
(* step of w concerns no other report.                                     *)
LEMMA MovesOutstanding ==
    ASSUME QueueInv, NEW w \in Workers, Held(w), NEW q, Moves(w, q), ctxDone' = ctxDone,
           NEW r, NEW n
    PROVE  /\ r # worker[w].report.id => (Outstanding(r, n)' <=> Outstanding(r, n))
           /\ r = worker[w].report.id => (Outstanding(r, n) <=> Due(w, n))
           /\ r = worker[w].report.id /\ Outstanding(r, n)' =>
                handled' = handled /\ q.pc \in AtWork /\ q.report = worker[w].report /\ Due(w, n)'
<1> DEFINE id == worker[w].report.id
<1>1. worker \in [Workers -> Requests] /\ worker[w] \in Requests /\ id \notin handled
      /\ \A v \in Workers : Held(v) /\ worker[v].report.id = id => v = w
  BY DEF QueueInv, QueueTypes, Exclusive
<1>2. worker'[w] = q /\ \A v \in Workers : v # w => worker'[v] = worker[v]
  BY <1>1 DEF Moves
<1>3. \A v \in Workers : v # w => (Held(v)' <=> Held(v)) /\ (Due(v, n)' <=> Due(v, n))
  BY <1>2 DEF Held, Due, Ahead
<1>4. r = id => (Outstanding(r, n) <=> Due(w, n))
  BY <1>1 DEF Outstanding
<1>5. r = id /\ Outstanding(r, n)' =>
         handled' = handled /\ q.pc \in AtWork /\ q.report = worker[w].report /\ Due(w, n)'
  <2> SUFFICES ASSUME r = id, Outstanding(r, n)'
               PROVE  handled' = handled /\ q.pc \in AtWork /\ q.report = worker[w].report /\ Due(w, n)'
    OBVIOUS
  <2>1. id \notin handled'
    BY DEF Outstanding
  <2>2. handled' = handled /\ q.pc \in AtWork /\ q.report = worker[w].report
    BY <2>1 DEF Moves
  <2>3. Held(w)' /\ worker'[w].report.id = r
    BY <1>2, <2>2 DEF Held, AtWork
  <2> QED BY <2>2, <2>3 DEF Outstanding
<1>6. r # id => (Outstanding(r, n)' <=> Outstanding(r, n))
  <2> SUFFICES ASSUME r # id PROVE Outstanding(r, n)' <=> Outstanding(r, n)
    OBVIOUS
  <2>1. r \in handled' <=> r \in handled
    BY DEF Moves
  <2>2. Held(w)' => worker'[w].report.id = id
    BY <1>2, NoReportType DEF Moves, Held
  <2> QED BY <1>2, <1>3, <2>1, <2>2 DEF Outstanding
<1> QED BY <1>4, <1>5, <1>6

(* Steps that store nothing and lose nothing.                              *)
LEMMA DebtFrame ==
    ASSUME DebtInv, RemoteTypes, stored' = stored, limbo' = limbo, broken' = broken,
           \A r \in 1 .. MaxReports : \A n \in Names : Outstanding(r, n)' => Outstanding(r, n)
    PROVE  DebtInv'
<1> SUFFICES ASSUME NEW r \in 1 .. MaxReports, NEW n \in Names
             PROVE  stored[r][n] + Cardinality(Late(r, n)') + (IF Outstanding(r, n)' THEN 1 ELSE 0)
                        <= 1 + broken
  BY DEF DebtInv
<1>1. Late(r, n)' = Late(r, n)
  BY DEF Late
<1>2. stored[r][n] \in Nat /\ broken \in Nat /\ Cardinality(Late(r, n)) \in Nat
  BY LateFinite DEF RemoteTypes
<1>3. stored[r][n] + Cardinality(Late(r, n)) + (IF Outstanding(r, n) THEN 1 ELSE 0) <= 1 + broken
  BY DEF DebtInv
<1> QED BY <1>1, <1>2, <1>3

(* After Return a worker may send the metrics behind the one it was at.    *)
LEMMA ReturnDue ==
    ASSUME QueueTypes, Identity, NEW w \in Workers, Held(w), NEW ok \in BOOLEAN, Return(w, ok),
           ctxDone' = ctxDone, NEW n, worker'[w].pc \in AtWork, Due(w, n)'
    PROVE  /\ ~ctxDone /\ ~(worker[w].one = 0 /\ ok)
           /\ \E i \in DOMAIN worker[w].report.items :
                worker[w].report.items[i].id = n /\ worker[w].one < i
<1>1. worker \in [Workers -> Requests] /\ worker[w] \in Requests /\ worker[w].one \in Nat
      /\ DOMAIN worker[w].report.items \subseteq Nat
  <2>1. worker \in [Workers -> Requests] /\ worker[w] \in Requests
    BY DEF QueueTypes
  <2>2. worker[w].report.items \in Seq(UsableMetric)
    BY <2>1 DEF Requests, Reports
  <2> QED BY <2>1, <2>2 DEF Requests
<1>2. worker'[w] # Idle
  BY NoReportType DEF AtWork
<1>3. /\ worker' = [worker EXCEPT ![w] = SendNext(w)]
      /\ ~(worker[w].one = 0 /\ ok) /\ worker[w].one < Len(worker[w].report.items)
  BY <1>1, <1>2, ReturnShape
<1>4. worker'[w] = SendNext(w)
  BY <1>1, <1>3
<1>5. /\ SendNext(w).pc = "do" /\ SendNext(w).report = worker[w].report
      /\ SendNext(w).one = worker[w].one + 1
  BY DEF SendNext
<1>6. ~ctxDone
  BY <1>4, <1>5 DEF Due
<1>7. PICK i \in DOMAIN worker[w].report.items :
         worker[w].report.items[i].id = n /\ Ahead(SendNext(w), i)
  BY <1>4, <1>5 DEF Due
<1>8. worker[w].one < i
  BY <1>1, <1>5, <1>7 DEF Ahead
<1> QED BY <1>3, <1>6, <1>7, <1>8

(* hc.Do, the timer of Retry, a 200 and a refusal owe nothing new.         *)
LEMMA QuietDebt ==
    ASSUME QueueInv, RemoteTypes, DebtInv, NEW w \in Workers,
           Do(w) \/ Backoff(w) \/ Answered(w) \/ Refused(w), ctxDone' = ctxDone
    PROVE  DebtInv'
<1>0. QueueTypes /\ Identity /\ worker \in [Workers -> Requests] /\ worker[w] \in Requests
  BY DEF QueueInv, QueueTypes
<1>1. Held(w)
  BY <1>0, WorkerMoves
<1>2. PICK q : Moves(w, q)
  BY <1>0, WorkerMoves
<1>3. stored' = stored /\ limbo' = limbo /\ broken' = broken
  BY DEF Do, Backoff, Answered, Refused, remoteVars
<1>4. worker'[w] = q
  BY <1>0, <1>2 DEF Moves
<1>5. ASSUME NEW n, q.pc \in AtWork, q.report = worker[w].report, Due(w, n)' PROVE Due(w, n)
  <2>1. worker'[w].pc \in AtWork
    BY <1>4, <1>5
  <2>2. worker[w].one \in Nat /\ DOMAIN worker[w].report.items \subseteq Nat
    <3>1. worker[w].report.items \in Seq(UsableMetric)
      BY <1>0 DEF Requests, Reports
    <3> QED BY <1>0, <3>1 DEF Requests
  <2>3. ASSUME NEW ok \in BOOLEAN, Return(w, ok), ok => worker[w].pc = "stored",
               ~ok => worker[w].pc # "stored"
        PROVE  Due(w, n)
    <3>1. ~ctxDone /\ ~(worker[w].one = 0 /\ ok)
      BY <1>0, <1>1, <1>5, <2>1, <2>3, ReturnDue
    <3>2. PICK i \in DOMAIN worker[w].report.items :
             worker[w].report.items[i].id = n /\ worker[w].one < i
      BY <1>0, <1>1, <1>5, <2>1, <2>3, ReturnDue
    <3>3. Ahead(worker[w], i)
      BY <2>2, <2>3, <3>1, <3>2 DEF Ahead
    <3> QED BY <3>1, <3>2, <3>3 DEF Due
  <2>4. ASSUME NEW c \in AtWork, worker'[w].pc = c, worker'[w].one = worker[w].one,
               worker[w].pc # "stored", c # "stored",
               worker[w].pc \in {"do", "backoff"} /\ c = "sent" => ~ctxDone
        PROVE  Due(w, n)
    <3>1. PICK i \in DOMAIN worker[w].report.items :
             worker[w].report.items[i].id = n /\ Ahead(q, i)
      BY <1>4, <1>5 DEF Due
    <3>2. Ahead(worker[w], i)
      BY <1>4, <2>4, <3>1 DEF Ahead
    <3>3. worker[w].pc \in {"do", "backoff"} => ~ctxDone
      <4>1. worker'[w].pc \in {"do", "backoff"} => ~ctxDone
        BY <1>5 DEF Due
      <4> QED BY <2>4, <4>1 DEF Held, AtWork
    <3> QED BY <3>1, <3>2, <3>3 DEF Due
  <2>5. CASE Do(w)
    <3>1. worker[w].pc = "do"
      BY <2>5 DEF Do
    <3>2. CASE ctxDone
      <4>1. Return(w, FALSE)
        BY <2>5, <3>2 DEF Do, Fails
      <4> QED BY <2>3, <3>1, <4>1
    <3>3. CASE ~ctxDone
      <4>1. worker' = [worker EXCEPT ![w].pc = "sent"]
        BY <2>5, <3>3 DEF Do
      <4>2. worker'[w].pc = "sent" /\ worker'[w].one = worker[w].one
        BY <1>0, <4>1 DEF Requests
      <4> QED BY <2>4, <3>1, <3>3, <4>2 DEF AtWork
    <3> QED BY <3>2, <3>3
  <2>6. CASE Backoff(w)
    <3>1. worker[w].pc = "backoff"
      BY <2>6 DEF Backoff
    <3>2. CASE Return(w, FALSE)
      BY <2>3, <3>1, <3>2
    <3>3. CASE worker' = [worker EXCEPT ![w].pc = "do", ![w].try = @ + 1]
      <4>1. worker'[w].pc = "do" /\ worker'[w].one = worker[w].one
        BY <1>0, <3>3 DEF Requests
      <4> QED BY <2>4, <3>1, <4>1 DEF AtWork
    <3> QED BY <2>6, <3>2, <3>3 DEF Backoff
  <2>7. CASE Answered(w)
    BY <2>3, <2>7 DEF Answered
  <2>8. CASE Refused(w)
    BY <2>3, <2>8 DEF Refused
  <2> QED BY <2>5, <2>6, <2>7, <2>8
<1>6. \A r \in 1 .. MaxReports : \A n \in Names : Outstanding(r, n)' => Outstanding(r, n)
  BY <1>1, <1>2, <1>5, MovesOutstanding
<1> QED BY <1>3, <1>6, DebtFrame

(* A request without an answer that may linger.                            *)
LEMMA LingerLate ==
    ASSUME RemoteTypes, NEW w \in Workers, MayLinger(w), NEW r, NEW n
    PROVE  /\ IsFiniteSet(limbo')
           /\ Cardinality(Late(r, n)') \in Nat
           /\ \/ Cardinality(Late(r, n)') = Cardinality(Late(r, n))
              \/ /\ Cardinality(Late(r, n)') <= Cardinality(Late(r, n)) + 1
                 /\ worker[w].pc = "sent" /\ worker[w].report.id = r
                 /\ Mentions(Payload(worker[w]), n)
<1> DEFINE q == worker[w]
<1>1. IsFiniteSet(limbo)
  BY DEF RemoteTypes
<1>2. IsFiniteSet(Late(r, n)) /\ Cardinality(Late(r, n)) \in Nat
  BY <1>1, LateFinite
<1>3. CASE limbo' = limbo
  <2>1. Late(r, n)' = Late(r, n)
    BY <1>3 DEF Late
  <2> QED BY <1>1, <1>2, <1>3, <2>1
<1>4. CASE q.pc = "sent" /\ limbo' = limbo \cup {q}
  <2>1. IsFiniteSet(limbo')
    BY <1>1, <1>4, FS_AddElement
  <2>2. CASE q.report.id = r /\ Mentions(Payload(q), n)
    <3>1. Late(r, n)' = Late(r, n) \cup {q}
      BY <1>4, <2>2 DEF Late
    <3>2. /\ Cardinality(Late(r, n) \cup {q}) \in Nat
          /\ Cardinality(Late(r, n) \cup {q}) <= Cardinality(Late(r, n)) + 1
      BY <1>2, FS_AddElement
    <3> QED BY <1>4, <2>1, <2>2, <3>1, <3>2
  <2>3. CASE ~(q.report.id = r /\ Mentions(Payload(q), n))
    <3>1. Late(r, n)' = Late(r, n)
      BY <1>4, <2>3 DEF Late
    <3> QED BY <1>2, <2>1, <3>1
  <2> QED BY <2>2, <2>3
<1> QED BY <1>3, <1>4 DEF MayLinger

(* What a worker has sent it was going to send.                            *)
LEMMA SentIsDue ==
    ASSUME QueueInv, NEW w \in Workers, worker[w].pc = "sent",
           NEW n, Mentions(Payload(worker[w]), n)
    PROVE  Due(w, n)
<1>1. Held(w) /\ worker[w] \in Requests /\ worker[w].one <= Len(worker[w].report.items)
  BY DEF QueueInv, QueueTypes, Identity, Held
<1>2. PICK i \in DOMAIN worker[w].report.items :
         worker[w].report.items[i].id = n /\ worker[w].one <= i
  BY <1>1, PayloadIsAhead
<1> QED BY <1>2 DEF Due, Ahead

(* A broken connection may cost one duplicate.                             *)
LEMMA BreaksDebt ==
    ASSUME QueueInv, RemoteTypes, DebtInv, NEW w \in Workers, Breaks(w), ctxDone' = ctxDone
    PROVE  DebtInv'
<1>0. QueueTypes /\ Identity
  BY DEF QueueInv
<1>1. Held(w) /\ \E q : Moves(w, q)
  BY <1>0, WorkerMoves
<1>2. PICK q : Moves(w, q)
  BY <1>1
<1>3. stored' = stored /\ broken' = broken + 1 /\ MayLinger(w)
  BY DEF Breaks
<1> SUFFICES ASSUME NEW r \in 1 .. MaxReports, NEW n \in Names
             PROVE  stored[r][n] + Cardinality(Late(r, n)') + (IF Outstanding(r, n)' THEN 1 ELSE 0)
                        <= 1 + (broken + 1)
  BY <1>3 DEF DebtInv
<1>4. stored[r][n] \in Nat /\ broken \in Nat /\ Cardinality(Late(r, n)) \in Nat
  BY LateFinite DEF RemoteTypes
<1>5. stored[r][n] + Cardinality(Late(r, n)) + (IF Outstanding(r, n) THEN 1 ELSE 0) <= 1 + broken
  BY DEF DebtInv
<1>6. Cardinality(Late(r, n)') \in Nat
  BY <1>3, LingerLate
<1>7. CASE Cardinality(Late(r, n)') = Cardinality(Late(r, n))
  BY <1>4, <1>5, <1>7
<1>8. CASE /\ Cardinality(Late(r, n)') <= Cardinality(Late(r, n)) + 1
           /\ worker[w].pc = "sent" /\ worker[w].report.id = r /\ Mentions(Payload(worker[w]), n)
  <2>1. Due(w, n)
    BY <1>8, SentIsDue
  <2>2. Outstanding(r, n)
    BY <1>1, <1>2, <1>8, <2>1, MovesOutstanding
  <2>3. stored[r][n] + Cardinality(Late(r, n)) + 1 <= 1 + broken
    BY <1>5, <2>2
  <2> QED BY <1>4, <1>6, <1>8, <2>3
<1> QED BY <1>3, <1>7, <1>8, LingerLate

(* A cancelled request may linger, but is not repeated.                    *)
LEMMA CancelledDebt ==
    ASSUME QueueInv, RemoteTypes, DebtInv, NEW w \in Workers, Cancelled(w), ctxDone' = ctxDone
    PROVE  DebtInv'
<1>0. QueueTypes /\ Identity /\ worker \in [Workers -> Requests]
  BY DEF QueueInv, QueueTypes
<1>1. Held(w) /\ \E q : Moves(w, q)
  BY <1>0, WorkerMoves
<1>2. PICK q : Moves(w, q)
  BY <1>1
<1>3. stored' = stored /\ broken' = broken /\ MayLinger(w) /\ ctxDone /\ Return(w, FALSE)
  BY DEF Cancelled, Fails
<1>4. \A n : q.pc \in AtWork => ~Due(w, n)'
  <2>1. worker'[w] = q
    BY <1>0, <1>2 DEF Moves
  <2> QED BY <1>0, <1>1, <1>3, <2>1, ReturnDue
<1> SUFFICES ASSUME NEW r \in 1 .. MaxReports, NEW n \in Names
             PROVE  stored[r][n] + Cardinality(Late(r, n)') + (IF Outstanding(r, n)' THEN 1 ELSE 0)
                        <= 1 + broken
  BY <1>3 DEF DebtInv
<1>5. stored[r][n] \in Nat /\ broken \in Nat /\ Cardinality(Late(r, n)) \in Nat
  BY LateFinite DEF RemoteTypes
<1>6. stored[r][n] + Cardinality(Late(r, n)) + (IF Outstanding(r, n) THEN 1 ELSE 0) <= 1 + broken
  BY DEF DebtInv
<1>7. Outstanding(r, n)' => Outstanding(r, n) /\ r # worker[w].report.id
  BY <1>1, <1>2, <1>4, MovesOutstanding
<1>8. Cardinality(Late(r, n)') \in Nat
  BY <1>3, LingerLate
<1>9. CASE Cardinality(Late(r, n)') = Cardinality(Late(r, n))
  BY <1>5, <1>6, <1>7, <1>9
<1>10. CASE /\ Cardinality(Late(r, n)') <= Cardinality(Late(r, n)) + 1
            /\ worker[w].pc = "sent" /\ worker[w].report.id = r /\ Mentions(Payload(worker[w]), n)
  <2>1. Due(w, n)
    BY <1>10, SentIsDue
  <2>2. Outstanding(r, n) /\ ~Outstanding(r, n)'
    BY <1>1, <1>2, <1>7, <1>10, <2>1, MovesOutstanding
  <2>3. stored[r][n] + Cardinality(Late(r, n)) + 1 <= 1 + broken
    BY <1>6, <2>2
  <2> QED BY <1>5, <1>8, <1>10, <2>2, <2>3
<1> QED BY <1>3, <1>9, <1>10, LingerLate

(* A request that is stored was owed, and is not any more: the names of a  *)
(* report differ.                                                          *)
LEMMA ArrivesDebt ==
    ASSUME QueueInv, ReportsInv, RemoteTypes, DebtInv, NEW w \in Workers, Arrives(w),
           ctxDone' = ctxDone
    PROVE  DebtInv'
<1> DEFINE p == worker[w]
<1>0. QueueTypes /\ Identity /\ worker \in [Workers -> Requests] /\ p \in Requests
  BY DEF QueueInv, QueueTypes
<1>1. Held(w) /\ \E q : Moves(w, q)
  BY <1>0, WorkerMoves
<1>2. PICK q : Moves(w, q)
  BY <1>1
<1>3. limbo' = limbo /\ broken' = broken /\ StorePayload(p) /\ p.pc = "sent"
      /\ worker' = [worker EXCEPT ![w].pc = "stored"]
  BY DEF Arrives
<1>4. worker'[w].pc = "stored" /\ worker'[w].one = p.one /\ worker'[w].report = p.report
  BY <1>0, <1>3 DEF Requests
<1>5. Known(p.report) /\ p.one <= Len(p.report.items) /\ p.one \in Nat
  BY <1>0, <1>1 DEF Identity, Requests
<1>6. p.report.id \in 1 .. MaxReports /\ Proper(p.report.items)
  BY <1>5, KnownInRange
<1>7. DOMAIN p.report.items = 1 .. Len(p.report.items) /\ Len(p.report.items) \in Nat
  BY <1>6 DEF Proper
<1>8. ASSUME NEW n, Due(w, n)' PROVE Due(w, n) /\ ~Mentions(Payload(p), n)
  <2>1. PICK i \in DOMAIN p.report.items : p.report.items[i].id = n /\ 0 < p.one /\ p.one < i
    BY <1>4, <1>8 DEF Due, Ahead
  <2>2. Due(w, n)
    BY <1>3, <1>5, <1>7, <2>1 DEF Due, Ahead
  <2>3. ASSUME Mentions(Payload(p), n) PROVE FALSE
    <3>1. p.one \in DOMAIN p.report.items /\ p.report.items[p.one].id = n
      BY <1>0, <1>5, <2>1, <2>3, PayloadIsAhead
    <3>2. i = p.one
      BY <1>6, <1>7, <2>1, <3>1 DEF Proper
    <3> QED BY <1>5, <1>7, <2>1, <3>2
  <2> QED BY <2>2, <2>3
<1> SUFFICES ASSUME NEW r \in 1 .. MaxReports, NEW n \in Names
             PROVE  stored'[r][n] + Cardinality(Late(r, n)') + (IF Outstanding(r, n)' THEN 1 ELSE 0)
                        <= 1 + broken
  BY <1>3 DEF DebtInv
<1>9. stored[r][n] \in Nat /\ broken \in Nat /\ Cardinality(Late(r, n)) \in Nat
  BY LateFinite DEF RemoteTypes
<1>10. stored[r][n] + Cardinality(Late(r, n)) + (IF Outstanding(r, n) THEN 1 ELSE 0) <= 1 + broken
  BY DEF DebtInv
<1>11. Late(r, n)' = Late(r, n)
  BY <1>3 DEF Late
<1>12. stored'[r][n] = stored[r][n] + (IF r = p.report.id /\ Mentions(Payload(p), n) THEN 1 ELSE 0)
  BY <1>3, <1>6, StoreShape
<1>13. CASE r = p.report.id /\ Mentions(Payload(p), n)
  <2>1. Due(w, n)
    BY <1>3, <1>13, SentIsDue
  <2>2. Outstanding(r, n)
    BY <1>1, <1>2, <1>13, <2>1, MovesOutstanding
  <2>3. ~Outstanding(r, n)'
    BY <1>1, <1>2, <1>8, <1>13, MovesOutstanding
  <2> QED BY <1>9, <1>10, <1>11, <1>12, <1>13, <2>2, <2>3
<1>14. CASE ~(r = p.report.id /\ Mentions(Payload(p), n))
  <2>1. Outstanding(r, n)' => Outstanding(r, n)
    BY <1>1, <1>2, <1>8, MovesOutstanding
  <2> QED BY <1>9, <1>10, <1>11, <1>12, <1>14, <2>1
<1> QED BY <1>13, <1>14

(* A late request was accounted for when its connection broke.             *)
LEMMA ArrivesLateDebt ==
    ASSUME QueueInv, ReportsInv, RemoteTypes, DebtInv, ArrivesLate, ctxDone' = ctxDone
    PROVE  DebtInv'
<1>1. PICK q \in limbo :
         /\ StorePayload(q) /\ limbo' = limbo \ {q}
         /\ UNCHANGED <<worker, handled, broken>>
  BY DEF ArrivesLate, queueVars
<1>2. q.report.id \in 1 .. MaxReports
  BY <1>1, KnownInRange DEF RemoteTypes
<1> SUFFICES ASSUME NEW r \in 1 .. MaxReports, NEW n \in Names
             PROVE  stored'[r][n] + Cardinality(Late(r, n)') + (IF Outstanding(r, n)' THEN 1 ELSE 0)
                        <= 1 + broken
  BY <1>1 DEF DebtInv
<1>3. Outstanding(r, n)' <=> Outstanding(r, n)
  BY <1>1 DEF Outstanding, Held, Due, Ahead
<1>4. stored[r][n] \in Nat /\ broken \in Nat /\ Cardinality(Late(r, n)) \in Nat
      /\ IsFiniteSet(Late(r, n))
  BY LateFinite DEF RemoteTypes
<1>5. stored[r][n] + Cardinality(Late(r, n)) + (IF Outstanding(r, n) THEN 1 ELSE 0) <= 1 + broken
  BY DEF DebtInv
<1>6. stored'[r][n] = stored[r][n] + (IF r = q.report.id /\ Mentions(Payload(q), n) THEN 1 ELSE 0)
  BY <1>1, <1>2, StoreShape
<1>7. CASE r = q.report.id /\ Mentions(Payload(q), n)
  <2>1. q \in Late(r, n) /\ Late(r, n)' = Late(r, n) \ {q}
    BY <1>1, <1>7 DEF Late
  <2>2. Cardinality(Late(r, n)') = Cardinality(Late(r, n)) - 1
    BY <1>4, <2>1, FS_RemoveElement
  <2> QED BY <1>3, <1>4, <1>5, <1>6, <1>7, <2>2
<1>8. CASE ~(r = q.report.id /\ Mentions(Payload(q), n))
  <2>1. Late(r, n)' = Late(r, n)
    BY <1>1, <1>8 DEF Late
  <2> QED BY <1>3, <1>4, <1>5, <1>6, <1>8, <2>1
<1> QED BY <1>7, <1>8

-----------------------------------------------------------------------------
(* What was stored once stays stored.                                      *)
Growing == \A r \in 1 .. MaxReports : \A n \in Names : stored[r][n] >= 1 => stored'[r][n] >= 1

(* A step of worker w keeps the account of progress if it does for w.      *)
LEMMA MovesProgress ==
    ASSUME QueueInv, ReportsInv, ProgressInv, NEW w \in Workers, Held(w),
           NEW q, Moves(w, q), reports' = reports, ctxDone' = ctxDone, Growing,
           Failures \in Nat, Failures' \in Nat, Failures <= Failures',
           ~ctxDone /\ Failures' <= 1 =>
             IF q = Idle
             THEN \A i \in DOMAIN worker[w].report.items :
                     stored'[worker[w].report.id][worker[w].report.items[i].id] >= 1
             ELSE /\ q.one > 0 \/ q.pc = "backoff" => Failures' = 1
                  /\ \A i \in DOMAIN q.report.items : Done(q, i) =>
                        stored'[q.report.id][q.report.items[i].id] >= 1
    PROVE  ProgressInv'
<1> SUFFICES ASSUME ~ctxDone, Failures' <= 1
             PROVE  /\ \A v \in Workers : Held(v)' =>
                         /\ worker'[v].one > 0 \/ worker'[v].pc = "backoff" => Failures' = 1
                         /\ \A i \in DOMAIN worker'[v].report.items : Done(worker'[v], i) =>
                              stored'[worker'[v].report.id][worker'[v].report.items[i].id] >= 1
                    /\ \A r \in handled' : \A i \in DOMAIN reports[r] :
                              stored'[r][reports[r][i].id] >= 1
  BY DEF ProgressInv
<1>1. Failures <= 1 /\ (Failures = 1 => Failures' = 1)
  OBVIOUS
<1>2. /\ \A v \in Workers : Held(v) =>
             /\ worker[v].one > 0 \/ worker[v].pc = "backoff" => Failures = 1
             /\ \A i \in DOMAIN worker[v].report.items : Done(worker[v], i) =>
                  stored[worker[v].report.id][worker[v].report.items[i].id] >= 1
      /\ \A r \in handled : \A i \in DOMAIN reports[r] : stored[r][reports[r][i].id] >= 1
  BY <1>1 DEF ProgressInv
<1>3. worker \in [Workers -> Requests] /\ handled \subseteq DOMAIN reports
      /\ \A v \in Workers : Held(v) => Known(worker[v].report)
  BY DEF QueueInv, QueueTypes, Identity
<1>4. worker'[w] = q /\ \A v \in Workers : v # w => worker'[v] = worker[v]
  BY <1>3 DEF Moves
<1>5. \A r \in DOMAIN reports : r \in 1 .. MaxReports
                                /\ \A i \in DOMAIN reports[r] : reports[r][i].id \in Names
  <2>1. DOMAIN reports = 1 .. Len(reports) /\ Len(reports) \in Nat /\ Len(reports) <= MaxReports
        /\ MaxReports \in Nat
    BY PublisherAssumption DEF ReportsInv
  <2>2. \A r \in DOMAIN reports : \A i \in DOMAIN reports[r] : reports[r][i] \in UsableMetric
    BY DEF ReportsInv
  <2> QED BY <2>1, <2>2 DEF UsableMetric
<1>6. ASSUME NEW v \in Workers, Held(v)'
      PROVE  /\ worker'[v].one > 0 \/ worker'[v].pc = "backoff" => Failures' = 1
             /\ \A i \in DOMAIN worker'[v].report.items : Done(worker'[v], i) =>
                  stored'[worker'[v].report.id][worker'[v].report.items[i].id] >= 1
  <2>1. CASE v = w
    <3>1. q # Idle
      BY <1>4, <1>6, <2>1, NoReportType DEF Held
    <3> QED BY <1>4, <2>1, <3>1
  <2>2. CASE v # w
    <3>1. Held(v) /\ worker'[v] = worker[v]
      BY <1>4, <1>6, <2>2 DEF Held
    <3>2. Known(worker[v].report)
      BY <1>3, <3>1
    <3> QED BY <1>1, <1>2, <1>5, <3>1, <3>2 DEF Known, Growing
  <2> QED BY <2>1, <2>2
<1>7. ASSUME NEW r \in handled', NEW i \in DOMAIN reports[r] PROVE stored'[r][reports[r][i].id] >= 1
  <2>1. CASE r \in handled
    BY <1>2, <1>3, <1>5, <2>1 DEF Growing
  <2>2. CASE r \notin handled
    <3>1. q = Idle /\ r = worker[w].report.id
      BY <2>2 DEF Moves
    <3>2. worker[w].report.items = reports[r]
      BY <1>3, <3>1 DEF Known
    <3> QED BY <3>1, <3>2
  <2> QED BY <2>1, <2>2
<1> QED BY <1>6, <1>7

(* Return without a failure: what the worker was at is stored.             *)
LEMMA AnsweredProgress ==
    ASSUME QueueInv, ReportsInv, RemoteTypes, ProgressInv, NEW w \in Workers, Answered(w),
           reports' = reports, ctxDone' = ctxDone
    PROVE  ProgressInv'
<1> DEFINE p == worker[w]
<1>0. QueueTypes /\ Identity /\ worker \in [Workers -> Requests] /\ p \in Requests
  BY DEF QueueInv, QueueTypes
<1>1. p.pc = "stored" /\ Held(w) /\ Return(w, TRUE) /\ UNCHANGED <<stored, broken, refused>>
  BY DEF Answered, Held, remoteVars
<1>2. PICK q : Moves(w, q)
  BY <1>0, WorkerMoves
<1>3. worker'[w] = q
  BY <1>0, <1>2 DEF Moves
<1>4. Failures \in Nat /\ Failures' = Failures
  BY <1>1 DEF Failures, RemoteTypes
<1>5. p.one \in Nat /\ DOMAIN p.report.items = 1 .. Len(p.report.items) /\ Len(p.report.items) \in Nat
  <2>1. p.report.items \in Seq(UsableMetric)
    BY <1>0 DEF Requests, Reports
  <2> QED BY <1>0, <2>1 DEF Requests
<1>6. ASSUME ~ctxDone, Failures' <= 1
      PROVE  IF q = Idle
             THEN \A i \in DOMAIN p.report.items : stored'[p.report.id][p.report.items[i].id] >= 1
             ELSE /\ q.one > 0 \/ q.pc = "backoff" => Failures' = 1
                  /\ \A i \in DOMAIN q.report.items : Done(q, i) =>
                        stored'[q.report.id][q.report.items[i].id] >= 1
  <2>1. /\ p.one > 0 => Failures = 1
        /\ \A i \in DOMAIN p.report.items : Done(p, i) => stored[p.report.id][p.report.items[i].id] >= 1
    BY <1>1, <1>4, <1>6 DEF ProgressInv
  <2>2. CASE /\ worker' = [worker EXCEPT ![w] = Idle]
             /\ (p.one = 0 /\ TRUE) \/ p.one = Len(p.report.items)
    <3>1. q = Idle
      BY <1>0, <1>3, <2>2
    <3>2. \A i \in DOMAIN p.report.items : Done(p, i)
      BY <1>1, <1>5, <2>2 DEF Done
    <3> QED BY <1>1, <2>1, <3>1, <3>2
  <2>3. CASE worker' = [worker EXCEPT ![w] = SendNext(w)] /\ ~(p.one = 0 /\ TRUE)
    <3>1. q = SendNext(w)
      BY <1>0, <1>3, <2>3
    <3>2. q.pc = "do" /\ q.one = p.one + 1 /\ q.report = p.report
      BY <3>1 DEF SendNext
    <3>3. \A i \in DOMAIN p.report.items : Done(q, i) => Done(p, i)
      BY <1>1, <1>5, <3>2 DEF Done
    <3>4. q # Idle
      BY <3>2, NoReportType
    <3>5. Failures' = 1
      BY <1>4, <1>5, <2>1, <2>3
    <3> QED BY <1>1, <2>1, <3>2, <3>3, <3>4, <3>5
  <2> QED BY <1>0, <1>1, <2>2, <2>3, ReturnShape
<1>7. Growing
  BY <1>1 DEF Growing
<1> QED BY <1>1, <1>2, <1>4, <1>6, <1>7, MovesProgress

(* The first failure of all: the worker was at its batch, and the batch    *)
(* will be retried or sent metric by metric.                               *)
LEMMA FailedProgress ==
    ASSUME QueueInv, ReportsInv, RemoteTypes, ProgressInv, NEW w \in Workers,
           Refused(w) \/ Breaks(w), reports' = reports, ctxDone' = ctxDone
    PROVE  ProgressInv'
<1> DEFINE p == worker[w]
<1>0. QueueTypes /\ Identity /\ worker \in [Workers -> Requests] /\ p \in Requests
  BY DEF QueueInv, QueueTypes
<1>1. /\ Held(w) /\ stored' = stored
      /\ \/ broken' = broken + 1 /\ refused' = refused
         \/ broken' = broken /\ refused' = refused + 1
  BY DEF Refused, Breaks, Held, remoteVars
<1>2. PICK q : Moves(w, q)
  BY <1>0, WorkerMoves
<1>3. worker'[w] = q
  BY <1>0, <1>2 DEF Moves
<1>4. Failures \in Nat /\ Failures' = Failures + 1
  BY <1>1 DEF Failures, RemoteTypes
<1>5. p.one \in Nat /\ DOMAIN p.report.items = 1 .. Len(p.report.items) /\ Len(p.report.items) \in Nat
  <2>1. p.report.items \in Seq(UsableMetric)
    BY <1>0 DEF Requests, Reports
  <2> QED BY <1>0, <2>1 DEF Requests
<1>6. Len(p.report.items) > 0
  <2>1. Known(p.report)
    BY <1>0, <1>1 DEF Identity
  <2>2. p.report.items # << >> /\ p.report.items \in Seq(UsableMetric)
    BY <2>1, KnownInRange DEF Proper
  <2> QED BY <2>2
<1>7. ASSUME ~ctxDone, Failures' <= 1
      PROVE  /\ q # Idle
             /\ q.one > 0 \/ q.pc = "backoff" => Failures' = 1
             /\ \A i \in DOMAIN q.report.items : ~Done(q, i)
  <2>1. Failures = 0 /\ Failures' = 1
    BY <1>4, <1>7
  <2>2. p.one = 0
    BY <1>1, <1>5, <1>7, <2>1 DEF ProgressInv
  <2>3. CASE Return(w, FALSE)
    <3>1. worker' = [worker EXCEPT ![w] = SendNext(w)]
      <4>1. p.one # Len(p.report.items)
        BY <1>5, <1>6, <2>2
      <4>2. \/ p.one = Len(p.report.items)
            \/ worker' = [worker EXCEPT ![w] = SendNext(w)]
        BY <1>0, <1>1, <2>3, ReturnShape
      <4> QED BY <4>1, <4>2
    <3>2. q = SendNext(w)
      BY <1>0, <1>3, <3>1
    <3>3. q.pc = "do" /\ q.one = 1 /\ q.report = p.report
      BY <2>2, <3>2 DEF SendNext
    <3>4. q # Idle
      BY <3>3, NoReportType
    <3> QED BY <1>5, <2>1, <3>3, <3>4 DEF Done
  <2>4. CASE worker' = [worker EXCEPT ![w] = [worker[w] EXCEPT !.pc = "backoff"]]
    <3>1. q.pc = "backoff" /\ q.one = 0 /\ q.report = p.report
      BY <1>0, <1>3, <2>2, <2>4 DEF Requests
    <3>2. q # Idle
      BY <3>1, NoReportType
    <3> QED BY <1>5, <2>1, <3>1, <3>2 DEF Done
  <2>5. \E retryable \in BOOLEAN : Fails(w, retryable) \/ Return(w, FALSE)
    BY DEF Refused, Breaks
  <2> QED BY <1>0, <2>3, <2>4, <2>5, FailsShape
<1>8. Growing
  BY <1>1 DEF Growing
<1>9. Failures' \in Nat /\ Failures <= Failures'
  BY <1>4
<1> QED BY <1>1, <1>2, <1>4, <1>7, <1>8, <1>9, MovesProgress

(* A request the server stored.                                            *)
LEMMA ArrivesProgress ==
    ASSUME QueueInv, ReportsInv, RemoteTypes, ProgressInv, NEW w \in Workers, Arrives(w),
           reports' = reports, ctxDone' = ctxDone
    PROVE  ProgressInv'
<1> DEFINE p == worker[w]
<1>0. QueueTypes /\ Identity /\ worker \in [Workers -> Requests] /\ p \in Requests
  BY DEF QueueInv, QueueTypes
<1>1. /\ Held(w) /\ p.pc = "sent" /\ StorePayload(p) /\ UNCHANGED <<broken, refused>>
      /\ worker' = [worker EXCEPT ![w].pc = "stored"]
  BY DEF Arrives, Held
<1>2. PICK q : Moves(w, q)
  BY <1>0, WorkerMoves
<1>3. q.pc = "stored" /\ q.one = p.one /\ q.report = p.report /\ q # Idle
  <2>1. worker'[w] = q
    BY <1>0, <1>2 DEF Moves
  <2>2. q.pc = "stored" /\ q.one = p.one /\ q.report = p.report
    BY <1>0, <1>1, <2>1 DEF Requests
  <2> QED BY <2>2, NoReportType
<1>4. Failures \in Nat /\ Failures' = Failures
  BY <1>1 DEF Failures, RemoteTypes
<1>5. Known(p.report) /\ p.one <= Len(p.report.items) /\ p.one \in Nat
  BY <1>0, <1>1 DEF Identity, Requests
<1>6. p.report.id \in 1 .. MaxReports /\ Proper(p.report.items)
  BY <1>5, KnownInRange
<1>7. /\ \A r \in 1 .. MaxReports : \A n \in Names : stored[r][n] \in Nat
      /\ \A r \in 1 .. MaxReports : \A n \in Names :
           stored'[r][n] = stored[r][n] + (IF r = p.report.id /\ Mentions(Payload(p), n) THEN 1 ELSE 0)
  BY <1>1, <1>6, StoreShape DEF RemoteTypes
<1>8. Growing
  BY <1>7 DEF Growing
<1>9. DOMAIN p.report.items = 1 .. Len(p.report.items) /\ Len(p.report.items) \in Nat
      /\ \A i \in DOMAIN p.report.items : p.report.items[i].id \in Names
  BY <1>6 DEF Proper, UsableMetric
<1>10. ASSUME ~ctxDone, Failures' <= 1
       PROVE  /\ q.one > 0 \/ q.pc = "backoff" => Failures' = 1
              /\ \A i \in DOMAIN q.report.items : Done(q, i) =>
                    stored'[q.report.id][q.report.items[i].id] >= 1
  <2>1. /\ p.one > 0 => Failures = 1
        /\ \A i \in DOMAIN p.report.items : Done(p, i) => stored[p.report.id][p.report.items[i].id] >= 1
    BY <1>1, <1>4, <1>10 DEF ProgressInv
  <2>2. ASSUME NEW i \in DOMAIN p.report.items, Done(q, i)
        PROVE  stored'[p.report.id][p.report.items[i].id] >= 1
    <3>1. CASE i < p.one
      <4>1. Done(p, i)
        BY <3>1 DEF Done
      <4>2. stored[p.report.id][p.report.items[i].id] >= 1
        BY <2>1, <4>1
      <4> QED BY <1>6, <1>8, <1>9, <4>2 DEF Growing
    <3>2. CASE ~(i < p.one)
      <4>1. Mentions(Payload(p), p.report.items[i].id)
        <5>1. CASE p.one = 0
          BY <5>1 DEF Mentions, Payload
        <5>2. CASE p.one # 0
          <6>1. i = p.one
            BY <1>3, <2>2, <3>2, <5>2 DEF Done
          <6>2. Payload(p) = <<p.report.items[i]>>
            BY <5>2, <6>1 DEF Payload
          <6> QED BY <6>2 DEF Mentions
        <5> QED BY <5>1, <5>2
      <4>2. p.report.id \in 1 .. MaxReports /\ p.report.items[i].id \in Names
        BY <1>6, <1>9
      <4> HIDE DEF p
      <4>3. stored[p.report.id][p.report.items[i].id] \in Nat
        BY <1>7, <4>2
      <4>4. stored'[p.report.id][p.report.items[i].id] = stored[p.report.id][p.report.items[i].id] + 1
        BY <1>7, <4>1, <4>2
      <4> QED BY <4>3, <4>4
    <3> QED BY <3>1, <3>2
  <2> QED BY <1>3, <1>4, <2>1, <2>2
<1> QED BY <1>1, <1>2, <1>3, <1>4, <1>8, <1>10, MovesProgress

(* Sending, and waiting for the next attempt.                              *)
LEMMA SendingProgress ==
    ASSUME QueueInv, ReportsInv, RemoteTypes, ProgressInv, NEW w \in Workers,
           Do(w) \/ Backoff(w) \/ Cancelled(w), reports' = reports, ctxDone' = ctxDone
    PROVE  ProgressInv'
<1> DEFINE p == worker[w]
<1>0. QueueTypes /\ Identity /\ worker \in [Workers -> Requests] /\ p \in Requests
  BY DEF QueueInv, QueueTypes
<1>1. CASE ctxDone
  BY <1>1 DEF ProgressInv
<1>2. CASE ~ctxDone
  <2>1. Held(w) /\ p.pc \in {"do", "backoff"} /\ UNCHANGED <<stored, broken, refused>>
    BY <1>2 DEF Do, Backoff, Cancelled, Held, remoteVars
  <2>2. PICK q : Moves(w, q)
    BY <1>0, WorkerMoves
  <2>3. \/ worker' = [worker EXCEPT ![w].pc = "sent"]
        \/ worker' = [worker EXCEPT ![w].pc = "do", ![w].try = @ + 1]
    BY <1>2 DEF Do, Backoff, Cancelled
  <2>4. q.pc \in {"sent", "do"} /\ q.one = p.one /\ q.report = p.report
    <3>1. worker'[w] = q
      BY <1>0, <2>2 DEF Moves
    <3> QED BY <1>0, <2>3, <3>1 DEF Requests
  <2>5. q # Idle
    BY <2>4, NoReportType
  <2>6. Failures \in Nat /\ Failures' = Failures
    BY <2>1 DEF Failures, RemoteTypes
  <2>7. Growing
    BY <2>1 DEF Growing
  <2>8. \A i : Done(q, i) => Done(p, i)
    BY <2>4 DEF Done
  <2>9. ASSUME Failures' <= 1
        PROVE  /\ q.one > 0 \/ q.pc = "backoff" => Failures' = 1
               /\ \A i \in DOMAIN q.report.items : Done(q, i) =>
                    stored'[q.report.id][q.report.items[i].id] >= 1
    BY <1>2, <2>1, <2>4, <2>6, <2>8, <2>9 DEF ProgressInv
  <2> QED BY <2>1, <2>2, <2>5, <2>6, <2>7, <2>9, MovesProgress
<1> QED BY <1>1, <1>2

-----------------------------------------------------------------------------
(* Steps that leave the workers alone.                                     *)
LEMMA WorkersFrame ==
    ASSUME QueueInv, ReportsInv, RemoteTypes, DebtInv, ProgressInv,
           UNCHANGED <<worker, handled, remoteVars, broken, refused>>, ctxDone => ctxDone',
           \A r \in DOMAIN reports : r \in DOMAIN reports' /\ reports'[r] = reports[r]
    PROVE  RemoteTypes' /\ DebtInv' /\ ProgressInv'
<1>1. UNCHANGED <<worker, handled, limbo, stored, broken, refused>>
  BY DEF remoteVars
<1>2. RemoteTypes'
  BY <1>1 DEF RemoteTypes, Known
<1>3. \A r, n : Outstanding(r, n)' => Outstanding(r, n)
  BY <1>1 DEF Outstanding, Held, Due, Ahead
<1>4. DebtInv'
  BY <1>1, <1>3, DebtFrame
<1>5. ProgressInv'
  BY <1>1 DEF ProgressInv, Failures, Held, Done, QueueInv, QueueTypes
<1> QED BY <1>2, <1>4, <1>5

(* A worker takes a report, or ends.                                       *)
LEMMA TakeRemote ==
    ASSUME QueueInv, RemoteTypes, DebtInv, ProgressInv, NEW w \in Workers,
           Take(w) \/ WorkerExits(w), UNCHANGED <<agentVars, ctxDone>>
    PROVE  RemoteTypes' /\ DebtInv' /\ ProgressInv'
<1>1. UNCHANGED <<reports, ctxDone, handled, limbo, stored, broken, refused>>
  BY DEF Take, WorkerExits, agentVars, remoteVars, queueVars
<1>2. worker \in [Workers -> Requests] /\ ~Held(w)
  BY DEF QueueInv, QueueTypes, Take, WorkerExits, Held
<1>3. \A v \in Workers : v # w => worker'[v] = worker[v]
  BY <1>2 DEF Take, WorkerExits
<1>4. Held(w)' => worker'[w].pc = "do" /\ worker'[w].one = 0 /\ worker'[w].report \in Reports
  <2>1. CASE Take(w)
    <3>1. jobs \in Seq(Reports) /\ jobs # << >>
      BY <2>1 DEF QueueInv, QueueTypes, Take
    <3>2. worker'[w] = [Idle EXCEPT !.pc = "do", !.report = Head(jobs)]
      BY <1>2, <2>1 DEF Take
    <3> QED BY <3>1, <3>2 DEF Idle
  <2>2. CASE WorkerExits(w)
    <3>1. worker'[w].pc = "exited"
      BY <1>2, <2>2 DEF WorkerExits, Requests
    <3> QED BY <3>1 DEF Held
  <2> QED BY <2>1, <2>2
<1>5. RemoteTypes'
  BY <1>1 DEF RemoteTypes, Known
<1>6. \A r, n : Outstanding(r, n)' => Outstanding(r, n)
  <2>1. \A v \in Workers : \A n : Held(v) => Held(v)' /\ worker'[v] = worker[v] /\ (Due(v, n)' <=> Due(v, n))
    BY <1>1, <1>2, <1>3 DEF Held, Due, Ahead
  <2> QED BY <1>1, <2>1 DEF Outstanding
<1>7. DebtInv'
  BY <1>1, <1>6, DebtFrame
<1>8. ASSUME Held(w)', NEW i \in DOMAIN worker'[w].report.items PROVE ~Done(worker'[w], i)
  <2>1. i \in Nat /\ worker'[w].pc = "do" /\ worker'[w].one = 0
    <3>1. worker'[w].report.items \in Seq(UsableMetric)
      BY <1>4, <1>8 DEF Reports
    <3> QED BY <1>4, <1>8, <3>1
  <2> QED BY <2>1 DEF Done
<1>9. ASSUME ~ctxDone, Failures <= 1
      PROVE  \A v \in Workers : Held(v)' =>
             /\ worker'[v].one > 0 \/ worker'[v].pc = "backoff" => Failures = 1
             /\ \A i \in DOMAIN worker'[v].report.items : Done(worker'[v], i) =>
                  stored[worker'[v].report.id][worker'[v].report.items[i].id] >= 1
  <2> TAKE v \in Workers
  <2> HAVE Held(v)'
  <2>1. CASE v = w
    BY <1>4, <1>8, <2>1
  <2>2. CASE v # w
    <3>1. Held(v) /\ worker'[v] = worker[v]
      BY <1>3, <2>2 DEF Held
    <3> QED BY <1>9, <3>1 DEF ProgressInv
  <2> QED BY <2>1, <2>2
<1>10. Failures' = Failures
  BY <1>1 DEF Failures
<1>11. ProgressInv'
  BY <1>1, <1>9, <1>10 DEF ProgressInv
<1> QED BY <1>5, <1>7, <1>11

(* The network's side stays well formed.                                   *)
LEMMA RemoteTypesStep ==
    ASSUME QueueInv, ReportsInv, RemoteTypes, reports' = reports,
           \/ ArrivesLate
           \/ \E w \in Workers : Do(w) \/ Backoff(w) \/ Cancelled(w) \/ Arrives(w) \/ Answered(w)
                                 \/ Refused(w) \/ Breaks(w)
    PROVE  RemoteTypes'
<1>1. \A p \in Reports : Known(p)' <=> Known(p)
  BY DEF Known
<1>2. /\ limbo \subseteq Requests /\ IsFiniteSet(limbo)
      /\ \A q \in limbo : Known(q.report) /\ q.one <= Len(q.report.items)
      /\ stored \in [1 .. MaxReports -> [Names -> Nat]]
      /\ broken \in Nat /\ refused \in Nat
      /\ \A q \in Requests : q.report \in Reports
  BY DEF RemoteTypes, Requests
<1>3. CASE ArrivesLate
  <2>1. PICK q \in limbo :
           StorePayload(q) /\ limbo' = limbo \ {q} /\ UNCHANGED <<broken, refused>>
    BY <1>3 DEF ArrivesLate
  <2>2. q.report.id \in 1 .. MaxReports
    BY <1>2, KnownInRange
  <2>3. stored' \in [1 .. MaxReports -> [Names -> Nat]]
    BY <2>1, <2>2, StoreShape
  <2>4. IsFiniteSet(limbo')
    BY <1>2, <2>1, FS_Subset, limbo' \subseteq limbo
  <2> QED BY <1>1, <1>2, <2>1, <2>3, <2>4 DEF RemoteTypes
<1>4. ASSUME NEW w \in Workers,
             Do(w) \/ Backoff(w) \/ Cancelled(w) \/ Arrives(w) \/ Answered(w) \/ Refused(w) \/ Breaks(w)
      PROVE  RemoteTypes'
  <2>1. QueueTypes /\ Identity
    BY DEF QueueInv
  <2>2. Held(w)
    BY <1>4, <2>1, WorkerMoves
  <2>3. worker[w] \in Requests /\ Known(worker[w].report)
        /\ worker[w].one <= Len(worker[w].report.items)
    BY <2>1, <2>2 DEF QueueTypes, Identity
  <2>4. worker[w].report.id \in 1 .. MaxReports
    BY <2>3, KnownInRange
  <2>5. stored' \in [1 .. MaxReports -> [Names -> Nat]]
    <3>1. CASE stored' = stored
      BY <1>2, <3>1
    <3>2. CASE StorePayload(worker[w])
      BY <2>4, <3>2, StoreShape
    <3> QED BY <1>4, <3>1, <3>2
            DEF Do, Backoff, Cancelled, Arrives, Answered, Refused, Breaks, remoteVars
  <2>6. broken' \in Nat /\ refused' \in Nat
    <3>1. /\ broken' = broken \/ broken' = broken + 1
          /\ refused' = refused \/ refused' = refused + 1
      BY <1>4 DEF Do, Backoff, Cancelled, Arrives, Answered, Refused, Breaks
    <3> QED BY <1>2, <3>1
  <2>7. limbo' = limbo \/ limbo' = limbo \cup {worker[w]}
    BY <1>4 DEF Do, Backoff, Cancelled, Arrives, Answered, Refused, Breaks, remoteVars, MayLinger
  <2>8. IsFiniteSet(limbo')
    BY <1>2, <2>7, FS_AddElement
  <2>9. limbo' \subseteq Requests
        /\ \A q \in limbo' : Known(q.report) /\ q.one <= Len(q.report.items)
    BY <1>2, <2>3, <2>7
  <2> QED BY <1>1, <1>2, <2>5, <2>6, <2>8, <2>9 DEF RemoteTypes
<1> QED BY <1>3, <1>4

(* A request that arrives late only adds.                                  *)
LEMMA ArrivesLateProgress ==
    ASSUME QueueInv, ReportsInv, RemoteTypes, ProgressInv, ArrivesLate, reports' = reports,
           ctxDone' = ctxDone
    PROVE  ProgressInv'
<1>1. PICK q \in limbo : StorePayload(q) /\ UNCHANGED <<worker, handled, broken, refused>>
  BY DEF ArrivesLate, queueVars
<1>2. q.report.id \in 1 .. MaxReports
  BY <1>1, KnownInRange DEF RemoteTypes
<1>3. Growing
  <2>1. \A r \in 1 .. MaxReports : \A n \in Names : stored[r][n] \in Nat
    BY DEF RemoteTypes
  <2>2. \A r \in 1 .. MaxReports : \A n \in Names :
           stored'[r][n] = stored[r][n] + (IF r = q.report.id /\ Mentions(Payload(q), n) THEN 1 ELSE 0)
    BY <1>1, <1>2, StoreShape
  <2> QED BY <2>1, <2>2 DEF Growing
<1>4. DOMAIN reports = 1 .. Len(reports) /\ Len(reports) \in Nat /\ Len(reports) <= MaxReports
      /\ MaxReports \in Nat
  BY PublisherAssumption DEF ReportsInv
<1>5. \A r \in DOMAIN reports : \A i \in DOMAIN reports[r] : reports[r][i].id \in Names
  <2>1. \A r \in DOMAIN reports : \A i \in DOMAIN reports[r] : reports[r][i] \in UsableMetric
    BY DEF ReportsInv
  <2> QED BY <2>1 DEF UsableMetric
<1>6. \A r \in DOMAIN reports : \A i \in DOMAIN reports[r] :
         stored[r][reports[r][i].id] >= 1 => stored'[r][reports[r][i].id] >= 1
  BY <1>3, <1>4, <1>5 DEF Growing
<1>7. handled \subseteq DOMAIN reports /\ \A w \in Workers : Held(w) => Known(worker[w].report)
  BY DEF QueueInv, QueueTypes, Identity
<1>8. Failures' = Failures
  BY <1>1 DEF Failures
<1>9. \A w \in Workers : Held(w) => \A i \in DOMAIN worker[w].report.items :
         stored[worker[w].report.id][worker[w].report.items[i].id] >= 1
           => stored'[worker[w].report.id][worker[w].report.items[i].id] >= 1
  BY <1>6, <1>7 DEF Known
<1>10. \A w : Held(w)' <=> Held(w)
  BY <1>1 DEF Held
<1> QED BY <1>1, <1>6, <1>7, <1>8, <1>9, <1>10 DEF ProgressInv, Done

AgentInv == CollectorInv /\ ReportsInv /\ QueueInv /\ RemoteTypes /\ DebtInv /\ ProgressInv

(* The initial state satisfies the invariant.                              *)
LEMMA AgentInit == ASSUME Init PROVE AgentInv
<1>1. CollectorInv /\ ReportsInv /\ QueueInv
  BY CollectorReportsInit, QueueInit
<1>2. /\ limbo = {} /\ stored = [r \in 1 .. MaxReports |-> [n \in Names |-> 0]]
      /\ broken = 0 /\ refused = 0 /\ handled = {}
      /\ worker = [w \in Workers |-> IF w \in Started(rateLimit) THEN Idle ELSE Exited]
  BY DEF Init, PublisherInit
<1>3. RemoteTypes
  BY <1>2, FS_EmptySet DEF RemoteTypes
<1>4. \A w \in Workers : ~Held(w)
  BY <1>2, NoReportType DEF Held
<1>5. DebtInv
  <2>1. \A r, n : Late(r, n) = {}
    BY <1>2 DEF Late
  <2>2. Cardinality({}) = 0
    BY FS_EmptySet
  <2>3. ASSUME NEW r \in 1 .. MaxReports, NEW n \in Names
        PROVE  stored[r][n] = 0 /\ Cardinality(Late(r, n)) = 0
    BY <1>2, <2>1, <2>2
  <2> QED BY <1>2, <2>3 DEF DebtInv
<1>6. ProgressInv
  BY <1>2, <1>4 DEF ProgressInv
<1> QED BY <1>1, <1>3, <1>5, <1>6 DEF AgentInv

(* Every step keeps the invariant.                                         *)
LEMMA AgentStep == ASSUME AgentInv, [Next]_vars PROVE AgentInv'
<1>0. CollectorInv /\ ReportsInv /\ QueueInv /\ RemoteTypes /\ DebtInv /\ ProgressInv
  BY DEF AgentInv
<1>1. CollectorInv' /\ ReportsInv' /\ QueueInv'
  BY <1>0, CollectorReportsStep, QueueStep
<1> SUFFICES RemoteTypes' /\ DebtInv' /\ ProgressInv'
  BY <1>1 DEF AgentInv
<1>2. CASE UNCHANGED vars
  BY <1>0, <1>2, WorkersFrame DEF vars, agentVars, publisherVars, queueVars
<1>3. CASE Report
  <2>1. PICK batch \in Batches(stats) : reports' = Append(reports, batch)
    BY <1>3 DEF Report
  <2>2. batch \in Seq(UsableMetric) /\ reports \in Seq(Seq(UsableMetric))
    BY <1>0, BatchCoherent DEF Proper, ReportsInv
  <2>3. \A r \in DOMAIN reports : r \in DOMAIN reports' /\ reports'[r] = reports[r]
    BY <2>1, <2>2, AppendedReports
  <2>4. UNCHANGED <<ctxDone, worker, handled, remoteVars, broken, refused>>
    BY <1>3 DEF Report, publisherVars, queueVars
  <2> QED BY <1>0, <2>3, <2>4, WorkersFrame
<1>4. CASE StopReporting \/ RunStep \/ Interrupt
  <2>1. UNCHANGED <<reports, worker, handled, remoteVars, broken, refused>> /\ (ctxDone => ctxDone')
    BY <1>4 DEF StopReporting, CloseJobs, RunStep, Submitted, Submit, StopCollector, Exit,
                Interrupt, Signal, agentVars, publisherVars, queueVars
  <2> QED BY <1>0, <2>1, WorkersFrame
<1>5. CASE \E s \in Samplers : Sampling(s) \/ SamplerLeaves(s)
  <2>1. UNCHANGED <<reports, ctxDone, worker, handled, remoteVars, broken, refused>>
    BY <1>5 DEF Sampling, SamplerLeaves, agentVars, publisherVars, queueVars
  <2> QED BY <1>0, <2>1, WorkersFrame
<1>6. ASSUME NEW w \in Workers, Works(w) \/ Served(w) PROVE RemoteTypes' /\ DebtInv' /\ ProgressInv'
  <2>1. UNCHANGED <<agentVars, ctxDone>> /\ reports' = reports /\ ctxDone' = ctxDone
    BY <1>6 DEF Works, Served, agentVars
  <2>2. CASE Take(w) \/ WorkerExits(w)
    BY <1>0, <2>1, <2>2, TakeRemote
  <2>3. CASE Do(w) \/ Backoff(w)
    BY <1>0, <2>1, <2>3, QuietDebt, SendingProgress, RemoteTypesStep
  <2>4. CASE Cancelled(w)
    BY <1>0, <2>1, <2>4, CancelledDebt, SendingProgress, RemoteTypesStep
  <2>5. CASE Arrives(w)
    BY <1>0, <2>1, <2>5, ArrivesDebt, ArrivesProgress, RemoteTypesStep
  <2>6. CASE Answered(w)
    BY <1>0, <2>1, <2>6, QuietDebt, AnsweredProgress, RemoteTypesStep
  <2> QED BY <1>6, <2>2, <2>3, <2>4, <2>5, <2>6 DEF Works, Served, WorkerStep, ServerStep
<1>7. CASE NetworkFails
  <2>1. reports' = reports /\ ctxDone' = ctxDone
    BY <1>7 DEF NetworkFails, agentVars
  <2>2. CASE ArrivesLate
    BY <1>0, <2>1, <2>2, ArrivesLateDebt, ArrivesLateProgress, RemoteTypesStep
  <2>3. ASSUME NEW w \in Workers, Refused(w) PROVE RemoteTypes' /\ DebtInv' /\ ProgressInv'
    BY <1>0, <2>1, <2>3, QuietDebt, FailedProgress, RemoteTypesStep
  <2>4. ASSUME NEW w \in Workers, Breaks(w) PROVE RemoteTypes' /\ DebtInv' /\ ProgressInv'
    BY <1>0, <2>1, <2>4, BreaksDebt, FailedProgress, RemoteTypesStep
  <2> QED BY <1>7, <2>2, <2>3, <2>4 DEF NetworkFails
<1> QED BY <1>2, <1>3, <1>4, <1>5, <1>6, <1>7 DEF Next

(* The invariant holds in every reachable state.                           *)
LEMMA AgentAlways == Spec => []AgentInv
<1>1. Init => AgentInv
  BY AgentInit
<1>2. AgentInv /\ [Next]_vars => AgentInv'
  BY AgentStep
<1> QED BY <1>1, <1>2, PTL DEF Spec

(* The retries of misc.Retry and the fallback of the workers from a batch  *)
(* to single requests repeat a metric at most once per broken connection:  *)
(* for any number of workers, reports, metrics and failures.               *)
THEOREM DuplicatesAreBounded == Spec => []DuplicatesBounded
<1>1. AgentInv => DuplicatesBounded
  <2> SUFFICES ASSUME AgentInv, NEW r \in 1 .. MaxReports, NEW n \in Names
               PROVE  stored[r][n] <= 1 + broken
    BY DEF DuplicatesBounded
  <2>1. stored[r][n] \in Nat /\ broken \in Nat /\ Cardinality(Late(r, n)) \in Nat
    BY LateFinite DEF AgentInv, RemoteTypes
  <2>2. stored[r][n] + Cardinality(Late(r, n)) + (IF Outstanding(r, n) THEN 1 ELSE 0) <= 1 + broken
    BY DEF AgentInv, DebtInv
  <2> QED BY <2>1, <2>2
<1> QED BY <1>1, AgentAlways, PTL

(* One failed request loses nothing: a report a worker is done with before *)
(* the signal is stored in full, by a retry or metric by metric.           *)
THEOREM OneFailureSurvived == Spec => []OneFailureTolerated
<1>1. AgentInv => OneFailureTolerated
  BY DEF AgentInv, ProgressInv, OneFailureTolerated
<1> QED BY <1>1, AgentAlways, PTL

-----------------------------------------------------------------------------
(* GaugesFresh.  The collector's gauges only grow, and a report has those  *)
(* of its time: reports with a higher number have no older gauges.         *)
PollsInv == \A s \in Samplers : \A g \in ToSet(Plan(s)) : stats.gauges[g] <= sampler[s].poll

Past(r, g) == Polled(reports[r], g)

GrowInv ==
    \A r \in DOMAIN reports : \A g \in Sampled :
        /\ Past(r, g) \in Nat /\ Past(r, g) <= stats.gauges[g]
        /\ \A k \in DOMAIN reports : r <= k => Past(r, g) <= Past(k, g)

(* Reports leave the channel in the order of their numbers, and only the   *)
(* workers that were started take them.                                    *)
OrderInv ==
    /\ \A w \in Workers \ Started(rateLimit) : worker[w].pc = "exited"
    /\ \A i, j \in DOMAIN jobs : i <= j => jobs[i].id <= jobs[j].id
    /\ \A w \in Workers : Held(w) => \A i \in DOMAIN jobs : worker[w].report.id <= jobs[i].id
    /\ \A q \in limbo : \A i \in DOMAIN jobs : q.report.id <= jobs[i].id

(* The reports of which something may yet be stored.                       *)
ToCome(r) == InHand(r) \/ \E q \in limbo : q.report.id = r

(* The server has the gauges of reports that are not newer than these.     *)
ServerBehind ==
    \A g \in Sampled : server.gauges[g] # Nil =>
        \E k \in DOMAIN reports :
            server.gauges[g] = Past(k, g) /\ \A r \in DOMAIN reports : ToCome(r) => k <= r

(* Without a broken connection only a cancelled request may arrive late;   *)
(* after it the worker sends nothing more.                                 *)
LimboInv ==
    \A q \in limbo :
        /\ ctxDone /\ worker[1].pc \notin {"sent", "stored"}
        /\ Held(1) => q.report.id <= worker[1].report.id
        /\ \A p \in limbo : p = q

Alone == Started(rateLimit) = {1} /\ broken = 0

FreshInv ==
    /\ server \in Stores /\ PollsInv /\ GrowInv /\ OrderInv
    /\ Alone => LimboInv /\ ServerBehind

(* What one iteration of UpdateMany does to a gauge ...                    *)
LEMMA ApplyItemGauges ==
    ASSUME NEW s \in Stores, NEW m \in UsableMetric, NEW n \in Names
    PROVE  \/ ApplyItem(s, m).gauges[n] = s.gauges[n]
           \/ m.id = n /\ ApplyItem(s, m).gauges[n] = m.value
<1>1. m.id \in Names /\ Usable(m) /\ s.gauges \in [Names -> Values \cup {Nil}]
  BY DEF UsableMetric, Stores
<1>2. CASE m.mtype = "gauge" /\ m.value # Nil
  <2>1. ApplyItem(s, m) = [gauges |-> [s.gauges EXCEPT ![m.id] = m.value], counters |-> s.counters]
    BY <1>2 DEF ApplyItem, SetGauge
  <2>2. ApplyItem(s, m).gauges = [s.gauges EXCEPT ![m.id] = m.value]
    BY <2>1
  <2> QED BY <1>1, <2>2
<1>3. CASE m.mtype = "counter" /\ m.delta # Nil
  <2>1. ApplyItem(s, m).gauges = s.gauges
    BY <1>3 DEF ApplyItem, AddCounter
  <2> QED BY <2>1
<1> QED BY <1>1, <1>2, <1>3 DEF Usable

(* ... and the whole loop: it is left alone, or it is that of an item.     *)
LEMMA UpdateManyGauges ==
    ASSUME NEW s \in Stores, NEW items \in Seq(UsableMetric), NEW n \in Names
    PROVE  \/ UpdateMany(s, items).gauges[n] = s.gauges[n]
           \/ \E i \in 1 .. Len(items) : items[i].id = n /\ UpdateMany(s, items).gauges[n] = items[i].value
<1> DEFINE F(k) == AfterItems(s, items, k)
           Fine(k) == \/ F(k).gauges[n] = s.gauges[n]
                      \/ \E i \in 1 .. Len(items) : items[i].id = n /\ F(k).gauges[n] = items[i].value
           Bad == {k \in 0 .. Len(items) : ~Fine(k)}
<1>1. F(0) = s /\ \A k \in 1 .. Len(items) : F(k) = ApplyItem(F(k - 1), items[k])
  BY AfterItemsUnfold
<1>2. \A k \in 0 .. Len(items) : F(k) \in Stores
  BY AfterItemsType
<1>3. Len(items) \in Nat /\ \A k \in 1 .. Len(items) : items[k] \in UsableMetric
  OBVIOUS
<1>4. UpdateMany(s, items) = F(Len(items))
  BY DEF UpdateMany
<1> HIDE DEF F
<1>5. Bad = {}
  <2> SUFFICES ASSUME Bad # {} PROVE FALSE
    OBVIOUS
  <2>1. PICK k \in Bad : \A j \in Bad : k <= j
    BY LeastNatural, Bad \in SUBSET Nat
  <2>2. k # 0
    BY <1>1, <2>1
  <2> DEFINE j == k - 1
  <2>3. j \in 0 .. Len(items) /\ k \in 1 .. Len(items) /\ Fine(j)
    BY <1>3, <2>1, <2>2
  <2>4. F(k) = ApplyItem(F(j), items[k]) /\ F(j) \in Stores /\ items[k] \in UsableMetric
    BY <1>1, <1>2, <1>3, <2>3
  <2> HIDE DEF j
  <2>5. \/ F(k).gauges[n] = F(j).gauges[n]
        \/ items[k].id = n /\ F(k).gauges[n] = items[k].value
    BY <2>4, ApplyItemGauges
  <2>6. Fine(k)
    BY <2>3, <2>5
  <2> QED BY <2>1, <2>6
<1>6. Fine(Len(items))
  BY <1>3, <1>5
<1> QED BY <1>4, <1>6

(* A report mentions a gauge once, so this is its value.                   *)
LEMMA PolledItem ==
    ASSUME NEW batch, Proper(batch), NEW i \in DOMAIN batch, batch[i].id # PollCount
    PROVE  Polled(batch, batch[i].id) = batch[i].value
<1> DEFINE at == {j \in DOMAIN batch : batch[j].id = batch[i].id}
<1>1. DOMAIN batch = 1 .. Len(batch) /\ \A j, k \in DOMAIN batch : batch[j].id = batch[k].id => j = k
  BY DEF Proper
<1>2. at = {i}
  BY <1>1
<1>3. (CHOOSE j \in at : TRUE) = i
  BY <1>2
<1> QED BY <1>2, <1>3 DEF Polled

(* The payload of a request is made of metrics of its report.              *)
LEMMA PayloadItems ==
    ASSUME NEW q \in Requests, q.one <= Len(q.report.items)
    PROVE  /\ Payload(q) \in Seq(UsableMetric)
           /\ \A i \in 1 .. Len(Payload(q)) : \E j \in DOMAIN q.report.items : Payload(q)[i] = q.report.items[j]
<1>1. q.one \in Nat /\ q.report.items \in Seq(UsableMetric)
      /\ DOMAIN q.report.items = 1 .. Len(q.report.items) /\ Len(q.report.items) \in Nat
  BY DEF Requests, Reports
<1>2. CASE q.one = 0
  <2>1. Payload(q) = q.report.items
    BY <1>2 DEF Payload
  <2> QED BY <1>1, <2>1
<1>3. CASE q.one # 0
  <2>1. q.one \in DOMAIN q.report.items /\ q.report.items[q.one] \in UsableMetric
    BY <1>1, <1>3
  <2>2. Payload(q) = <<q.report.items[q.one]>>
    BY <1>3 DEF Payload
  <2>3. Len(Payload(q)) = 1 /\ Payload(q)[1] = q.report.items[q.one] /\ Payload(q) \in Seq(UsableMetric)
    BY <2>1, <2>2
  <2> QED BY <2>1, <2>3
<1> QED BY <1>2, <1>3

(* Storing a request leaves a gauge or makes it that of its report.        *)
LEMMA StoredGauge ==
    ASSUME ReportsInv, server \in Stores, NEW q \in Requests, q.one <= Len(q.report.items),
           Known(q.report), StorePayload(q)
    PROVE  /\ server' \in Stores
           /\ \A g \in Sampled : server'.gauges[g] = server.gauges[g]
                                 \/ server'.gauges[g] = Past(q.report.id, g)
<1> DEFINE items == Payload(q)
           batch == q.report.items
<1>1. /\ items \in Seq(UsableMetric)
      /\ \A i \in 1 .. Len(items) : \E j \in DOMAIN batch : items[i] = batch[j]
  BY PayloadItems
<1>2. server' = UpdateMany(server, items)
  BY DEF StorePayload
<1>3. Proper(batch) /\ batch = reports[q.report.id]
  BY DEF Known, ReportsInv
<1> HIDE DEF items, batch
<1>4. server' \in Stores
  BY <1>1, <1>2, UpdateManyType
<1>5. ASSUME NEW g \in Sampled, server'.gauges[g] # server.gauges[g]
      PROVE  server'.gauges[g] = Past(q.report.id, g)
  <2>1. g \in Names /\ g # PollCount
    BY GaugeNames
  <2>2. PICK i \in 1 .. Len(items) : items[i].id = g /\ server'.gauges[g] = items[i].value
    BY <1>1, <1>2, <1>5, <2>1, UpdateManyGauges
  <2>3. PICK j \in DOMAIN batch : items[i] = batch[j]
    BY <1>1
  <2>4. Polled(batch, batch[j].id) = batch[j].value
    BY <1>3, <2>1, <2>2, <2>3, PolledItem
  <2> QED BY <1>3, <2>2, <2>3, <2>4 DEF Past
<1> QED BY <1>4, <1>5

-----------------------------------------------------------------------------
(* The collector's gauges only grow.                                       *)
LEMMA PollsGrow ==
    ASSUME CollectorInv, PollsInv, NEW s \in Samplers,
           Poll(s) \/ SetNextGauge(s) \/ EndPoll(s) \/ SamplerExits(s)
    PROVE  PollsInv' /\ \A g \in Sampled : stats.gauges[g] <= stats'.gauges[g]
<1>1. /\ stats \in [gauges : [Sampled -> Nat], polls : Nat] /\ sampler \in [Samplers -> SamplerStates]
      /\ \A t \in Samplers : sampler[t].poll \in Nat
      /\ \A g \in Sampled : stats.gauges[g] \in Nat
  BY DEF CollectorInv, StatsFit, SamplerStates
<1>2. CASE stats'.gauges = stats.gauges /\ \A t \in Samplers : sampler'[t].poll \in Nat /\ sampler[t].poll <= sampler'[t].poll
  <2>1. \A g \in Sampled : stats.gauges[g] <= stats'.gauges[g]
    BY <1>1, <1>2
  <2>2. ASSUME NEW t \in Samplers, NEW g \in ToSet(Plan(t)) PROVE stats'.gauges[g] <= sampler'[t].poll
    <3>1. g \in Sampled /\ stats.gauges[g] <= sampler[t].poll
      BY GaugeNames DEF PollsInv
    <3>2. stats.gauges[g] \in Nat /\ sampler[t].poll \in Nat
      BY <1>1, <3>1
    <3> QED BY <1>2, <3>1, <3>2
  <2> QED BY <2>1, <2>2 DEF PollsInv
<1>3. CASE Poll(s)
  <2>1. sampler' = [sampler EXCEPT ![s] = [pc |-> "poll", poll |-> sampler[s].poll + 1, next |-> 1]] /\ stats' = stats
    BY <1>3 DEF Poll
  <2>2. \A t \in Samplers : sampler'[t].poll = IF t = s THEN sampler[s].poll + 1 ELSE sampler[t].poll
    BY <1>1, <2>1
  <2>3. \A t \in Samplers : sampler'[t].poll \in Nat /\ sampler[t].poll <= sampler'[t].poll
    BY <1>1, <2>2
  <2> QED BY <1>2, <2>1, <2>3
<1>4. CASE SamplerExits(s) \/ EndPoll(s)
  <2>1. \A t \in Samplers : sampler'[t].poll = sampler[t].poll
    <3>1. PICK c : sampler' = [sampler EXCEPT ![s] = [sampler[s] EXCEPT !.pc = c]]
      BY <1>4 DEF SamplerExits, EndPoll
    <3>2. sampler[s] \in SamplerStates
      BY <1>1
    <3>3. [sampler[s] EXCEPT !.pc = c].poll = sampler[s].poll
      BY <3>2 DEF SamplerStates
    <3> QED BY <1>1, <3>1, <3>3
  <2>2. stats'.gauges = stats.gauges
    BY <1>1, <1>4 DEF SamplerExits, EndPoll
  <2> QED BY <1>1, <1>2, <2>1, <2>2
<1>5. CASE SetNextGauge(s)
  <2> DEFINE h == Plan(s)[sampler[s].next]
  <2>1. \A t \in Samplers : sampler'[t].poll = sampler[t].poll
    BY <1>1, <1>5 DEF SetNextGauge, SamplerStates
  <2>2. CASE stats' = stats
    BY <1>1, <1>2, <2>1, <2>2
  <2>3. CASE stats' = [stats EXCEPT !.gauges[h] = sampler[s].poll]
    <3>1. h \in ToSet(Plan(s)) /\ h \in Sampled
      <4>1. Plan(s) \in Seq(Names) /\ sampler[s].next \in Nat \ {0} /\ sampler[s].next <= Len(Plan(s))
        BY <1>1, <1>5, GaugeNames DEF SetNextGauge, SamplerStates
      <4>2. sampler[s].next \in DOMAIN Plan(s)
        BY <4>1
      <4> QED BY <4>2, GaugeNames DEF ToSet
    <3>2. \A t \in Samplers : h \in ToSet(Plan(t)) => t = s
      <4>1. ToSet(Plan("runtime")) \cap ToSet(Plan("host")) = {}
        BY CollectorAssumption DEF Plan
      <4> QED BY <3>1, <4>1 DEF Samplers
    <3>3. stats.gauges[h] <= sampler[s].poll
      BY <3>1 DEF PollsInv
    <3> HIDE DEF h
    <3>4. \A g \in Sampled : stats'.gauges[g] = IF g = h THEN sampler[s].poll ELSE stats.gauges[g]
      BY <1>1, <2>3, <3>1
    <3>5. ASSUME NEW g \in Sampled PROVE stats.gauges[g] <= stats'.gauges[g]
      BY <1>1, <3>3, <3>4
    <3>6. ASSUME NEW t \in Samplers, NEW g \in ToSet(Plan(t)) PROVE stats'.gauges[g] <= sampler'[t].poll
      <4>1. g \in Sampled /\ stats.gauges[g] <= sampler[t].poll
        BY GaugeNames DEF PollsInv
      <4> QED BY <1>1, <2>1, <3>2, <3>4, <4>1
    <3> QED BY <3>5, <3>6 DEF PollsInv
  <2> QED BY <1>5, <2>2, <2>3 DEF SetNextGauge
<1> QED BY <1>3, <1>4, <1>5

(* A report that is built has the newest gauges.                           *)
LEMMA GrowStep ==
    ASSUME CollectorInv, CollectorInv', ReportsInv, PollsInv, GrowInv, [Next]_vars
    PROVE  PollsInv' /\ GrowInv'
<1>0. \A g \in Sampled : stats.gauges[g] \in Nat /\ stats'.gauges[g] \in Nat
  BY DEF CollectorInv, StatsFit
<1>1. CASE Report
  <2>1. PICK batch \in Batches(stats) : reports' = Append(reports, batch)
    BY <1>1 DEF Report
  <2>2. stats' = stats /\ sampler' = sampler
    BY <1>1 DEF Report, collectorVars
  <2>3. Proper(batch) /\ \A g \in Sampled : Polled(batch, g) = stats.gauges[g]
    BY BatchReads DEF CollectorInv
  <2>4. batch \in Seq(UsableMetric) /\ reports \in Seq(Seq(UsableMetric))
    BY <2>3 DEF Proper, ReportsInv
  <2>5. /\ DOMAIN reports' = DOMAIN reports \cup {Len(reports) + 1}
        /\ \A i \in DOMAIN reports : reports'[i] = reports[i]
        /\ reports'[Len(reports) + 1] = batch
        /\ DOMAIN reports = 1 .. Len(reports) /\ Len(reports) \in Nat
    BY <2>1, <2>4, AppendedReports
  <2> DEFINE new == Len(reports) + 1
  <2>6. new \in Nat /\ \A k \in DOMAIN reports : k \in Nat /\ ~(new <= k) /\ k # new
    BY <2>5
  <2> HIDE DEF new
  <2>7. ASSUME NEW r \in DOMAIN reports', NEW g \in Sampled
        PROVE  Past(r, g)' = IF r = new THEN stats.gauges[g] ELSE Past(r, g)
    BY <2>3, <2>5 DEF Past, new
  <2>8. ASSUME NEW r \in DOMAIN reports', NEW g \in Sampled
        PROVE  /\ Past(r, g)' \in Nat /\ Past(r, g)' <= stats.gauges[g]
               /\ \A k \in DOMAIN reports' : r <= k => Past(r, g)' <= Past(k, g)'
    <3>1. CASE r = new
      <4>1. Past(r, g)' = stats.gauges[g]
        BY <2>7, <3>1
      <4>2. ASSUME NEW k \in DOMAIN reports', r <= k PROVE Past(k, g)' = stats.gauges[g]
        <5>1. k = new
          BY <2>5, <2>6, <3>1, <4>2 DEF new
        <5> QED BY <2>7, <5>1
      <4> QED BY <1>0, <4>1, <4>2
    <3>2. CASE r # new
      <4>1. r \in DOMAIN reports /\ Past(r, g)' = Past(r, g)
        BY <2>5, <2>7, <3>2 DEF new
      <4>2. Past(r, g) \in Nat /\ Past(r, g) <= stats.gauges[g]
        BY <4>1 DEF GrowInv
      <4>3. ASSUME NEW k \in DOMAIN reports', r <= k PROVE Past(r, g) <= Past(k, g)'
        <5>1. CASE k = new
          BY <2>7, <4>2, <5>1
        <5>2. CASE k # new
          <6>1. k \in DOMAIN reports /\ Past(k, g)' = Past(k, g)
            BY <2>5, <2>7, <5>2 DEF new
          <6> QED BY <4>1, <4>3, <6>1 DEF GrowInv
        <5> QED BY <5>1, <5>2
      <4> QED BY <4>1, <4>2, <4>3
    <3> QED BY <3>1, <3>2
  <2>9. GrowInv'
    BY <2>2, <2>8 DEF GrowInv
  <2>10. PollsInv'
    BY <2>2 DEF PollsInv
  <2> QED BY <2>9, <2>10
<1>2. ASSUME reports' = reports, \A g \in Sampled : stats.gauges[g] <= stats'.gauges[g] PROVE GrowInv'
  <2>1. \A r, g : Past(r, g)' = Past(r, g)
    BY <1>2 DEF Past
  <2>2. ASSUME NEW r \in DOMAIN reports, NEW g \in Sampled
        PROVE  Past(r, g) \in Nat /\ Past(r, g) <= stats'.gauges[g]
    BY <1>0, <1>2 DEF GrowInv
  <2> QED BY <1>2, <2>1, <2>2 DEF GrowInv
<1>3. CASE reports' = reports /\ UNCHANGED <<stats, sampler>>
  <2>1. PollsInv'
    BY <1>3 DEF PollsInv
  <2> QED BY <1>0, <1>2, <1>3, <2>1
<1>4. CASE /\ reports' = reports
           /\ \E s \in Samplers : Poll(s) \/ SetNextGauge(s) \/ EndPoll(s) \/ SamplerExits(s)
  BY <1>2, <1>4, PollsGrow
<1> QED BY <1>1, <1>3, <1>4, CollectorStep

-----------------------------------------------------------------------------
(* Steps that leave the channel, the workers and the network alone.        *)
LEMMA OrderFrame ==
    ASSUME OrderInv, UNCHANGED <<rateLimit, jobs, worker, limbo>>
    PROVE  OrderInv'
BY DEF OrderInv, Held

(* The report Run submits is the newest.                                   *)
LEMMA OrderSubmitted ==
    ASSUME QueueInv, ReportsInv, RemoteTypes, OrderInv, Submitted
    PROVE  OrderInv'
<1>1. /\ run = "submit" /\ jobs' = Append(jobs, pending) /\ UNCHANGED <<rateLimit, worker, limbo>>
  BY DEF Submitted, Submit, remoteVars
<1>2. jobs \in Seq(Reports) /\ pending \in Reports /\ pending.id = Len(reports)
  BY <1>1 DEF QueueInv, QueueTypes, Identity
<1>3. /\ DOMAIN jobs' = DOMAIN jobs \cup {Len(jobs) + 1}
      /\ \A i \in DOMAIN jobs : jobs'[i] = jobs[i]
      /\ jobs'[Len(jobs) + 1] = pending
      /\ DOMAIN jobs = 1 .. Len(jobs) /\ Len(jobs) \in Nat
  BY <1>1, <1>2, AppendedReports
<1>4. DOMAIN reports = 1 .. Len(reports) /\ Len(reports) \in Nat
  BY DEF ReportsInv
<1>5. \A p : Known(p) => p.id <= pending.id
  BY <1>2, <1>4 DEF Known
<1>6. /\ \A i \in DOMAIN jobs : jobs[i].id <= pending.id
      /\ \A w \in Workers : Held(w) => worker[w].report.id <= pending.id
      /\ \A q \in limbo : q.report.id <= pending.id
  BY <1>5 DEF QueueInv, Identity, RemoteTypes
<1>7. \A i \in DOMAIN jobs' : i \in DOMAIN jobs \/ (i = Len(jobs) + 1 /\ jobs'[i] = pending)
  BY <1>3
<1>8. ASSUME NEW i \in DOMAIN jobs', NEW j \in DOMAIN jobs', i <= j PROVE jobs'[i].id <= jobs'[j].id
  <2>1. CASE j \in DOMAIN jobs
    <3>1. i \in DOMAIN jobs
      BY <1>3, <1>8, <2>1
    <3> QED BY <1>3, <1>8, <2>1, <3>1 DEF OrderInv
  <2>2. CASE j = Len(jobs) + 1
    <3>1. jobs'[j].id = pending.id /\ pending.id \in Nat
      BY <1>2, <1>3, <1>4, <2>2
    <3>2. CASE i \in DOMAIN jobs
      BY <1>3, <1>6, <3>1, <3>2
    <3>3. CASE i = j
      BY <3>1, <3>3
    <3> QED BY <1>7, <2>2, <3>2, <3>3
  <2> QED BY <1>7, <2>1, <2>2
<1>9. \A w \in Workers : Held(w) => \A i \in DOMAIN jobs' : worker[w].report.id <= jobs'[i].id
  BY <1>3, <1>6, <1>7 DEF OrderInv
<1>10. \A q \in limbo : \A i \in DOMAIN jobs' : q.report.id <= jobs'[i].id
  BY <1>3, <1>6, <1>7 DEF OrderInv
<1> QED BY <1>1, <1>8, <1>9, <1>10 DEF OrderInv, Held

(* What a worker takes is older than what it leaves in the channel.        *)
LEMMA TakeShape ==
    ASSUME QueueTypes, NEW w \in Workers, Take(w)
    PROVE  /\ jobs \in Seq(Reports) /\ DOMAIN jobs = 1 .. Len(jobs) /\ Len(jobs) \in Nat /\ 1 \in DOMAIN jobs
           /\ DOMAIN jobs' = 1 .. Len(jobs) - 1
           /\ \A i \in DOMAIN jobs' : jobs'[i] = jobs[i + 1] /\ i + 1 \in DOMAIN jobs
           /\ worker'[w].pc = "do" /\ worker'[w].report = jobs[1]
           /\ \A v \in Workers : v # w => worker'[v] = worker[v]
           /\ ~Held(w) /\ worker[w].pc = "idle"
           /\ UNCHANGED <<rateLimit, limbo, server, broken>>
<1>1. /\ worker[w].pc = "idle" /\ jobs # << >> /\ jobs' = Tail(jobs)
      /\ worker' = [worker EXCEPT ![w] = [Idle EXCEPT !.pc = "do", !.report = Head(jobs)]]
      /\ UNCHANGED <<rateLimit, limbo, server, broken>>
  BY DEF Take, remoteVars
<1>2. jobs \in Seq(Reports) /\ worker \in [Workers -> Requests]
  BY DEF QueueTypes
<1>3. /\ Len(jobs) \in Nat /\ 1 \in DOMAIN jobs /\ Head(jobs) = jobs[1]
      /\ DOMAIN jobs' = 1 .. Len(jobs) - 1 /\ DOMAIN jobs = 1 .. Len(jobs)
      /\ \A i \in DOMAIN jobs' : jobs'[i] = jobs[i + 1] /\ i + 1 \in DOMAIN jobs
  BY <1>1, <1>2
<1>4. worker'[w] = [Idle EXCEPT !.pc = "do", !.report = Head(jobs)]
      /\ \A v \in Workers : v # w => worker'[v] = worker[v]
  BY <1>1, <1>2
<1>5. worker'[w].pc = "do" /\ worker'[w].report = jobs[1]
  BY <1>3, <1>4 DEF Idle
<1> QED BY <1>1, <1>2, <1>3, <1>4, <1>5 DEF Held

(* ... so the order is kept.                                               *)
LEMMA OrderTake ==
    ASSUME QueueInv, OrderInv, NEW w \in Workers, Take(w)
    PROVE  OrderInv'
<1>1. /\ DOMAIN jobs = 1 .. Len(jobs) /\ Len(jobs) \in Nat /\ 1 \in DOMAIN jobs
      /\ DOMAIN jobs' = 1 .. Len(jobs) - 1
      /\ \A i \in DOMAIN jobs' : jobs'[i] = jobs[i + 1] /\ i + 1 \in DOMAIN jobs
      /\ worker'[w].pc = "do" /\ worker'[w].report = jobs[1]
      /\ \A v \in Workers : v # w => worker'[v] = worker[v]
      /\ worker[w].pc = "idle"
      /\ UNCHANGED <<rateLimit, limbo>>
  BY TakeShape DEF QueueInv
<1>2. \A v \in Workers \ Started(rateLimit) : worker'[v].pc = "exited"
  BY <1>1 DEF OrderInv
<1>3. ASSUME NEW i \in DOMAIN jobs', NEW j \in DOMAIN jobs', i <= j PROVE jobs'[i].id <= jobs'[j].id
  <2>1. i + 1 <= j + 1 /\ i + 1 \in DOMAIN jobs /\ j + 1 \in DOMAIN jobs
    BY <1>1, <1>3
  <2> QED BY <1>1, <2>1 DEF OrderInv
<1>4. ASSUME NEW v \in Workers, Held(v)', NEW i \in DOMAIN jobs' PROVE worker'[v].report.id <= jobs'[i].id
  <2>1. CASE v = w
    <3>1. 1 <= i + 1 /\ i + 1 \in DOMAIN jobs
      BY <1>1
    <3>2. jobs[1].id <= jobs[i + 1].id
      BY <1>1, <3>1 DEF OrderInv
    <3> QED BY <1>1, <2>1, <3>2
  <2>2. CASE v # w
    <3>1. Held(v) /\ worker'[v] = worker[v]
      BY <1>1, <1>4, <2>2 DEF Held
    <3> QED BY <1>1, <3>1 DEF OrderInv
  <2> QED BY <2>1, <2>2
<1>5. ASSUME NEW q \in limbo, NEW i \in DOMAIN jobs' PROVE q.report.id <= jobs'[i].id
  BY <1>1 DEF OrderInv
<1> QED BY <1>1, <1>2, <1>3, <1>4, <1>5 DEF OrderInv

(* A worker that ends has no report.                                       *)
LEMMA ExitShape ==
    ASSUME QueueTypes, NEW w \in Workers, WorkerExits(w)
    PROVE  /\ \A v \in Workers : (Held(v)' <=> Held(v)) /\ (Held(v) => worker'[v] = worker[v])
           /\ \A v \in Workers : worker[v].pc = "exited" => worker'[v].pc = "exited"
           /\ worker'[w].pc = "exited" /\ \A v \in Workers : v # w => worker'[v] = worker[v]
           /\ UNCHANGED <<rateLimit, jobs, limbo, server, broken>>
<1>1. /\ worker[w].pc = "idle" /\ worker' = [worker EXCEPT ![w].pc = "exited"]
      /\ UNCHANGED <<rateLimit, jobs, limbo, server, broken>>
  BY DEF WorkerExits, queueVars, remoteVars
<1>2. worker \in [Workers -> Requests]
  BY DEF QueueTypes
<1>3. worker'[w].pc = "exited" /\ \A v \in Workers : v # w => worker'[v] = worker[v]
  BY <1>1, <1>2 DEF Requests
<1> QED BY <1>1, <1>3 DEF Held

(* Nothing is disordered by it.                                            *)
LEMMA OrderExits ==
    ASSUME QueueInv, OrderInv, NEW w \in Workers, WorkerExits(w)
    PROVE  OrderInv'
<1>1. /\ \A v \in Workers : (Held(v)' <=> Held(v)) /\ (Held(v) => worker'[v] = worker[v])
      /\ \A v \in Workers : worker[v].pc = "exited" => worker'[v].pc = "exited"
      /\ UNCHANGED <<rateLimit, jobs, limbo>>
  BY ExitShape DEF QueueInv
<1> QED BY <1>1 DEF OrderInv

(* A worker at work keeps its report or is done with it.                   *)
LEMMA MovesShape ==
    ASSUME QueueTypes, NEW w \in Workers, Held(w), NEW q, Moves(w, q)
    PROVE  /\ \A v \in Workers : v # w => worker'[v] = worker[v]
           /\ Held(w)' => worker'[w].report = worker[w].report
           /\ \A v \in Workers : Held(v)' => Held(v) /\ worker'[v].report = worker[v].report
           /\ \A v \in Workers : worker[v].pc = "exited" => worker'[v].pc = "exited"
<1>1. worker \in [Workers -> Requests]
  BY DEF QueueTypes
<1>2. worker'[w] = q /\ \A v \in Workers : v # w => worker'[v] = worker[v]
  BY <1>1 DEF Moves
<1>3. q = Idle \/ q.report = worker[w].report
  BY DEF Moves
<1>4. Held(w)' => worker'[w].report = worker[w].report
  BY <1>2, <1>3, NoReportType DEF Held
<1>5. worker[w].pc # "exited"
  BY DEF Held
<1> QED BY <1>2, <1>4, <1>5 DEF Held

(* Its requests keep the order.                                            *)
LEMMA OrderMoves ==
    ASSUME QueueInv, OrderInv, NEW w \in Workers, Held(w), NEW q, Moves(w, q),
           UNCHANGED <<rateLimit, jobs>>, limbo' \subseteq limbo \cup {worker[w]}
    PROVE  OrderInv'
<1>1. /\ \A v \in Workers : Held(v)' => Held(v) /\ worker'[v].report = worker[v].report
      /\ \A v \in Workers : worker[v].pc = "exited" => worker'[v].pc = "exited"
  BY MovesShape DEF QueueInv
<1>2. \A p \in limbo' : \A i \in DOMAIN jobs : p.report.id <= jobs[i].id
  BY DEF OrderInv
<1> QED BY <1>1, <1>2 DEF OrderInv

-----------------------------------------------------------------------------
(* What GaugesFresh says of a step.                                        *)
Rises == \A g \in Sampled : server.gauges[g] # Nil => server'.gauges[g] >= server.gauges[g]

(* Steps that store nothing.                                               *)
LEMMA BehindStays ==
    ASSUME GrowInv, ServerBehind, server' = server,
           \A r \in DOMAIN reports : r \in DOMAIN reports' /\ reports'[r] = reports[r],
           \A r \in DOMAIN reports' : r \in DOMAIN reports \/ \A k \in DOMAIN reports : k <= r,
           \A r \in DOMAIN reports : ToCome(r)' => ToCome(r)
    PROVE  ServerBehind' /\ Rises
<1>1. ASSUME NEW g \in Sampled, server.gauges[g] # Nil
      PROVE  /\ \E k \in DOMAIN reports' :
                  server'.gauges[g] = Past(k, g)' /\ \A r \in DOMAIN reports' : ToCome(r)' => k <= r
             /\ server'.gauges[g] >= server.gauges[g]
  <2>1. PICK k \in DOMAIN reports :
           server.gauges[g] = Past(k, g) /\ \A r \in DOMAIN reports : ToCome(r) => k <= r
    BY <1>1 DEF ServerBehind
  <2>2. Past(k, g)' = Past(k, g) /\ Past(k, g) \in Nat /\ k \in DOMAIN reports'
    BY <2>1 DEF Past, GrowInv
  <2>3. \A r \in DOMAIN reports' : ToCome(r)' => k <= r
    BY <2>1
  <2> QED BY <2>1, <2>2, <2>3
<1>2. ServerBehind'
  BY <1>1 DEF ServerBehind
<1> QED BY <1>1, <1>2 DEF Rises

(* Storing a request when nothing older may follow it.                     *)
LEMMA BehindStores ==
    ASSUME ReportsInv, GrowInv, ServerBehind, server \in Stores, NEW q \in Requests,
           q.one <= Len(q.report.items), Known(q.report), StorePayload(q), reports' = reports,
           ToCome(q.report.id),
           \A r \in DOMAIN reports : ToCome(r)' => ToCome(r) /\ q.report.id <= r
    PROVE  ServerBehind' /\ Rises
<1> DEFINE n == q.report.id
<1>0. n \in DOMAIN reports
  BY DEF Known
<1>1. \A g \in Sampled : server'.gauges[g] = server.gauges[g] \/ server'.gauges[g] = Past(n, g)
  BY StoredGauge
<1>2. \A r, g : Past(r, g)' = Past(r, g)
  BY DEF Past
<1>3. \A r \in DOMAIN reports : \A g \in Sampled : Past(r, g) \in Nat
  BY DEF GrowInv
<1> HIDE DEF n
<1>4. ASSUME NEW g \in Sampled, server'.gauges[g] # Nil
      PROVE  \E k \in DOMAIN reports :
                server'.gauges[g] = Past(k, g) /\ \A r \in DOMAIN reports : ToCome(r)' => k <= r
  <2>1. CASE server'.gauges[g] = Past(n, g)
    BY <1>0, <2>1 DEF n
  <2>2. CASE server'.gauges[g] = server.gauges[g]
    <3>1. PICK k \in DOMAIN reports :
             server.gauges[g] = Past(k, g) /\ \A r \in DOMAIN reports : ToCome(r) => k <= r
      BY <1>4, <2>2 DEF ServerBehind
    <3> QED BY <2>2, <3>1
  <2> QED BY <1>1, <2>1, <2>2
<1>5. ServerBehind'
  BY <1>2, <1>4 DEF ServerBehind
<1>6. ASSUME NEW g \in Sampled, server.gauges[g] # Nil PROVE server'.gauges[g] >= server.gauges[g]
  <2>1. PICK k \in DOMAIN reports :
           server.gauges[g] = Past(k, g) /\ \A r \in DOMAIN reports : ToCome(r) => k <= r
    BY <1>6 DEF ServerBehind
  <2>2. k <= n
    BY <1>0, <2>1 DEF n
  <2>3. Past(k, g) <= Past(n, g)
    BY <1>0, <2>1, <2>2 DEF GrowInv
  <2> QED BY <1>0, <1>1, <1>3, <2>1, <2>3
<1> QED BY <1>5, <1>6 DEF Rises

(* Where there is one worker it has the report.                            *)
LEMMA TheWorker ==
    ASSUME OrderInv, QueueTypes, Alone
    PROVE  1 \in Workers /\ \A w \in Workers : worker[w].pc # "exited" => w = 1
<1>1. 1 \in Workers
  BY StartedWorkers DEF QueueTypes
<1> QED BY <1>1 DEF OrderInv, Alone

(* Steps of Run, of the collector and of the signal.                       *)
LEMMA FreshQuiet ==
    ASSUME GrowInv, LimboInv, ServerBehind,
           UNCHANGED <<worker, limbo, server>>, ctxDone => ctxDone',
           \A r \in DOMAIN reports : r \in DOMAIN reports' /\ reports'[r] = reports[r],
           \A r \in DOMAIN reports' : r \in DOMAIN reports \/ \A k \in DOMAIN reports : k <= r,
           \A r \in DOMAIN reports : InHand(r)' => InHand(r)
    PROVE  LimboInv' /\ ServerBehind' /\ Rises
<1>1. \A r \in DOMAIN reports : ToCome(r)' => ToCome(r)
  BY DEF ToCome
<1>2. ServerBehind' /\ Rises
  BY <1>1, BehindStays
<1>3. LimboInv'
  BY DEF LimboInv, Held
<1> QED BY <1>2, <1>3

(* A worker that takes a report takes no older one than was sent.          *)
LEMMA FreshTake ==
    ASSUME QueueInv, FreshInv, Alone, NEW w \in Workers, Take(w) \/ WorkerExits(w),
           UNCHANGED <<agentVars, ctxDone>>
    PROVE  LimboInv' /\ ServerBehind' /\ Rises
<1>0. LimboInv /\ ServerBehind /\ GrowInv /\ OrderInv /\ QueueTypes
  BY DEF FreshInv, QueueInv
<1>1. UNCHANGED <<reports, run, pending, ctxDone>>
  BY DEF agentVars
<1>2. 1 \in Workers /\ \A v \in Workers : worker[v].pc # "exited" => v = 1
  BY <1>0, TheWorker
<1>3. CASE Take(w)
  <2>1. /\ 1 \in DOMAIN jobs
        /\ \A i \in DOMAIN jobs' : jobs'[i] = jobs[i + 1] /\ i + 1 \in DOMAIN jobs
        /\ worker'[w].pc = "do" /\ worker'[w].report = jobs[1]
        /\ \A v \in Workers : v # w => worker'[v] = worker[v]
        /\ worker[w].pc = "idle" /\ UNCHANGED <<limbo, server>>
    BY <1>0, <1>3, TakeShape
  <2>2. w = 1
    BY <1>2, <2>1
  <2>3. \A r \in DOMAIN reports : InHand(r)' => InHand(r)
    BY <1>1, <2>1 DEF InHand, Held
  <2>4. \A r \in DOMAIN reports : ToCome(r)' => ToCome(r)
    BY <2>1, <2>3 DEF ToCome
  <2>5. ServerBehind' /\ Rises
    BY <1>0, <1>1, <2>1, <2>4, BehindStays
  <2>6. \A q \in limbo : q.report.id <= jobs[1].id
    BY <1>0, <2>1 DEF OrderInv
  <2>7. LimboInv'
    BY <1>0, <1>1, <2>1, <2>2, <2>6 DEF LimboInv
  <2> QED BY <2>5, <2>7
<1>4. CASE WorkerExits(w)
  <2>1. /\ \A v \in Workers : (Held(v)' <=> Held(v)) /\ (Held(v) => worker'[v] = worker[v])
        /\ worker'[w].pc = "exited" /\ \A v \in Workers : v # w => worker'[v] = worker[v]
        /\ UNCHANGED <<jobs, limbo, server>>
    BY <1>0, <1>4, ExitShape
  <2>2. \A r \in DOMAIN reports : ToCome(r)' => ToCome(r)
    BY <1>1, <2>1 DEF ToCome, InHand
  <2>3. ServerBehind' /\ Rises
    BY <1>0, <1>1, <2>1, <2>2, BehindStays
  <2>4. worker'[1].pc \in {"sent", "stored"} => worker[1].pc \in {"sent", "stored"}
    BY <1>2, <2>1
  <2>5. LimboInv'
    BY <1>0, <1>1, <1>2, <2>1, <2>4 DEF LimboInv
  <2> QED BY <2>3, <2>5
<1> QED BY <1>3, <1>4

(* Moves bring no report back.                                             *)
LEMMA MovesToCome ==
    ASSUME QueueTypes, NEW w \in Workers, Held(w), NEW q, Moves(w, q),
           UNCHANGED <<run, pending, jobs>>, limbo' \subseteq limbo \cup {worker[w]}
    PROVE  \A r : ToCome(r)' => ToCome(r)
<1>1. \A v \in Workers : Held(v)' => Held(v) /\ worker'[v].report = worker[v].report
  BY MovesShape
<1>2. \A r : InHand(r)' => InHand(r)
  BY <1>1 DEF InHand
<1>3. \A r : worker[w].report.id = r => InHand(r)
  BY DEF InHand
<1> QED BY <1>2, <1>3 DEF ToCome

(* A worker that goes on without an answer to store.                       *)
LEMMA FreshWork ==
    ASSUME QueueInv, FreshInv, Alone, NEW w \in Workers, Do(w) \/ Backoff(w) \/ Answered(w) \/ Refused(w),
           UNCHANGED <<agentVars, ctxDone>>
    PROVE  LimboInv' /\ ServerBehind' /\ Rises
<1>0. LimboInv /\ ServerBehind /\ GrowInv /\ OrderInv /\ QueueTypes /\ Identity
  BY DEF FreshInv, QueueInv
<1>1. UNCHANGED <<reports, run, pending, jobs, limbo, server, ctxDone>>
  BY DEF agentVars, Do, Backoff, Answered, Refused, remoteVars
<1>2. Held(w) /\ \E q : Moves(w, q)
  BY <1>0, WorkerMoves
<1>3. PICK q : Moves(w, q)
  BY <1>2
<1>4. w = 1
  BY <1>0, <1>2, TheWorker DEF Held
<1>5. \A r \in DOMAIN reports : ToCome(r)' => ToCome(r)
  <2>1. limbo' \subseteq limbo \cup {worker[w]}
    BY <1>1
  <2> QED BY <1>0, <1>1, <1>2, <1>3, <2>1, MovesToCome
<1>6. ServerBehind' /\ Rises
  BY <1>0, <1>1, <1>5, BehindStays
<1>7. Held(w)' => worker'[w].report = worker[w].report
  BY <1>0, <1>2, <1>3, MovesShape
<1>8. ASSUME NEW p \in limbo PROVE worker'[w].pc \notin {"sent", "stored"}
  <2>1. ctxDone /\ worker[w].pc \notin {"sent", "stored"}
    BY <1>0, <1>4 DEF LimboInv
  <2>2. Do(w) \/ Backoff(w)
    BY <2>1 DEF Answered, Refused
  <2>3. worker \in [Workers -> Requests] /\ worker[w] \in Requests
    BY <1>0 DEF QueueTypes
  <2>4. CASE Return(w, FALSE)
    <3>1. worker' = [worker EXCEPT ![w] = Idle] \/ worker' = [worker EXCEPT ![w] = SendNext(w)]
      BY <1>0, <1>2, <2>4, ReturnShape
    <3>2. worker'[w] = Idle \/ worker'[w] = SendNext(w)
      BY <2>3, <3>1
    <3>3. SendNext(w).pc = "do"
      BY DEF SendNext
    <3> QED BY <3>2, <3>3, NoReportType
  <2>5. CASE worker' = [worker EXCEPT ![w].pc = "do", ![w].try = @ + 1]
    BY <2>3, <2>5 DEF Requests
  <2> QED BY <2>1, <2>2, <2>4, <2>5 DEF Do, Backoff, Fails
<1>9. LimboInv'
  BY <1>0, <1>1, <1>2, <1>4, <1>7, <1>8 DEF LimboInv
<1> QED BY <1>6, <1>9

(* A cancelled request is the last one.                                    *)
LEMMA FreshCancelled ==
    ASSUME QueueInv, FreshInv, Alone, NEW w \in Workers, Cancelled(w), UNCHANGED <<agentVars, ctxDone>>
    PROVE  LimboInv' /\ ServerBehind' /\ Rises
<1>0. LimboInv /\ ServerBehind /\ GrowInv /\ OrderInv /\ QueueTypes /\ Identity
  BY DEF FreshInv, QueueInv
<1>1. UNCHANGED <<reports, run, pending, jobs, server, ctxDone>> /\ ctxDone
      /\ worker[w].pc \in {"sent", "stored"} /\ limbo' \subseteq limbo \cup {worker[w]}
  BY DEF agentVars, Cancelled, MayLinger
<1>2. Held(w) /\ \E q : Moves(w, q)
  BY <1>0, WorkerMoves
<1>3. PICK q : Moves(w, q)
  BY <1>2
<1>4. w = 1
  BY <1>0, <1>2, TheWorker DEF Held
<1>5. \A r \in DOMAIN reports : ToCome(r)' => ToCome(r)
  BY <1>0, <1>1, <1>2, <1>3, MovesToCome
<1>6. ServerBehind' /\ Rises
  BY <1>0, <1>1, <1>5, BehindStays
<1>7. Held(w)' => worker'[w].report = worker[w].report
  BY <1>0, <1>2, <1>3, MovesShape
<1>8. limbo' \subseteq {worker[w]}
  BY <1>0, <1>1, <1>4 DEF LimboInv
<1>9. worker'[w].pc \notin {"sent", "stored"}
  <2>1. worker \in [Workers -> Requests]
    BY <1>0 DEF QueueTypes
  <2>2. Return(w, FALSE)
    BY <1>1 DEF Cancelled, Fails
  <2>3. worker' = [worker EXCEPT ![w] = Idle] \/ worker' = [worker EXCEPT ![w] = SendNext(w)]
    BY <1>0, <1>2, <2>2, ReturnShape
  <2>4. worker'[w] = Idle \/ worker'[w] = SendNext(w)
    BY <2>1, <2>3
  <2>5. SendNext(w).pc = "do"
    BY DEF SendNext
  <2> QED BY <2>4, <2>5, NoReportType
<1>10. worker[w].report.id \in Nat
  BY <1>0 DEF QueueTypes, Requests, Reports
<1>11. LimboInv'
  BY <1>1, <1>4, <1>7, <1>8, <1>9, <1>10 DEF LimboInv
<1> QED BY <1>6, <1>11

(* What a known report's number is at most.                                *)
LEMMA NumbersGrow ==
    ASSUME ReportsInv, QueueInv, run = "submit", NEW p, Known(p)
    PROVE  p.id <= pending.id
<1>1. DOMAIN reports = 1 .. Len(reports) /\ Len(reports) \in Nat
  BY DEF ReportsInv
<1>2. pending.id = Len(reports)
  BY DEF QueueInv, Identity
<1> QED BY <1>1, <1>2 DEF Known

(* The worker's request is stored: everything else is newer.               *)
LEMMA FreshArrives ==
    ASSUME QueueInv, ReportsInv, FreshInv, Alone, NEW w \in Workers, Arrives(w), UNCHANGED <<agentVars, ctxDone>>
    PROVE  LimboInv' /\ ServerBehind' /\ Rises
<1>0. LimboInv /\ ServerBehind /\ GrowInv /\ OrderInv /\ QueueTypes /\ Identity /\ server \in Stores
  BY DEF FreshInv, QueueInv
<1>1. /\ UNCHANGED <<reports, run, pending, jobs, limbo, ctxDone>> /\ worker[w].pc = "sent"
      /\ StorePayload(worker[w])
  BY DEF agentVars, Arrives, queueVars
<1>2. Held(w) /\ \E q : Moves(w, q)
  BY <1>0, WorkerMoves
<1>3. PICK q : Moves(w, q)
  BY <1>2
<1>4. w = 1 /\ \A v \in Workers : Held(v) => v = 1
  BY <1>0, <1>2, TheWorker DEF Held
<1>5. limbo = {}
  BY <1>0, <1>1, <1>4 DEF LimboInv
<1>6. /\ worker[w] \in Requests /\ worker[w].one <= Len(worker[w].report.items)
      /\ Known(worker[w].report) /\ worker[w].report.id \in Nat
  BY <1>0, <1>2 DEF QueueTypes, Identity, Requests, Reports
<1>7. ToCome(worker[w].report.id)
  BY <1>2 DEF ToCome, InHand
<1>8. \A r \in DOMAIN reports : ToCome(r)' => ToCome(r)
  <2>1. limbo' \subseteq limbo \cup {worker[w]}
    BY <1>1
  <2> QED BY <1>0, <1>1, <1>2, <1>3, <2>1, MovesToCome
<1>9. ASSUME NEW r \in DOMAIN reports, ToCome(r) PROVE worker[w].report.id <= r
  <2>1. InHand(r)
    BY <1>5, <1>9 DEF ToCome
  <2>2. CASE run = "submit" /\ pending.id = r
    BY <1>6, <2>2, NumbersGrow
  <2>3. CASE \E i \in DOMAIN jobs : jobs[i].id = r
    BY <1>0, <1>2, <2>3 DEF OrderInv
  <2>4. CASE \E v \in Workers : Held(v) /\ worker[v].report.id = r
    <3>1. worker[w].report.id = r
      BY <1>4, <2>4
    <3>2. r <= r
      BY <1>6, <3>1
    <3> QED BY <3>1, <3>2
  <2> QED BY <2>1, <2>2, <2>3, <2>4 DEF InHand
<1>10. ServerBehind' /\ Rises
  BY <1>0, <1>1, <1>6, <1>7, <1>8, <1>9, BehindStores
<1>11. LimboInv'
  BY <1>1, <1>5 DEF LimboInv
<1> QED BY <1>10, <1>11

(* The cancelled request arrives: everything else is newer, or the same.   *)
LEMMA FreshLate ==
    ASSUME QueueInv, ReportsInv, RemoteTypes, FreshInv, Alone, ArrivesLate, UNCHANGED <<agentVars, ctxDone>>
    PROVE  LimboInv' /\ ServerBehind' /\ Rises
<1>0. LimboInv /\ ServerBehind /\ GrowInv /\ OrderInv /\ QueueTypes /\ Identity /\ server \in Stores
  BY DEF FreshInv, QueueInv
<1>1. PICK q \in limbo :
         /\ StorePayload(q) /\ limbo' = limbo \ {q}
         /\ UNCHANGED <<reports, run, pending, jobs, worker, ctxDone>>
  BY DEF agentVars, ArrivesLate, queueVars
<1>2. q \in Requests /\ q.one <= Len(q.report.items) /\ Known(q.report)
  BY DEF RemoteTypes
<1>3. ToCome(q.report.id)
  BY DEF ToCome
<1>4. \A r : ToCome(r)' => InHand(r)
  BY <1>0, <1>1 DEF ToCome, InHand, Held, LimboInv
<1>5. ASSUME NEW r \in DOMAIN reports, InHand(r) PROVE q.report.id <= r
  <2>2. CASE run = "submit" /\ pending.id = r
    BY <1>2, <2>2, NumbersGrow
  <2>3. CASE \E i \in DOMAIN jobs : jobs[i].id = r
    BY <1>0, <2>3 DEF OrderInv
  <2>4. CASE \E v \in Workers : Held(v) /\ worker[v].report.id = r
    <3>1. Held(1) /\ worker[1].report.id = r
      BY <1>0, <2>4, TheWorker DEF Held
    <3> QED BY <1>0, <3>1 DEF LimboInv
  <2> QED BY <1>5, <2>2, <2>3, <2>4 DEF InHand
<1>6. \A r \in DOMAIN reports : ToCome(r)' => ToCome(r) /\ q.report.id <= r
  BY <1>4, <1>5 DEF ToCome
<1>7. ServerBehind' /\ Rises
  BY <1>0, <1>1, <1>2, <1>3, <1>6, BehindStores
<1>8. LimboInv'
  BY <1>0, <1>1 DEF LimboInv
<1> QED BY <1>7, <1>8

-----------------------------------------------------------------------------
(* Nothing has been sent.                                                  *)
LEMMA FreshInit == ASSUME Init PROVE FreshInv
<1>1. /\ reports = << >> /\ jobs = << >> /\ limbo = {} /\ server = EmptyStore
      /\ worker = [w \in Workers |-> IF w \in Started(rateLimit) THEN Idle ELSE Exited]
      /\ stats = [gauges |-> [g \in Sampled |-> 0], polls |-> 0]
      /\ sampler = [s \in Samplers |-> [pc |-> "wait", poll |-> 0, next |-> 1]]
  BY DEF Init, PublisherInit, CollectorInit
<1>2. PollsInv
  BY <1>1, GaugeNames DEF PollsInv
<1>3. DOMAIN reports = {} /\ DOMAIN jobs = {}
  BY <1>1
<1>4. GrowInv
  BY <1>3 DEF GrowInv
<1>5. \A w \in Workers : w \notin Started(rateLimit) => worker[w].pc = "exited"
  BY <1>1, NoReportType
<1>6. OrderInv
  BY <1>1, <1>3, <1>5 DEF OrderInv
<1>7. LimboInv
  BY <1>1 DEF LimboInv
<1>8. \A g \in Sampled : server.gauges[g] = Nil
  BY <1>1, GaugeNames DEF EmptyStore
<1>9. ServerBehind
  BY <1>8 DEF ServerBehind
<1> QED BY <1>1, <1>2, <1>4, <1>6, <1>7, <1>9, EmptyStoreType DEF FreshInv

(* What a step of Run, the collector or the signal leaves alone.           *)
LEMMA QuietSteps ==
    ASSUME AgentInv,
           \/ UNCHANGED vars \/ Report \/ StopReporting \/ RunStep \/ Interrupt
           \/ \E s \in Samplers : Sampling(s) \/ SamplerLeaves(s)
    PROVE  /\ UNCHANGED <<rateLimit, worker, limbo, server, broken>> /\ (ctxDone => ctxDone')
           /\ jobs' = jobs \/ Submitted
           /\ \A r \in DOMAIN reports : r \in DOMAIN reports' /\ reports'[r] = reports[r]
           /\ \A r \in DOMAIN reports' : r \in DOMAIN reports \/ \A k \in DOMAIN reports : k <= r
           /\ \A r \in DOMAIN reports : InHand(r)' => InHand(r)
<1>0. CollectorInv /\ ReportsInv /\ QueueTypes
  BY DEF AgentInv, QueueInv
<1>1. CASE Report
  <2>1. PICK batch \in Batches(stats) :
           reports' = Append(reports, batch) /\ pending' = [id |-> Len(reports) + 1, items |-> batch]
    BY <1>1 DEF Report
  <2>2. batch \in Seq(UsableMetric) /\ reports \in Seq(Seq(UsableMetric))
    BY <1>0, BatchCoherent DEF Proper, ReportsInv
  <2>3. /\ DOMAIN reports' = DOMAIN reports \cup {Len(reports) + 1}
        /\ \A i \in DOMAIN reports : reports'[i] = reports[i]
        /\ DOMAIN reports = 1 .. Len(reports) /\ Len(reports) \in Nat /\ Len(reports) + 1 \notin DOMAIN reports
    BY <2>1, <2>2, AppendedReports
  <2>4. UNCHANGED <<rateLimit, worker, limbo, server, broken, jobs, ctxDone>>
    BY <1>1 DEF Report, publisherVars, queueVars, remoteVars
  <2>5. pending'.id = Len(reports) + 1
    BY <2>1
  <2>6. \A r \in DOMAIN reports : InHand(r)' => InHand(r)
    BY <2>3, <2>4, <2>5 DEF InHand, Held
  <2>7. \A k \in DOMAIN reports : k <= Len(reports) + 1
    BY <2>3
  <2> QED BY <2>3, <2>4, <2>6, <2>7
<1>2. CASE Submitted
  <2>1. /\ run = "submit" /\ run' = "select" /\ jobs' = Append(jobs, pending)
        /\ UNCHANGED <<reports, rateLimit, worker, limbo, server, broken, ctxDone>>
    BY <1>2 DEF Submitted, Submit, remoteVars
  <2>2. jobs \in Seq(Reports) /\ pending \in Reports
    BY <1>0 DEF QueueTypes
  <2>3. /\ DOMAIN jobs' = DOMAIN jobs \cup {Len(jobs) + 1}
        /\ \A i \in DOMAIN jobs : jobs'[i] = jobs[i]
        /\ jobs'[Len(jobs) + 1] = pending
    BY <2>1, <2>2, AppendedReports
  <2>4. \A r \in DOMAIN reports : InHand(r)' => InHand(r)
    BY <2>1, <2>3 DEF InHand, Held
  <2> QED BY <1>2, <2>1, <2>4
<1>3. CASE /\ UNCHANGED <<pending, reports, rateLimit, jobs, worker, limbo, server, broken>>
           /\ run' # "submit" \/ run' = run
           /\ ctxDone => ctxDone'
  <2>1. \A r : InHand(r)' => InHand(r)
    BY <1>3 DEF InHand, Held
  <2> QED BY <1>3, <2>1
<1>4. CASE UNCHANGED vars
  BY <1>3, <1>4 DEF vars, agentVars, publisherVars, queueVars, remoteVars
<1>5. CASE StopReporting
  BY <1>3, <1>5 DEF StopReporting, CloseJobs, remoteVars
<1>6. CASE StopCollector \/ Exit
  BY <1>3, <1>6 DEF StopCollector, Exit, publisherVars, queueVars, remoteVars
<1>7. CASE Interrupt
  BY <1>3, <1>7 DEF Interrupt, Signal, agentVars, publisherVars, queueVars, remoteVars
<1>8. CASE \E s \in Samplers : Sampling(s) \/ SamplerLeaves(s)
  BY <1>3, <1>8 DEF Sampling, SamplerLeaves, agentVars, publisherVars, queueVars, remoteVars
<1> QED BY <1>1, <1>2, <1>4, <1>5, <1>6, <1>7, <1>8 DEF RunStep

(* What the workers and the network may add to the network.                *)
LEMMA MayArriveLate ==
    ASSUME NEW w \in Workers,
           Do(w) \/ Backoff(w) \/ Cancelled(w) \/ Arrives(w) \/ Answered(w) \/ Refused(w) \/ Breaks(w)
    PROVE  UNCHANGED <<rateLimit, jobs>> /\ limbo' \subseteq limbo \cup {worker[w]}
<1>1. UNCHANGED <<rateLimit, jobs>>
  BY DEF Do, Backoff, Cancelled, Arrives, Answered, Refused, Breaks, queueVars
<1>2. limbo' = limbo \/ limbo' = limbo \cup {worker[w]}
  BY DEF Do, Backoff, Cancelled, Arrives, Answered, Refused, Breaks, remoteVars, MayLinger
<1> QED BY <1>1, <1>2

(* Every step keeps the order of the reports ...                           *)
LEMMA OrderStep == ASSUME AgentInv, OrderInv, [Next]_vars PROVE OrderInv'
<1>0. QueueInv /\ ReportsInv /\ RemoteTypes /\ QueueTypes /\ Identity
  BY DEF AgentInv, QueueInv
<1>1. CASE \/ UNCHANGED vars \/ Report \/ StopReporting \/ RunStep \/ Interrupt
           \/ \E s \in Samplers : Sampling(s) \/ SamplerLeaves(s)
  <2>1. UNCHANGED <<rateLimit, worker, limbo>> /\ (jobs' = jobs \/ Submitted)
    BY <1>1, QuietSteps
  <2> QED BY <1>0, <2>1, OrderFrame, OrderSubmitted
<1>2. ASSUME NEW w \in Workers,
             Do(w) \/ Backoff(w) \/ Cancelled(w) \/ Arrives(w) \/ Answered(w) \/ Refused(w) \/ Breaks(w)
      PROVE  OrderInv'
  <2>1. Held(w) /\ \E q : Moves(w, q)
    BY <1>0, <1>2, WorkerMoves
  <2>2. UNCHANGED <<rateLimit, jobs>> /\ limbo' \subseteq limbo \cup {worker[w]}
    BY <1>2, MayArriveLate
  <2> QED BY <1>0, <2>1, <2>2, OrderMoves
<1>3. ASSUME NEW w \in Workers, Works(w) \/ Served(w) PROVE OrderInv'
  <2>1. CASE Take(w)
    BY <1>0, <2>1, OrderTake
  <2>2. CASE WorkerExits(w)
    BY <1>0, <2>2, OrderExits
  <2> QED BY <1>2, <1>3, <2>1, <2>2 DEF Works, Served, WorkerStep, ServerStep
<1>4. CASE NetworkFails
  <2>1. CASE ArrivesLate
    <3>1. UNCHANGED <<rateLimit, jobs, worker>> /\ limbo' \subseteq limbo
      BY <2>1 DEF ArrivesLate, queueVars
    <3> QED BY <3>1 DEF OrderInv, Held
  <2> QED BY <1>2, <1>4, <2>1 DEF NetworkFails
<1> QED BY <1>1, <1>3, <1>4 DEF Next

(* ... and types the server.                                               *)
LEMMA ServerTypeStep == ASSUME AgentInv, server \in Stores, [Next]_vars PROVE server' \in Stores
<1>0. QueueInv /\ ReportsInv /\ RemoteTypes /\ QueueTypes /\ Identity
  BY DEF AgentInv, QueueInv
<1>1. CASE server' = server
  BY <1>1
<1>2. ASSUME NEW w \in Workers, Arrives(w) PROVE server' \in Stores
  <2>1. Held(w) /\ StorePayload(worker[w])
    BY <1>2 DEF Arrives, Held
  <2>2. worker[w] \in Requests /\ worker[w].one <= Len(worker[w].report.items) /\ Known(worker[w].report)
    BY <1>0, <2>1 DEF QueueTypes, Identity
  <2> QED BY <1>0, <2>1, <2>2, StoredGauge
<1>3. CASE ArrivesLate
  <2>1. PICK q \in limbo : StorePayload(q)
    BY <1>3 DEF ArrivesLate
  <2>2. q \in Requests /\ q.one <= Len(q.report.items) /\ Known(q.report)
    BY <1>0 DEF RemoteTypes
  <2> QED BY <1>0, <2>1, <2>2, StoredGauge
<1>4. CASE \/ UNCHANGED vars \/ Report \/ StopReporting \/ RunStep \/ Interrupt
           \/ \E s \in Samplers : Sampling(s) \/ SamplerLeaves(s)
  BY <1>1, <1>4, QuietSteps
<1>5. ASSUME NEW w \in Workers, Works(w) \/ Served(w) PROVE server' \in Stores
  BY <1>1, <1>2, <1>5 DEF Works, Served, WorkerStep, ServerStep, Take, WorkerExits, Do, Backoff,
                          Cancelled, Answered, remoteVars
<1>6. CASE NetworkFails
  BY <1>1, <1>3, <1>6 DEF NetworkFails, Refused, Breaks, remoteVars
<1> QED BY <1>4, <1>5, <1>6 DEF Next

(* With one worker no step makes the server's gauges older, and none       *)
(* prepares one that would.                                                *)
LEMMA AloneStep ==
    ASSUME AgentInv, FreshInv, Alone, [Next]_vars
    PROVE  Rises /\ (Alone' => LimboInv' /\ ServerBehind')
<1>0. /\ QueueInv /\ ReportsInv /\ RemoteTypes /\ LimboInv /\ ServerBehind /\ GrowInv
      /\ broken \in Nat /\ broken = 0
  BY DEF AgentInv, FreshInv, RemoteTypes, Alone
<1>1. CASE \/ UNCHANGED vars \/ Report \/ StopReporting \/ RunStep \/ Interrupt
           \/ \E s \in Samplers : Sampling(s) \/ SamplerLeaves(s)
  <2>1. /\ UNCHANGED <<worker, limbo, server>> /\ (ctxDone => ctxDone')
        /\ \A r \in DOMAIN reports : r \in DOMAIN reports' /\ reports'[r] = reports[r]
        /\ \A r \in DOMAIN reports' : r \in DOMAIN reports \/ \A k \in DOMAIN reports : k <= r
        /\ \A r \in DOMAIN reports : InHand(r)' => InHand(r)
    BY <1>1, QuietSteps
  <2> QED BY <1>0, <2>1, FreshQuiet
<1>2. ASSUME NEW w \in Workers, Works(w) \/ Served(w) PROVE LimboInv' /\ ServerBehind' /\ Rises
  <2>1. UNCHANGED <<agentVars, ctxDone>>
    BY <1>2 DEF Works, Served
  <2>2. CASE Take(w) \/ WorkerExits(w)
    BY <1>0, <2>1, <2>2, FreshTake
  <2>3. CASE Do(w) \/ Backoff(w) \/ Answered(w)
    BY <1>0, <2>1, <2>3, FreshWork
  <2>4. CASE Cancelled(w)
    BY <1>0, <2>1, <2>4, FreshCancelled
  <2>5. CASE Arrives(w)
    BY <1>0, <2>1, <2>5, FreshArrives
  <2> QED BY <1>2, <2>2, <2>3, <2>4, <2>5 DEF Works, Served, WorkerStep, ServerStep
<1>3. CASE NetworkFails
  <2>1. UNCHANGED <<agentVars, ctxDone>> /\ reports' = reports
    BY <1>3 DEF NetworkFails, agentVars
  <2>2. CASE ArrivesLate
    BY <1>0, <2>1, <2>2, FreshLate
  <2>3. ASSUME NEW w \in Workers, Refused(w) PROVE LimboInv' /\ ServerBehind' /\ Rises
    BY <1>0, <2>1, <2>3, FreshWork
  <2>4. ASSUME NEW w \in Workers, Breaks(w) PROVE Rises /\ ~Alone'
    <3>1. server' = server /\ broken' = broken + 1
      BY <2>4 DEF Breaks
    <3>2. \A g \in Sampled : server.gauges[g] # Nil => server.gauges[g] \in Nat
      BY <1>0 DEF ServerBehind, GrowInv
    <3>3. ~Alone'
      BY <1>0, <3>1 DEF Alone
    <3> QED BY <3>1, <3>2, <3>3 DEF Rises
  <2> QED BY <1>3, <2>2, <2>3, <2>4 DEF NetworkFails
<1> QED BY <1>1, <1>2, <1>3 DEF Next

(* Only more connections break.                                            *)
LEMMA AloneBefore == ASSUME AgentInv, [Next]_vars, Alone' PROVE Alone
<1>1. broken \in Nat
  BY DEF AgentInv, RemoteTypes
<1>2. rateLimit' = rateLimit /\ (broken' = broken \/ broken' = broken + 1)
  <2>1. CASE \/ UNCHANGED vars \/ Report \/ StopReporting \/ RunStep \/ Interrupt
             \/ \E s \in Samplers : Sampling(s) \/ SamplerLeaves(s)
    BY <2>1, QuietSteps
  <2>2. ASSUME NEW w \in Workers, Works(w) \/ Served(w) PROVE UNCHANGED <<rateLimit, broken>>
    BY <2>2 DEF Works, Served, WorkerStep, ServerStep, Take, WorkerExits, Do, Backoff,
                Cancelled, Answered, Arrives
  <2>3. CASE NetworkFails
    BY <2>3 DEF NetworkFails, Refused, Breaks, ArrivesLate
  <2> QED BY <2>1, <2>2, <2>3 DEF Next
<1> QED BY <1>1, <1>2 DEF Alone

(* Every step keeps the invariant.                                         *)
LEMMA FreshStep == ASSUME AgentInv, AgentInv', FreshInv, [Next]_vars PROVE FreshInv'
<1>1. CollectorInv /\ CollectorInv' /\ ReportsInv
  BY DEF AgentInv
<1>2. server \in Stores /\ PollsInv /\ GrowInv /\ OrderInv
  BY DEF FreshInv
<1>3. server' \in Stores
  BY <1>2, ServerTypeStep
<1>4. PollsInv' /\ GrowInv'
  BY <1>1, <1>2, GrowStep
<1>5. OrderInv'
  BY <1>2, OrderStep
<1>6. Alone' => LimboInv' /\ ServerBehind'
  BY AloneBefore, AloneStep
<1> QED BY <1>3, <1>4, <1>5, <1>6 DEF FreshInv

(* One worker (RATE_LIMIT at most 1) sends the reports in the order Run    *)
(* took them, and a request that failed is followed by its own metrics     *)
(* only: while no connection breaks, the server never goes back to an      *)
(* older gauge, even if a request cancelled at the shutdown arrives last.  *)
THEOREM GaugesStayFresh == Spec => GaugesFresh
<1> DEFINE I == AgentInv /\ FreshInv
<1>1. Init => I
  BY AgentInit, FreshInit
<1>2. I /\ [Next]_vars => I'
  BY AgentStep, FreshStep
<1>3. ASSUME I, [Next]_vars
      PROVE  [Started(rateLimit) = {1} /\ broken = 0 =>
                \A g \in Sampled : server.gauges[g] # Nil => server'.gauges[g] >= server.gauges[g]]_vars
  <2>1. Alone => Rises
    BY <1>3, AloneStep
  <2> QED BY <2>1 DEF Alone, Rises
<1> QED BY <1>1, <1>2, <1>3, PTL DEF Spec, GaugesFresh
=============================================================================
