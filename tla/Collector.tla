------------------------------ MODULE Collector ------------------------------
(***************************************************************************)
(* The agent's collector (adapters/collector/runtime): one goroutine       *)
(* samples the Go runtime, one the host, each writing gauge after gauge    *)
(* into the shared stats.  Every access to the stats holds their mutex, so *)
(* it is one step; a poll is many.  A gauge's value is represented by the  *)
(* number of the poll that sampled it, 0 before the first.                 *)
(*                                                                         *)
(* The actions below are composed by Agent.                                *)
(***************************************************************************)
EXTENDS AgentContext, Integers, Sequences, SequencesExt

CONSTANTS RuntimeGauges,  \* the gauges of the runtime goroutine, in order
          HostGauges,     \* those of the host goroutine
          MaxPolls        \* bounds the polls of each goroutine

Samplers == {"runtime", "host"}

ASSUME CollectorAssumption ==
    /\ MaxPolls \in [Samplers -> Nat]
    /\ ToSet(RuntimeGauges) \cap ToSet(HostGauges) = {}

VARIABLES stats,    \* gauges and PollCount
          sampler,  \* what each goroutine is doing
          halt      \* c.stop is closed

collectorVars == <<stats, sampler, halt>>

Plan(s) == IF s = "runtime" THEN RuntimeGauges ELSE HostGauges

Sampled == ToSet(RuntimeGauges) \cup ToSet(HostGauges)

CollectorInit ==
    /\ stats = [gauges |-> [g \in Sampled |-> 0], polls |-> 0]
    /\ sampler = [s \in Samplers |-> [pc |-> "wait", poll |-> 0, next |-> 1]]
    /\ halt = FALSE

-----------------------------------------------------------------------------
(* Faulty variant of Poll: PollCount is raised before the samples.         *)
PollCountingFirst(s) ==
    /\ sampler[s].pc = "wait" /\ sampler[s].poll < MaxPolls[s]
    /\ sampler' = [sampler EXCEPT ![s] = [pc |-> "poll", poll |-> @.poll + 1, next |-> 1]]
    /\ stats' = IF s = "runtime" THEN [stats EXCEPT !.polls = @ + 1] ELSE stats
    /\ UNCHANGED halt

(* The goroutine's ticker fires.                                           *)
Poll(s) ==
    /\ sampler[s].pc = "wait" /\ sampler[s].poll < MaxPolls[s]
    /\ sampler' = [sampler EXCEPT ![s] = [pc |-> "poll", poll |-> @.poll + 1, next |-> 1]]
    /\ UNCHANGED <<stats, halt>>

(* stats.SetGauge of the next gauge; gopsutil may have failed to read one  *)
(* of the host's, which then keeps its value.                              *)
SetNextGauge(s) ==
    /\ sampler[s].pc = "poll" /\ sampler[s].next <= Len(Plan(s))
    /\ \/ stats' = [stats EXCEPT !.gauges[Plan(s)[sampler[s].next]] = sampler[s].poll]
       \/ s = "host" /\ UNCHANGED stats
    /\ sampler' = [sampler EXCEPT ![s].next = @ + 1]
    /\ UNCHANGED halt

(* The poll is over; the runtime goroutine adds one to PollCount.          *)
EndPoll(s) ==
    /\ sampler[s].pc = "poll" /\ sampler[s].next > Len(Plan(s))
    /\ stats' = IF s = "runtime" THEN [stats EXCEPT !.polls = @ + 1] ELSE stats
    /\ sampler' = [sampler EXCEPT ![s].pc = "wait"]
    /\ UNCHANGED halt

SamplerExits(s) ==
    /\ sampler[s].pc = "wait" /\ (ctxDone \/ halt)
    /\ sampler' = [sampler EXCEPT ![s].pc = "exited"]
    /\ UNCHANGED <<stats, halt>>

(* Collector.Stop up to wg.Wait, and the condition Wait waits for.         *)
CloseStop ==
    /\ halt' = TRUE
    /\ UNCHANGED <<stats, sampler>>

SamplersGone == \A s \in Samplers : sampler[s].pc = "exited"
=============================================================================
